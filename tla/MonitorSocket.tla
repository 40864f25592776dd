--------------------------- MODULE MonitorSocket ----------------------------
(***************************************************************************)
(* The monitor panels of the browser: useTunnelMonitorWS and               *)
(* useSystemMonitorWS (the same hook written twice) and the charts that    *)
(* use them.                                                               *)
(*                                                                         *)
(* A rendering with the effects it triggers is one step, and so is the     *)
(* handler of one browser event.  What is not atomic is closing: the       *)
(* events of a socket that was closed arrive later, at handlers that       *)
(* write the state the next socket uses.  A closed or closing socket       *)
(* delivers no messages.                                                   *)
(*                                                                         *)
(* Abstracted: of a message its time, of a chart the samples it is drawn   *)
(* from.  Bounds: MaxTime, and HistoryLimit (10 and 20 in the code).       *)
(* Nobody calls the hook's own reconnect.                                  *)
(***************************************************************************)
EXTENDS Naturals, Sequences

CONSTANTS Ids, NoId, Sockets, NoSocket, NoSample, MaxTime, HistoryLimit

Sample == [socket : Sockets, time : 1..MaxTime]

ASSUME NilAssumption ==
    NoId \notin Ids /\ NoSocket \notin Sockets /\ NoSample \notin Sample
ASSUME LimitAssumption == MaxTime \in Nat /\ HistoryLimit \in Nat \ {0}

VARIABLES
    mounted,    \* the panel is on the page
    target,     \* the id it is given, NoId when it shall not connect
    ref,        \* websocketRef.current
    attempted,  \* hasAttemptedConnectionRef.current
    socket,     \* the browser's sockets
    connected,  \* isConnected
    connecting, \* isConnecting
    failed,     \* error is not null
    base,       \* the sample the next rate is measured from
    rate,       \* the two samples of the rate on display, or none
    history     \* dataHistory

hook == <<ref, attempted, connected, connecting, failed>>
chart == <<base, rate, history>>
vars == <<mounted, target, ref, attempted, socket, connected, connecting,
          failed, base, rate, history>>

SocketState ==
    [state : {"connecting", "open", "closing", "closed"}, id : Ids \cup {NoId}]

Samples == Sample \cup {NoSample}

TypeOK ==
    /\ mounted \in BOOLEAN
    /\ target \in Ids \cup {NoId}
    /\ ref \in Sockets \cup {NoSocket}
    /\ attempted \in BOOLEAN
    /\ socket \in [Sockets -> SocketState]
    /\ connected \in BOOLEAN /\ connecting \in BOOLEAN /\ failed \in BOOLEAN
    /\ base \in Samples
    /\ rate \in [from : Samples, to : Samples]
    /\ history \in Seq(Sample) /\ Len(history) <= HistoryLimit

Live == {s \in Sockets : socket[s].state \in {"connecting", "open"}}

NoRate == [from |-> NoSample, to |-> NoSample]

Init ==
    /\ mounted = FALSE /\ target = NoId
    /\ ref = NoSocket /\ attempted = FALSE
    /\ socket = [s \in Sockets |-> [state |-> "closed", id |-> NoId]]
    /\ connected = FALSE /\ connecting = FALSE /\ failed = FALSE
    /\ base = NoSample /\ rate = NoRate /\ history = <<>>

-----------------------------------------------------------------------------
(* connect and disconnect                                                  *)

ClearChart == base' = NoSample /\ rate' = NoRate /\ history' = <<>>

\* close() of a socket that may be closed already.
Closing(s) == [socket EXCEPT ![s].state = IF @ = "closed" THEN "closed" ELSE "closing"]

\* Mutant: the flag is left to the close event.
DisconnectKeepsFlag ==
    /\ socket' = IF ref = NoSocket THEN socket ELSE Closing(ref)
    /\ ref' = NoSocket /\ attempted' = FALSE
    /\ UNCHANGED connected
    /\ connecting' = FALSE /\ failed' = FALSE

Disconnect ==
    /\ socket' = IF ref = NoSocket THEN socket ELSE Closing(ref)
    /\ ref' = NoSocket /\ attempted' = FALSE
    /\ connected' = FALSE /\ connecting' = FALSE /\ failed' = FALSE

\* connect, called when no socket is held: the constructor returns a socket or
\* throws.
Connect(i) ==
    /\ attempted' = TRUE
    /\ \/ \E s \in {t \in Sockets : socket[t].state = "closed"} :
            /\ ref' = s
            /\ socket' = [socket EXCEPT ![s] = [state |-> "connecting", id |-> i]]
            /\ connecting' = TRUE /\ failed' = FALSE
       \/ /\ connecting' = FALSE /\ failed' = TRUE
          /\ UNCHANGED <<ref, socket>>
    /\ UNCHANGED connected

-----------------------------------------------------------------------------
(* The page                                                                *)

\* Mutant: connects again whenever it runs and no socket is held.
FollowTargetAgain(i) ==
    IF i = NoId THEN Disconnect
    ELSE IF ref # NoSocket /\ socket[ref].state # "closed" THEN UNCHANGED <<hook, socket>>
    ELSE Connect(i)

\* The effect that depends on the id.  It runs again after every rendering, which
\* changes nothing more.
FollowTarget(i) ==
    IF i = NoId THEN Disconnect
    ELSE IF attempted THEN UNCHANGED <<hook, socket>>
    ELSE Connect(i)

\* A panel appears with hook and chart of its own.
Mount(i) ==
    /\ ~mounted
    /\ mounted' = TRUE /\ target' = i
    /\ FollowTarget(i)
    /\ UNCHANGED chart

\* The object of the page changes, or its data come to (or no longer) meet the
\* conditions of shouldConnect.
Choose(i) ==
    /\ mounted /\ i # target
    /\ target' = i
    /\ FollowTarget(i)
    /\ UNCHANGED <<mounted, chart>>

\* The cleanup closes the socket held.  Events of sockets that are closing reach
\* a component that is gone, so they need not be followed further.
Unmount ==
    /\ mounted
    /\ mounted' = FALSE /\ target' = NoId
    /\ ref' = NoSocket /\ attempted' = FALSE
    /\ connected' = FALSE /\ connecting' = FALSE /\ failed' = FALSE
    /\ socket' = [s \in Sockets |->
          IF s = ref \/ socket[s].state = "closing"
            THEN [socket[s] EXCEPT !.state = "closed"] ELSE socket[s]]
    /\ ClearChart

-----------------------------------------------------------------------------
(* The events of a socket                                                  *)

\* What the handlers write stays only while there is an id: without one the
\* effect runs Disconnect again.
Shown(error) == failed' = (error /\ target # NoId)

\* Mutant: the chart goes on where the last connection left it.
OpenedKeepsChart(s) ==
    /\ socket[s].state = "connecting"
    /\ socket' = [socket EXCEPT ![s].state = "open"]
    /\ connected' = TRUE /\ connecting' = FALSE /\ failed' = FALSE
    /\ UNCHANGED <<mounted, target, ref, attempted, chart>>

\* onopen, with the onConnected of the charts.
Opened(s) ==
    /\ socket[s].state = "connecting"
    /\ socket' = [socket EXCEPT ![s].state = "open"]
    /\ connected' = TRUE /\ connecting' = FALSE /\ failed' = FALSE
    /\ ClearChart
    /\ UNCHANGED <<mounted, target, ref, attempted>>

\* Mutant: one sample too many.
DataUnsliced(s, time) ==
    /\ socket[s].state = "open"
    /\ LET sample == [socket |-> s, time |-> time]
       IN  /\ base' = sample
           /\ rate' = IF base # NoSample /\ time > base.time
                        THEN [from |-> base, to |-> sample] ELSE rate
           /\ history' = IF Len(history) <= HistoryLimit THEN Append(history, sample)
                         ELSE Append(Tail(history), sample)
    /\ UNCHANGED <<mounted, target, hook, socket>>

\* onmessage with data, and the onData of the charts.
Data(s, time) ==
    /\ socket[s].state = "open"
    /\ LET sample == [socket |-> s, time |-> time]
       IN  /\ base' = sample
           /\ rate' = IF base # NoSample /\ time > base.time
                        THEN [from |-> base, to |-> sample] ELSE rate
           /\ history' = IF Len(history) < HistoryLimit THEN Append(history, sample)
                         ELSE Append(Tail(history), sample)
    /\ UNCHANGED <<mounted, target, hook, socket>>

\* onmessage with an error of the server.
ServerError(s) ==
    /\ socket[s].state = "open"
    /\ Shown(TRUE)
    /\ UNCHANGED <<mounted, target, ref, attempted, socket, connected, connecting, chart>>

\* Mutant: connecting ends with onopen only.
ClosedConnecting(s, clean) ==
    /\ socket[s].state # "closed"
    /\ socket[s].state = "connecting" => ~clean
    /\ socket' = [socket EXCEPT ![s].state = "closed"]
    /\ connected' = FALSE
    /\ Shown(failed \/ ~clean)
    /\ UNCHANGED <<mounted, target, ref, attempted, connecting, chart>>

\* onclose, after onerror when the connection failed.
Closed(s, clean) ==
    /\ socket[s].state # "closed"
    /\ socket[s].state = "connecting" => ~clean
    /\ socket' = [socket EXCEPT ![s].state = "closed"]
    /\ connected' = FALSE /\ connecting' = FALSE
    /\ Shown(failed \/ ~clean)
    /\ UNCHANGED <<mounted, target, ref, attempted, chart>>

-----------------------------------------------------------------------------
SocketEvent(s) ==
    \/ Opened(s)
    \/ \E time \in 1..MaxTime : Data(s, time)
    \/ ServerError(s)
    \/ \E clean \in BOOLEAN : Closed(s, clean)

Next ==
    \/ \E i \in Ids \cup {NoId} : Mount(i) \/ Choose(i)
    \/ Unmount
    \/ \E s \in Sockets : SocketEvent(s)

Spec == Init /\ [][Next]_vars

\* The browser resolves every connection it was asked for: it opens or fails.
FairSpec ==
    /\ Spec
    /\ \A s \in Sockets :
          WF_vars(Opened(s) \/ (socket[s].state = "connecting" /\ Closed(s, FALSE)))

-----------------------------------------------------------------------------
(* Properties                                                              *)

\* The indicator never claims a connection that is not there: it is true only
\* while the socket the hook holds is open.  (It may be false under an open
\* socket, when the close event of an earlier one comes late.)
ConnectedMeansOpen ==
    connected => ref # NoSocket /\ socket[ref].state = "open"

\* A chart is never drawn from two connections, nor a rate measured across a
\* reconnection or backwards in time: onConnected starts anew, and what a
\* replaced socket sent does not arrive after that.
ChartOfOneStream ==
    LET shown == {base, rate.from, rate.to} \cup {history[k] : k \in 1..Len(history)}
    IN  /\ \A p, q \in shown \ {NoSample} : p.socket = q.socket
        /\ rate # NoRate => rate.from.time < rate.to.time

\* A panel that tries to connect does not do so for ever.
ConnectingEnds == connecting ~> ~connecting

\* The hook keeps what MonitorFeed promises: one feed at most, begun by a panel
\* that appears, ended with it, and never begun again by itself.
Feeds == INSTANCE MonitorFeed WITH
    wish <- target,
    feeds <- {[socket |-> s, id |-> socket[s].id] : s \in Live}
KeepsFeed == Feeds!FeedSpec
=============================================================================
