--------------------------- MODULE ServiceDetails ---------------------------
(***************************************************************************)
(* The page of one service (pages/services/details): the service, its one  *)
(* or two tunnels, and the charts of the tunnel that counts (MetricsTrend).*)
(*                                                                         *)
(* A step is the handler of one event or answer with the rendering and the *)
(* effects that follow.  handleRefresh asks for one thing after another    *)
(* with the ids it was created with, while the effect on the service asks  *)
(* for the tunnels of the service that has come; nothing cancels any of    *)
(* them.  An action's handler calls the handleRefresh of the moment of the *)
(* press, which believes that nothing is being refreshed.                  *)
(*                                                                         *)
(* Abstracted: of a service its instances, of which the server may be      *)
(* missing; of a tunnel its instance; equal requests of the effect under   *)
(* way are one.  Bounds: Services, what the server may answer; MaxRefresh  *)
(* refreshes under way, and one action.  Renaming and the diagnosis are    *)
(* modules of their own (ServiceForms, ToolForms); sliding is left out.    *)
(***************************************************************************)
EXTENDS MetricsTrend, Naturals

CONSTANTS Services, NoService, MaxRefresh

VARIABLES route, page, late

Idle == [pc |-> "idle", of |-> NoService]

Runs == {Idle} \cup [pc : {"service", "client", "server"}, of : Services]

\* "act" is starting, stopping, restarting, synchronising or dissolving.
Actions == {"act", "delete"}

\* first: the request of the effect that runs when the page appears; asked: those
\* of the effect on the service; run: handleRefresh, and the service its closure
\* has; post: an action with its closure.
ServicePage ==
    [service : Services \cup {NoService},
     client : Ids \cup {NoId}, server : Ids \cup {NoId},
     loading : BOOLEAN, tunnelLoading : BOOLEAN, refreshing : BOOLEAN,
     first : BOOLEAN, asked : SUBSET ({"client", "server"} \X Ids),
     run : [1..MaxRefresh -> Runs],
     post : [op : Actions \cup {"none"}, of : Services \cup {NoService}]]

Here == route = "service"

ServiceTypeOK == Here => page \in ServicePage

NoPost == [op |-> "none", of |-> NoService]

ServiceShown ==
    [service |-> NoService, client |-> NoId, server |-> NoId,
     loading |-> TRUE, tunnelLoading |-> FALSE, refreshing |-> FALSE,
     first |-> TRUE, asked |-> {}, run |-> [k \in 1..MaxRefresh |-> Idle],
     post |-> NoPost]

\* Whatever asks for the service, or will, leads to the list if it fails; so does a
\* deletion that succeeds.
Leads(p) ==
    p.first \/ p.post # NoPost \/ \E k \in 1..MaxRefresh : p.run[k].pc = "service"

ServiceLeaves == IF Leads(page) THEN {"services"} ELSE {}

Visible == ~page.refreshing /\ ~page.loading /\ page.service # NoService

\* The tunnel whose measurements count, of a page in the state p.
Counts(p) ==
    IF p.service = NoService THEN NoId
    ELSE IF p.service.server = NoId THEN p.client ELSE p.server

Render(new) == page' = new /\ Follow(Counts(new))

\* Mutant: the server's tunnel is asked for although there is none.
AsksForBoth(s) == {<<"client", s.client>>, <<"server", s.server>>}

\* The requests of the effect on the service.
AsksFor(s) ==
    {<<"client", s.client>>} \cup (IF s.server = NoId THEN {} ELSE {<<"server", s.server>>})

\* A service comes to a page in the state p, and the effect asks for its tunnels.
Brought(p, s) ==
    [p EXCEPT !.service = s, !.asked = @ \cup AsksFor(s), !.tunnelLoading = TRUE,
              !.loading = FALSE]

-----------------------------------------------------------------------------
(* The requests of the effects                                             *)

\* fetchServiceDetails
ServiceAnswered ==
    /\ Here /\ page.first
    /\ \E s \in Services : Render(Brought([page EXCEPT !.first = FALSE], s))
    /\ UNCHANGED <<route, late>>

\* fetchTunnelDetails, which one of two requests ends the spinner.
Tunnel(p, type, i) ==
    IF type = "client" THEN [p EXCEPT !.client = i] ELSE [p EXCEPT !.server = i]

TunnelAnswered ==
    /\ Here
    /\ \E ask \in page.asked :
          LET p == [page EXCEPT !.asked = @ \ {ask}, !.tunnelLoading = FALSE]
          IN  Render(Tunnel(p, ask[1], ask[2])) \/ Render(p)
    /\ UNCHANGED <<route, late>>

-----------------------------------------------------------------------------
(* handleRefresh                                                           *)

\* It begins in slot k with the closure's service.
Begins(p, k, s) ==
    [p EXCEPT !.run[k] = [pc |-> "service", of |-> s], !.refreshing = TRUE, !.loading = TRUE]

\* The first slot that is free.
Free ==
    {k \in 1..MaxRefresh :
        page.run[k] = Idle /\ \A j \in 1..(k - 1) : page.run[j] # Idle}

PressRefresh ==
    /\ Here /\ Visible
    /\ \E k \in Free : Render(Begins(page, k, page.service))
    /\ UNCHANGED <<route, late>>

Ends(p, k) == [p EXCEPT !.run[k] = Idle, !.refreshing = FALSE]

\* Then the tunnels of the closure's service are asked for.
RefreshService(k) ==
    /\ Here /\ page.run[k].pc = "service"
    /\ \E s \in Services :
          Render(Brought([page EXCEPT !.run[k].pc = "client"], s))
    /\ UNCHANGED <<route, late>>

RefreshClient(k) ==
    /\ Here /\ page.run[k].pc = "client"
    /\ LET s == page.run[k].of
           next(p) == IF s.server = NoId THEN Ends([p EXCEPT !.tunnelLoading = FALSE], k)
                      ELSE [p EXCEPT !.run[k].pc = "server", !.tunnelLoading = TRUE]
       IN  Render(next(Tunnel(page, "client", s.client))) \/ Render(next(page))
    /\ UNCHANGED <<route, late>>

RefreshServer(k) ==
    /\ Here /\ page.run[k].pc = "server"
    /\ LET p == Ends([page EXCEPT !.tunnelLoading = FALSE], k)
       IN  Render(Tunnel(p, "server", page.run[k].of.server)) \/ Render(p)
    /\ UNCHANGED <<route, late>>

-----------------------------------------------------------------------------
(* handleServiceAction, handleSyncService and handleConfirmedAction        *)

PressAction(op) ==
    /\ Here /\ Visible /\ page.post = NoPost
    /\ Render([page EXCEPT !.post = [op |-> op, of |-> page.service]])
    /\ UNCHANGED <<route, late>>

\* Success refreshes the page.
ActionAnswered ==
    /\ Here /\ page.post # NoPost
    /\ LET p == [page EXCEPT !.post = NoPost]
       IN  \/ Render(p)
           \/ /\ page.post.op # "delete"
              /\ \E k \in Free : Render(Begins(p, k, page.post.of))
    /\ UNCHANGED <<route, late>>

\* A failing fetchServiceDetails, or a deletion that succeeds, takes the user to
\* the list; what else is under way may do so later.
ServiceQuits ==
    /\ Here
    /\ \E p \in {[page EXCEPT !.first = FALSE]} \cup
              {[page EXCEPT !.run[k] = Idle] :
                  k \in {k \in 1..MaxRefresh : page.run[k].pc = "service"}} \cup
              (IF page.post.op = "delete" THEN {[page EXCEPT !.post = NoPost]} ELSE {}) :
          /\ p # page
          /\ late' \in {late} \cup (IF Leads(p) THEN {late \cup {"services"}} ELSE {})

-----------------------------------------------------------------------------
Charts ==
    /\ Here
    /\ Poll \/ TrendAnswered
    /\ UNCHANGED <<route, page, late>>

ServiceNext ==
    \/ ServiceAnswered \/ TunnelAnswered \/ PressRefresh
    \/ \E k \in 1..MaxRefresh : RefreshService(k) \/ RefreshClient(k) \/ RefreshServer(k)
    \/ \E op \in Actions : PressAction(op)
    \/ ActionAnswered \/ Charts

-----------------------------------------------------------------------------
(* Properties                                                              *)

\* Two refreshes and the effects clear one another's spinners, but none of the
\* three is left without a request that ends it.
ServiceBusyMeansPending ==
    Here =>
        LET at(pcs) == \E k \in 1..MaxRefresh : page.run[k].pc \in pcs
        IN  /\ page.loading => page.first \/ at({"service"})
            /\ page.tunnelLoading => page.asked # {} \/ at({"client", "server"})
            /\ page.refreshing => at({"service", "client", "server"})
=============================================================================
