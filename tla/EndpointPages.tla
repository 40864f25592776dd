---------------------------- MODULE EndpointPages ---------------------------
(***************************************************************************)
(* The list of endpoints (pages/endpoints), the page of one endpoint       *)
(* (pages/endpoints/details), and the change of an endpoint's key, which   *)
(* both begin and which goes on when the page is left: the endpoint is     *)
(* disconnected, the key sent, the page refreshed, and after a timer the   *)
(* endpoint is connected again.  The list clears its timers when it is     *)
(* left, the page of the endpoint does not.                                *)
(*                                                                         *)
(* A step is the handler of one event, timer or answer with the rendering  *)
(* that follows.  Requests are answered in any order; nothing cancels one. *)
(*                                                                         *)
(* Abstracted: the endpoints.  Bounds: MaxFetches requests of a kind, one  *)
(* action and one change of the key under way.  The export, the forms'     *)
(* fields, the QR code and the monitor charts are left out.                *)
(***************************************************************************)
EXTENDS Naturals

CONSTANTS MaxFetches

VARIABLES
    route, page, late,
    rekey \* the change of the key: which page began it, whether that page is
          \* still shown, and what it waits for

Steps == {"disconnect", "refetch", "key", "fetch", "timer", "connect", "update"}

\* none also when it failed or its timer was cleared.
Ends == {"none", "reloaded"}

Rekey == [from : {"list", "details"}, here : BOOLEAN, step : Steps \cup Ends]

NoRekey == [from |-> "list", here |-> FALSE, step |-> "none"]

InList == route = "endpoints"
InDetails == route = "endpoint"

Kinds == {"detail", "stats", "instances"}

ListOps == {"add", "delete", "link", "rename", "tunnel", "validate", "import"}
DetailOps == {"link", "config", "refresh", "tunnel", "delete"}

\* asked: fetchEndpoints under way; submitting: isSubmitting; reload: the timer of
\* an import that succeeded.
ListPage ==
    [loading : BOOLEAN, asked : 0..MaxFetches, op : ListOps \cup {"none"},
     submitting : BOOLEAN, reload : BOOLEAN]

EndpointPage ==
    [busy : [Kinds -> BOOLEAN], asked : [Kinds -> 0..MaxFetches],
     op : DetailOps \cup {"none"}]

EndpointsTypeOK ==
    /\ InList => page \in ListPage
    /\ InDetails => page \in EndpointPage
    /\ rekey \in Rekey

ListShown ==
    [loading |-> TRUE, asked |-> 1, op |-> "none", submitting |-> FALSE, reload |-> FALSE]

EndpointShown ==
    [busy |-> [k \in Kinds |-> TRUE], asked |-> [k \in Kinds |-> 1], op |-> "none"]

\* The navigation after a deletion that succeeds.
EndpointLeaves == IF page.op = "delete" THEN {"endpoints"} ELSE {}

\* Mutant: the page of the endpoint clears its timer, too.
RekeyLeftAlways ==
    IF ~rekey.here THEN rekey
    ELSE [rekey EXCEPT !.here = FALSE, !.step = IF @ = "timer" THEN "none" ELSE @]

\* The page that began the change is left.
RekeyLeft ==
    IF ~rekey.here THEN rekey
    ELSE [rekey EXCEPT !.here = FALSE,
                       !.step = IF @ = "timer" /\ rekey.from = "list" THEN "none" ELSE @]

-----------------------------------------------------------------------------
(* The list                                                                *)

\* fetchEndpoints from a list in the state p.
Listing(p) == [p EXCEPT !.loading = TRUE, !.asked = @ + 1]

Listed(p) == [p EXCEPT !.loading = FALSE, !.asked = @ - 1]

PressRefresh ==
    /\ InList /\ page.asked < MaxFetches
    /\ page' = Listing(page)
    /\ UNCHANGED <<route, late, rekey>>

ListAnswered ==
    /\ InList /\ page.asked > (IF rekey.here /\ rekey.step \in {"refetch", "fetch", "update"}
                                THEN 1 ELSE 0)
    /\ page' = Listed(page)
    /\ UNCHANGED <<route, late, rekey>>

\* "validate" and "import" are the two halves of an import.
PressInList(op) ==
    /\ InList /\ page.op = "none"
    /\ op \in {"validate", "import"} => ~page.submitting
    /\ page' = [page EXCEPT !.op = op, !.submitting = op \in {"validate", "import"}]
    /\ UNCHANGED <<route, late, rekey>>

\* Most actions that succeed ask for the list.
ListOpAnswered ==
    /\ InList /\ page.op # "none"
    /\ LET p == [page EXCEPT !.op = "none", !.submitting = FALSE]
       IN  \/ page' = p
           \/ /\ page.op \notin {"tunnel", "validate", "import"} /\ page.asked < MaxFetches
              /\ page' = Listing(p)
           \/ /\ page.op = "import"
              /\ page' = [p EXCEPT !.reload = TRUE]
    /\ UNCHANGED <<route, late, rekey>>

\* The window is reloaded: nothing of what was under way comes back.
Reload ==
    /\ InList /\ page.reload
    /\ page' = ListShown /\ late' = {}
    /\ rekey' = IF rekey.step \in Steps THEN [rekey EXCEPT !.here = FALSE, !.step = "reloaded"]
                ELSE rekey
    /\ UNCHANGED route

-----------------------------------------------------------------------------
(* The page of an endpoint                                                 *)

Asking(p, k) == [p EXCEPT !.busy[k] = TRUE, !.asked[k] = @ + 1]

Heard(p, k) == [p EXCEPT !.busy[k] = FALSE, !.asked[k] = @ - 1]

\* The button shows the three spinners and is dead under them.
RefreshAll ==
    /\ InDetails /\ \A k \in Kinds : ~page.busy[k] /\ page.asked[k] < MaxFetches
    /\ page' = [page EXCEPT !.busy = [k \in Kinds |-> TRUE],
                            !.asked = [k \in Kinds |-> @[k] + 1]]
    /\ UNCHANGED <<route, late, rekey>>

DataAnswered(k) ==
    /\ InDetails
    /\ page.asked[k] > (IF k = "detail" /\ rekey.here
                             /\ rekey.step \in {"refetch", "fetch", "update"} THEN 1 ELSE 0)
    /\ page' = Heard(page, k)
    /\ UNCHANGED <<route, late, rekey>>

PressInDetails(op) ==
    /\ InDetails /\ page.op = "none"
    /\ page' = [page EXCEPT !.op = op]
    /\ UNCHANGED <<route, late, rekey>>

\* Most actions that succeed ask for what they may have changed.
DetailOpAnswered ==
    /\ InDetails /\ page.op # "none"
    /\ LET p == [page EXCEPT !.op = "none"]
           k == IF page.op \in {"refresh", "tunnel"} THEN "instances" ELSE "detail"
       IN  \/ page' = p
           \/ page.op # "delete" /\ page.asked[k] < MaxFetches /\ page' = Asking(p, k)
    /\ UNCHANGED <<route, late, rekey>>

\* A deletion that succeeds takes the user to the list.
EndpointQuits == InDetails /\ page.op = "delete" /\ UNCHANGED late

-----------------------------------------------------------------------------
(* The change of the key                                                   *)

\* The change goes on to a step and, if its page is shown, refreshes it there.
Asks(step) ==
    /\ rekey' = [rekey EXCEPT !.step = step]
    /\ IF ~rekey.here THEN UNCHANGED page
       ELSE IF rekey.from = "list" THEN page.asked < MaxFetches /\ page' = Listing(page)
       ELSE page.asked["detail"] < MaxFetches /\ page' = Asking(page, "detail")

\* fetchEndpoints of a list that is gone asks for nothing.
Refreshes(step, next) ==
    IF rekey.from = "list" /\ ~rekey.here
      THEN rekey' = [rekey EXCEPT !.step = next] /\ UNCHANGED page
      ELSE Asks(step)

Refreshed(step, next) ==
    /\ rekey.step = step
    /\ rekey' = [rekey EXCEPT !.step = next]
    /\ page' = IF ~rekey.here THEN page
               ELSE IF rekey.from = "list" THEN Listed(page) ELSE Heard(page, "detail")

GoesOn(step) == rekey' = [rekey EXCEPT !.step = step] /\ UNCHANGED page

\* handleEditApiKey of the list, and handleResetApiKey and a change of the
\* configuration on the page of the endpoint.
BeginRekey ==
    /\ InList \/ InDetails
    /\ rekey.step \in Ends
    /\ rekey' = [from |-> IF InList THEN "list" ELSE "details", here |-> TRUE,
                 step |-> "disconnect"]
    /\ UNCHANGED <<route, page, late>>

\* handleDisconnect hides its error.
DisconnectAnswered ==
    /\ rekey.step = "disconnect"
    /\ GoesOn("key") \/ Refreshes("refetch", "key")
    /\ UNCHANGED <<route, late>>

KeyAnswered ==
    /\ rekey.step = "key"
    /\ GoesOn("none") \/ Refreshes("fetch", "timer")
    /\ UNCHANGED <<route, late>>

\* safeSetTimeout of the list calls nothing once the list is gone.
TimerFires ==
    /\ rekey.step = "timer"
    /\ GoesOn(IF rekey.from = "list" /\ ~rekey.here THEN "none" ELSE "connect")
    /\ UNCHANGED <<route, late>>

\* handleConnect
ConnectAnswered ==
    /\ rekey.step = "connect"
    /\ GoesOn("none") \/ Refreshes("update", "none")
    /\ UNCHANGED <<route, late>>

RefreshAnswered ==
    /\ \/ Refreshed("refetch", "key") \/ Refreshed("fetch", "timer")
       \/ Refreshed("update", "none")
    /\ UNCHANGED <<route, late>>

RekeyNext ==
    DisconnectAnswered \/ KeyAnswered \/ TimerFires \/ ConnectAnswered \/ RefreshAnswered

EndpointsNext ==
    \/ PressRefresh \/ ListAnswered \/ ListOpAnswered \/ Reload
    \/ \E op \in ListOps : PressInList(op)
    \/ RefreshAll \/ (\E k \in Kinds : DataAnswered(k))
    \/ (\E op \in DetailOps : PressInDetails(op)) \/ DetailOpAnswered
    \/ BeginRekey

-----------------------------------------------------------------------------
(* Properties                                                              *)

\* No spinner outlives its requests, with the change of a key refreshing the page
\* between the user's own actions.
EndpointsBusyMeansPending ==
    /\ InList => /\ page.loading => page.asked > 0
                 /\ page.submitting => page.op \in {"validate", "import"}
    /\ InDetails => \A k \in Kinds : page.busy[k] => page.asked[k] > 0

\* A new key that an endpoint was given on its page is followed by the request to
\* connect it again, whatever the user does meanwhile: leaving the page loses
\* nothing of the change, only a reload of the window does.
KeyResetReconnects ==
    [][rekey.from = "details" /\ rekey.step \in {"fetch", "timer"} =>
          rekey'.step \in {"fetch", "timer", "connect", "reloaded"}]_rekey
=============================================================================
