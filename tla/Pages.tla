-------------------------------- MODULE Pages -------------------------------
(***************************************************************************)
(* The pages of the frontend one after another: the user goes from page to *)
(* page, and what a page left under way may still navigate, or go on with  *)
(* the change of a key.                                                    *)
(*                                                                         *)
(* A page that is left loses its state, its timers and its subscriptions;  *)
(* its requests go on without it, and their answers change nothing any     *)
(* more but the route and the change of a key.                             *)
(*                                                                         *)
(* Bounds: those of the pages; at most one thing is left behind, and while *)
(* it is under way the user visits the pages of Crossing only.  A page     *)
(* rests while one of the two dialogs of diagnosis has been opened on it,  *)
(* and while one of its forms is followed, from the page as it appears on. *)
(* A page that is only a form is entered from the dashboard.               *)
(***************************************************************************)
EXTENDS MetricsTrend, Naturals, FiniteSets, Sequences

CONSTANTS
    MaxPending, MaxFiles,                             \* TunnelDetails
    Services, NoService, MaxRefresh,                  \* ServiceDetails
    Texts, NoText, Views, FirstView, MaxFetches,      \* TunnelsPage, EndpointPages
    MaxDrags, MaxLists,                               \* ServicesPage
    MaxRounds,                                        \* Dashboard
    Tests, MaxSequences, MaxPings,                    \* NetworkTest, TcpingTest
    MaxBlank, MaxRules, MaxAsked, MaxSent,            \* Forms
    Crossing

\* A service without a server instance forwards by its client alone.
ASSUME PagesAssumption ==
    /\ Services \subseteq [client : Ids, server : Ids \cup {NoId}]
    /\ NoService \notin Services
    /\ FirstView \in Views /\ NoText \in Texts
    /\ Tests \in Nat \ {0}

\* There are two objects; one request of each kind fits, and one file of a log.
ASSUME BoundsAssumption ==
    /\ \E i, j \in Ids : i # j
    /\ {MaxPending, MaxFiles, MaxFetches, MaxLists, MaxRounds, MaxSequences,
        MaxAsked, MaxSent} \subseteq Nat \ {0}
    /\ {MaxRefresh, MaxDrags, MaxPings, MaxRules} \subseteq Nat

VARIABLES route, page, late, rekey, test, ping, form

Tunnel == INSTANCE TunnelDetails
Service == INSTANCE ServiceDetails
Tunnels == INSTANCE TunnelsPage
Endpoints == INSTANCE EndpointPages
ServiceList == INSTANCE ServicesPage
Board == INSTANCE Dashboard
Events == INSTANCE EventPages
Network == INSTANCE NetworkTest
Tcping == INSTANCE TcpingTest
Form == INSTANCE Forms
TunnelForm == INSTANCE TunnelForms
GroupForm == INSTANCE GroupForms
ServiceForm == INSTANCE ServiceForms
EndpointForm == INSTANCE EndpointForms
SettingsForm == INSTANCE SettingsForms
ToolForm == INSTANCE ToolForms
TableForm == INSTANCE TunnelTable
AccountForm == INSTANCE AccountForms
Preference == INSTANCE Preferences

\* No object is called like an operation, and none is the row of the spinner.
ASSUME IdsAssumption == Ids \cap (TableForm!Operations \cup {TableForm!Skeleton}) = {}

Pages == {"dashboard", "tunnels", "tunnel", "services", "service", "endpoints", "endpoint",
          "events", "logs"}

dialogs == <<test, ping>>

vars == <<route, page, late, rekey, trend, dialogs, form>>

TypeOK ==
    /\ route \in Pages
    /\ late \subseteq {"tunnels", "services", "endpoints"}
    /\ Tunnel!DetailsTypeOK /\ Service!ServiceTypeOK /\ Tunnels!TunnelsTypeOK
    /\ Endpoints!EndpointsTypeOK /\ ServiceList!ServicesTypeOK /\ Board!DashboardTypeOK
    /\ Events!EventsTypeOK /\ Network!TestTypeOK /\ Tcping!PingTypeOK
    /\ TrendTypeOK
    /\ TunnelForm!TunnelFormsTypeOK /\ GroupForm!GroupFormsTypeOK
    /\ ServiceForm!ServiceFormsTypeOK /\ EndpointForm!EndpointFormsTypeOK
    /\ SettingsForm!SettingsFormsTypeOK /\ ToolForm!ToolFormsTypeOK
    /\ TableForm!TableFormsTypeOK /\ AccountForm!AccountFormsTypeOK
    /\ Preference!PreferencesTypeOK

-----------------------------------------------------------------------------
Init ==
    /\ route = "dashboard" /\ page = Board!DashboardShown
    /\ late = {} /\ rekey = Endpoints!NoRekey
    /\ TrendStart
    /\ test = Network!Closed /\ ping = Tcping!Closed
    /\ form = Form!NoForm

\* A page as it appears.  One tunnel stands for all.
Shown(p) ==
    CASE p = "dashboard" -> {Board!DashboardShown}
      [] p = "tunnels"   -> {Tunnels!TunnelsShown}
      [] p = "tunnel"    -> {Tunnel!TunnelShown(CHOOSE i \in Ids : TRUE)}
      [] p = "services"  -> {ServiceList!ServicesShown}
      [] p = "service"   -> {Service!ServiceShown}
      [] p = "endpoints" -> {Endpoints!ListShown}
      [] p = "endpoint"  -> {Endpoints!EndpointShown}
      [] p = "events"    -> {Events!EventsShown}
      [] p = "logs"      -> {Events!LogsShown}

\* What may navigate although the page is left.
Leaves ==
    CASE route = "tunnel"   -> Tunnel!TunnelLeaves
      [] route = "service"  -> Service!ServiceLeaves
      [] route = "endpoint" -> Endpoints!EndpointLeaves
      [] route = "logs"     -> Events!LogsLeaves
      [] OTHER              -> {}

Appears(p) ==
    /\ route' = p /\ page' \in Shown(p)
    /\ rekey' = IF Endpoints!RekeyLeft.step \in Endpoints!Ends THEN Endpoints!NoRekey
                ELSE Endpoints!RekeyLeft
    /\ TrendEnds

\* Navigations and changes of a key that are left to themselves.
Behind(navigations, change) ==
    Cardinality(navigations) + (IF change.step \in Endpoints!Steps THEN 1 ELSE 0)

\* The user follows a link.
Go(p) ==
    /\ p # route
    /\ late' \in {late, late \cup Leaves}
    /\ Appears(p)
    /\ Behind(late', rekey') <= (IF p \in Crossing THEN 1 ELSE 0)

\* The page itself takes the user to its list.
Quits ==
    \/ Service!ServiceQuits /\ Appears("services")
    \/ Endpoints!EndpointQuits /\ Appears("endpoints")
    \/ Events!LogsQuit /\ Appears("services")

\* navigate of a page that was left, or of a timer.
Navigates ==
    \E p \in late :
        /\ late' = late \ {p}
        /\ IF p = route THEN UNCHANGED <<route, page, rekey, trend>> ELSE Appears(p)

\* The request that might have navigated fails, or its handler does not.
NeverNavigates == \E p \in late : late' = late \ {p} /\ UNCHANGED <<route, page, rekey, trend>>

\* A step of the page that is shown, or of what was left behind.
PageStep ==
    \/ \E p \in Pages : Go(p)
    \/ Quits \/ Navigates \/ NeverNavigates
    \/ Tunnel!DetailsNext /\ UNCHANGED rekey
    \/ Service!ServiceNext /\ UNCHANGED rekey
    \/ Tunnels!TunnelsNext /\ UNCHANGED <<rekey, trend>>
    \/ /\ Endpoints!EndpointsNext \/ Endpoints!RekeyNext
       /\ Behind(late', rekey') <= 1
       /\ UNCHANGED trend
    \/ ServiceList!ServicesNext /\ UNCHANGED <<rekey, trend>>
    \/ Board!DashboardNext /\ UNCHANGED <<rekey, trend>>
    \/ Events!EventsNext /\ UNCHANGED <<rekey, trend>>

DialogsAtRest == Network!AtRest /\ Tcping!AtRest

\* Nothing is under way but the interval of the charts.
PageAtRest ==
    /\ late = {} /\ rekey = Endpoints!NoRekey /\ requests = {}
    /\ route = "tunnel" => /\ \A op \in Tunnel!Ops : page.pending[op] = 0
                           /\ page.files = 0 /\ page.info # "none"
    /\ route = "endpoint" => /\ \A k \in Endpoints!Kinds : page.asked[k] = 0
                             /\ page.op = "none"

\* The button of the page opens the dialog.
DialogOpens ==
    /\ PageAtRest
    /\ \/ route = "endpoint" /\ Network!OpenTest /\ UNCHANGED ping
       \/ route = "tunnel" /\ Tcping!OpenPing /\ UNCHANGED test

DialogStep ==
    \/ DialogsAtRest /\ DialogOpens
    \/ Network!TestNext /\ UNCHANGED ping
    \/ Tcping!OpenPing /\ ~Tcping!AtRest /\ UNCHANGED test
    \/ Tcping!PingNext /\ UNCHANGED test
    \/ Network!OpenTest /\ ~Network!AtRest /\ UNCHANGED ping

\* The page is as it appears, with its charts still empty.
PageAppears ==
    /\ page \in Shown(route)
    /\ late = {} /\ rekey = Endpoints!NoRekey /\ requests = {} /\ data = NoData /\ ~failed

FormsOf ==
    TunnelForm!TunnelFormsOf(route) \cup GroupForm!GroupFormsOf(route)
    \cup ServiceForm!ServiceFormsOf(route) \cup EndpointForm!EndpointFormsOf(route)
    \cup SettingsForm!SettingsFormsOf(route) \cup ToolForm!ToolFormsOf(route)
    \cup TableForm!TableFormsOf(route) \cup AccountForm!AccountFormsOf(route)
    \cup Preference!PreferencesOf(route)

\* One form of the page is followed from now on.
FormAppears ==
    /\ form = Form!NoForm
    /\ PageAppears
    /\ form' \in FormsOf

\* The page is left, and with it the form; no answer finds it any more.
FormLeft == form # Form!NoForm /\ form' = Form!NoForm

FormStep ==
    \/ FormAppears \/ FormLeft
    \/ form.name \in TunnelForm!TunnelFormNames /\ TunnelForm!TunnelFormsNext
    \/ form.name \in GroupForm!GroupFormNames /\ GroupForm!GroupFormsNext
    \/ form.name \in ServiceForm!ServiceFormNames /\ ServiceForm!ServiceFormsNext
    \/ form.name \in EndpointForm!EndpointFormNames /\ EndpointForm!EndpointFormsNext
    \/ form.name \in SettingsForm!SettingsFormNames /\ SettingsForm!SettingsFormsNext
    \/ form.name \in ToolForm!ToolFormNames /\ ToolForm!ToolFormsNext
    \/ form.name \in TableForm!TableFormNames /\ TableForm!TableFormsNext
    \/ form.name \in AccountForm!AccountFormNames /\ AccountForm!AccountFormsNext
    \/ form.name \in Preference!PreferencesNames /\ Preference!PreferencesNext

Next ==
    \/ form = Form!NoForm /\ DialogsAtRest /\ PageStep /\ UNCHANGED <<dialogs, form>>
    \/ form = Form!NoForm /\ DialogStep /\ UNCHANGED <<route, page, late, rekey, trend, form>>
    \/ DialogsAtRest /\ FormStep /\ UNCHANGED <<route, page, late, rekey, trend, dialogs>>

Spec == Init /\ [][Next]_vars

-----------------------------------------------------------------------------
(* Properties                                                              *)

\* The forms that are unmounted while their page is shown: the dialog that edits a tunnel
\* and those nested in it, and the dialog of the members of a group.
Remounted == {"edit", "members"} \cup TunnelForm!Nested

\* No page is left behind a spinner, and no button dead, without a request that
\* ends it, whatever overlaps and whatever fails.
BusyMeansPending ==
    /\ Tunnel!BusyMeansPending /\ Service!ServiceBusyMeansPending
    /\ Tunnels!ListBusyMeansPending /\ Endpoints!EndpointsBusyMeansPending
    /\ ServiceList!ServicesBusyMeansPending /\ Board!DashboardBusyMeansPending
    /\ Events!EventsBusyMeansPending /\ Network!TestBusyMeansPending
    /\ Tcping!PingBusyMeansPending
    /\ Form!FormBusyMeansPending /\ ToolForm!ToolsBusyMeansPending

\* However often a form that stays mounted is closed, opened again and submitted, and
\* whenever the answers come, no second submission of it starts while one is under way.
\* The exceptions are the forms that are unmounted with a submission under way and come
\* back without its flag; the drawer of groups, whose buttons to delete look at no flag;
\* the table of tunnels, the sign-in and the forms of endpoints that have none; and the
\* cleanup of logs and the page of tests, whose operations have one each.
OneSubmission ==
    /\ form.name \notin Remounted \cup EndpointForm!Flagless
                         \cup {"groups", "table", "login", "cleanup", "debug"} =>
          Form!FormSubmitsOnce
    /\ SettingsForm!SettingsSubmitOnce /\ ToolForm!ToolSubmitOnce

\* No submission lacks what the server needs of it, whatever was typed, cleared by
\* another choice, or taken over from an answer that came late.
RequestsComplete ==
    /\ TunnelForm!TunnelRequestsComplete /\ ServiceForm!ServiceRequestsComplete
    /\ EndpointForm!EndpointRequestsComplete /\ SettingsForm!SettingsRequestsComplete
    /\ AccountForm!AccountRequestsComplete

\* What a form submits is what its user has seen in it: it is for the object whose data
\* the form holds, and for which the page opened it, without values of fields that a
\* choice has taken away.  A form that can be submitted behind its spinner sends what it
\* showed before.
SubmitsWhatIsShown ==
    [][Len(form'.sent) > Len(form.sent) =>
          LET r == form'.sent[Len(form'.sent)]
          IN  /\ TunnelForm!TunnelSubmitsShown(r) /\ GroupForm!GroupSubmitsShown(r)
              /\ ServiceForm!ServiceSubmitsShown(r) /\ EndpointForm!EndpointSubmitsShown(r)
              /\ SettingsForm!SettingsSubmitsShown(r) /\ ToolForm!ToolSubmitsShown(r)
              /\ TableForm!TableSubmitsShown(r) /\ AccountForm!AccountSubmitsShown(r)]_form

\* See TunnelDetails, TunnelsPage, ServicesPage, EndpointPages and Preferences.
LiveLinesGo == Tunnel!LiveLinesGo
FilterIsNewestInput == Tunnels!FilterIsNewestInput
LastDragStays == ServiceList!LastDragStays
KeyResetReconnects == Endpoints!KeyResetReconnects
ThemesAgree == Preference!ThemesAgree
=============================================================================
