------------------------------ MODULE ToolForms ------------------------------
(***************************************************************************)
(* The tools of diagnosis that are not a dialog of their own page: the     *)
(* reachability of a service's targets (services/tcping-modal) and the     *)
(* page of tests (pages/debug).                                            *)
(*                                                                         *)
(* Abstracted: an address is the instance it is tested from; of a result   *)
(* what it is of; the number of pings, which falls back to four.  Bounds:  *)
(* MaxSent of the three tests of the page under way.                       *)
(***************************************************************************)
EXTENDS Forms

ToolFields == {"url", "key", "host", "port", "target"}

-----------------------------------------------------------------------------
(* "reach": a list of addresses, the spinner, the result                   *)

\* A service that forwards through its server reaches its main target from there.
Chains == {"own", "through"}

ReachStart(c) == FormOf("reach", [chain |-> c])

ClientInstance == CHOOSE i \in Ids : TRUE
ServerInstance == CHOOSE i \in Ids : i # ClientInstance

\* getAllAddressOptions: the entry is listed and dead; an additional target is always
\* tested from the client.
Options ==
    {ClientInstance} \cup (IF form.pick.chain = "through" THEN {ServerInstance} ELSE {})

ReachOpens ==
    /\ Named("reach") /\ ~form.open
    /\ form' = [form EXCEPT !.open = TRUE]

\* performTcpingTest of a row, which the list shows without spinner and result.
ReachTests ==
    /\ OpenAs("reach") /\ ~form.loading /\ form.shown = NoId
    /\ \E i \in Options : Asks([form EXCEPT !.target = i, !.shown = NoId], i)

\* The answer finds the dialog whatever it shows by then.
ReachTested(i) ==
    /\ Named("reach")
    /\ \E r \in {form.shown, form.asked[i]} : Loaded([form EXCEPT !.shown = r], i)

ReachAgain ==
    /\ OpenAs("reach") /\ ~form.loading /\ form.shown # NoId
    /\ form' = [form EXCEPT !.shown = NoId]

\* handleClose clears the spinner of a test that goes on.
ReachCloses ==
    /\ OpenAs("reach")
    /\ form' = [form EXCEPT !.open = FALSE, !.target = NoId, !.shown = NoId, !.loading = FALSE]

-----------------------------------------------------------------------------
(* "debug": three tests, each with its dialog, flag and result             *)

Probes == {"sse", "telnet", "ping"}

ProbeNeeds(p) ==
    CASE p = "sse"    -> {"url", "key"}
      [] p = "telnet" -> {"host", "port"}
      [] p = "ping"   -> {"target"}

DebugStart ==
    [FormOf("debug", [dialog |-> "none", testing |-> {}, results |-> {}])
        EXCEPT !.open = TRUE, !.asked = <<NoId>>, !.loading = TRUE]

DebugTypeOK(f) ==
    f.pick \in [dialog : Probes \cup {"none"}, testing : SUBSET Probes,
                results : SUBSET Probes]

ProbeShown == Named("debug") /\ form.pick.dialog # "none"

\* fetchSystemInfo of the button.
DebugRefreshes ==
    /\ Named("debug") /\ form.pick.dialog = "none" /\ ~form.loading
    /\ Asks(form, NoId)

DebugHeard(i) == Named("debug") /\ Loaded(form, i)

\* The button of the stream test is not dead while its test runs.
ProbeOpens ==
    /\ Named("debug") /\ form.pick.dialog = "none"
    /\ \E p \in {"sse"} \cup (Probes \ form.pick.testing) :
          form' = [form EXCEPT !.pick.dialog = p]

ProbeCloses == ProbeShown /\ form' = [form EXCEPT !.pick.dialog = "none"]

ProbeTypes ==
    /\ ProbeShown /\ form.pick.dialog \notin form.pick.testing
    /\ Types(ProbeNeeds(form.pick.dialog))

\* The test p begins: its result goes, and its dialog.
Probing(p) ==
    /\ Len(form.sent) < MaxSent
    /\ form' = [form EXCEPT !.pick.testing = @ \cup {p}, !.pick.results = @ \ {p},
                            !.pick.dialog = "none",
                            !.sent = Append(@, Request(NoId, ProbeNeeds(p)))]

\* runSSETest
SseTests ==
    /\ ProbeShown /\ form.pick.dialog = "sse" /\ "sse" \notin form.pick.testing
    /\ ProbeNeeds("sse") \subseteq form.filled
    /\ Probing("sse")

\* runTelnetTest
TelnetTests ==
    /\ ProbeShown /\ form.pick.dialog = "telnet" /\ "telnet" \notin form.pick.testing
    /\ ProbeNeeds("telnet") \subseteq form.filled
    /\ Probing("telnet")

\* runPingTest
PingTests ==
    /\ ProbeShown /\ form.pick.dialog = "ping" /\ "ping" \notin form.pick.testing
    /\ ProbeNeeds("ping") \subseteq form.filled
    /\ Probing("ping")

\* The answer of p, or its failure, which leaves no result.
ProbeSettled(i) ==
    /\ Named("debug")
    /\ \E p \in Probes :
          /\ ProbeNeeds(p) = form.sent[i].has
          /\ \E r \in {{}, {p}} :
                form' = [form EXCEPT !.pick.testing = @ \ {p}, !.pick.results = @ \cup r,
                                     !.sent = Without(@, i)]

-----------------------------------------------------------------------------
\* The page of tests is entered like the other pages that are only forms; the dialog of
\* a service is there once its tunnel is.
ToolFormsOf(route) ==
    CASE route = "service"   -> {ReachStart(c) : c \in Chains}
      [] route = "dashboard" -> {DebugStart}
      [] OTHER -> {}

ToolFormNames == {"reach", "debug"}

ToolFormsTypeOK ==
    form.name \in ToolFormNames =>
        /\ IsForm(form, ToolFields)
        /\ Named("reach") => form.pick \in [chain : Chains]
        /\ Named("debug") => DebugTypeOK(form)

ToolFormsNext ==
    \/ ReachOpens \/ ReachTests \/ ReachAgain \/ ReachCloses
    \/ DebugRefreshes \/ ProbeOpens \/ ProbeCloses \/ ProbeTypes
    \/ SseTests \/ TelnetTests \/ PingTests
    \/ \E i \in DOMAIN form.asked : ReachTested(i) \/ DebugHeard(i)
    \/ \E i \in DOMAIN form.sent : ProbeSettled(i)

-----------------------------------------------------------------------------
\* A spinner never stands beside a result, not even when the answer of a test comes
\* that was given up; each test of the page is flagged as long as it is under way, and
\* shows no result of the time before.
ToolsBusyMeansPending ==
    /\ Named("reach") /\ form.loading => form.shown = NoId
    /\ Named("debug") =>
          /\ form.pick.testing =
                {p \in Probes : \E i \in DOMAIN form.sent : form.sent[i].has = ProbeNeeds(p)}
          /\ form.pick.testing \cap form.pick.results = {}

\* Tests of different kinds overlap, and tests of one kind never do.
ToolSubmitOnce ==
    Named("debug") => \A i, j \in DOMAIN form.sent :
        i # j => form.sent[i].has # form.sent[j].has

\* What is tested is what the dialog on the screen has asked for.
ToolSubmitsShown(r) ==
    Named("debug") => form.pick.dialog # "none" /\ r.has = ProbeNeeds(form.pick.dialog)
=============================================================================
