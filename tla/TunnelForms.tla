----------------------------- MODULE TunnelForms ----------------------------
(***************************************************************************)
(* The forms that create and edit tunnels: the simple form and its two     *)
(* modes (tunnels/simple-create-tunnel-modal), the page tunnels/create,    *)
(* the two batch forms (tunnels/batch-create-modal and                     *)
(* batch-url-create-tunnel-modal) and the dialogs that change one value    *)
(* (rename-tunnel-modal, update-sort-modal).  "edit" is unmounted when it  *)
(* is closed, and with it the dialogs nested in it.                        *)
(*                                                                         *)
(* Abstracted: ports are in range; "crt" is a certificate and its key; of  *)
(* the optional fields those are kept whose sending depends on more than   *)
(* their being filled in; of the modes of the simple form, whether one is  *)
(* set.  The JSON of the batch form is blank, a good list, or bad.         *)
(***************************************************************************)
EXTENDS Forms

Fields == {"endpoint", "name", "listen", "target", "crt", "password", "min", "max",
           "extend", "url", "value", "rows"}

-----------------------------------------------------------------------------
(* The simple form: "simple" creates, "edit" changes the tunnel the page   *)
(* gives it.                                                               *)

SimpleStart(n) == FormOf(n, [type |-> "server", mode |-> "auto", tls |-> "0", balance |-> FALSE])

SimpleTypeOK(f) ==
    f.pick \in [type : {"server", "client"}, mode : {"auto", "set"}, tls : {"0", "2"},
                balance : BOOLEAN]

\* Mutant: the effect of isOpen gives the button back to the form that creates.
SimpleOpensIdle ==
    /\ ~form.open
    /\ \/ Named("simple") /\ Asks([form EXCEPT !.open = TRUE, !.busy = FALSE], NoId)
       \/ Named("edit") /\ \E i \in Ids : Asks([form EXCEPT !.open = TRUE, !.target = i], i)

\* The effect of isOpen asks for the endpoints and, to edit, then for the tunnel.
SimpleOpens ==
    /\ ~form.open
    /\ \/ Named("simple") /\ Asks([form EXCEPT !.open = TRUE], NoId)
       \/ Named("edit") /\ \E i \in Ids : Asks([form EXCEPT !.open = TRUE, !.target = i], i)

\* The first endpoint is chosen, whatever was chosen before.
EndpointChosen == [form EXCEPT !.filled = @ \cup {"endpoint"}]

\* The details of tunnel i, x among them, replace all fields; extended targets open
\* their field.
DetailsShown(i, x, t) ==
    [form EXCEPT !.shown = i, !.filled = {"endpoint", "name", "listen", "target"} \cup x,
                 !.pick = [type |-> t, mode |-> "set", tls |-> "2",
                           balance |-> form.pick.balance \/ "extend" \in x]]

\* In "simple" an answer of an earlier opening counts like one of this.
SimpleLoaded(i) ==
    /\ form.name \in {"simple", "edit"}
    /\ \/ Loaded(form, i)
       \/ Named("simple") /\ Loaded(EndpointChosen, i)
       \/ /\ Named("edit")
          /\ \E x \in {{}, {"extend"}, {"crt"}}, t \in {"server", "client"} :
                Loaded(DetailsShown(form.asked[i], x, t), i)

\* The fields are on the screen, and not the spinner.
Ready == form.open /\ ~form.loading

\* handleField: the type brings its default mode.
PicksType ==
    /\ OpenAs("simple") /\ Ready
    /\ \E t \in {"server", "client"} :
          form' = [form EXCEPT !.pick.type = t,
                               !.pick.mode = IF t = "server" THEN "auto" ELSE "set"]

PicksMode ==
    /\ form.name \in {"simple", "edit"} /\ Ready
    /\ \E m \in {"auto", "set"} : form' = [form EXCEPT !.pick.mode = m]

PicksTls ==
    /\ form.name \in {"simple", "edit"} /\ Ready
    /\ form.pick.type = "server"
    /\ \E v \in {"0", "2"} : form' = [form EXCEPT !.pick.tls = v]

\* The button beside the target: its second push clears the extended targets.
TogglesBalance ==
    /\ form.name \in {"simple", "edit"} /\ Ready
    /\ form' = [form EXCEPT !.pick.balance = ~@,
                            !.filled = IF form.pick.balance THEN @ \ {"extend"} ELSE @]

\* The name and the endpoint of an existing tunnel are shown and cannot be typed.
SimpleMain == IF Named("edit") THEN {"listen", "target"}
              ELSE {"endpoint", "name", "listen", "target"}

SimpleCertificate ==
    IF form.pick.type = "server" /\ form.pick.tls = "2" THEN {"crt"} ELSE {}

SimpleExtend == IF form.pick.balance THEN {"extend"} ELSE {}

SimpleTyped == SimpleMain \cup SimpleCertificate \cup SimpleExtend

SimpleTypes == form.name \in {"simple", "edit"} /\ Ready /\ Types(SimpleTyped)

\* The checks of handleSubmit.
SimpleValid ==
    /\ {"endpoint", "name", "listen", "target"} \subseteq form.filled
    /\ form.pick.type = "client" => form.pick.mode = "set"
    /\ SimpleCertificate \subseteq form.filled

\* The body of the request.
SimpleBody == form.filled \ ({"crt"} \ SimpleCertificate)

\* The button is below the spinner, too, and looks at its own flag only.
SimpleSubmits ==
    /\ form.name \in {"simple", "edit"} /\ form.open /\ ~form.busy
    /\ SimpleValid
    /\ Sends(Request(form.shown, SimpleBody))

\* Success closes the form and the page reloads its list; a failure keeps it open.
SimpleSettled(i) ==
    /\ Named("simple")
    /\ \E o \in {form.open, FALSE} : Settled([form EXCEPT !.open = o], i)

\* Mutant: the pages always render the dialog, and only hide it.
EditHides == OpenAs("edit") /\ form' = [form EXCEPT !.open = FALSE]

\* editModalOpen: both pages render the dialog only while it is open.
EditCloses == OpenAs("edit") /\ form' = Unmounted(SimpleStart("edit"))

\* Success closes the dialog that is open by then, of whichever opening it was.
EditSettled(i) ==
    /\ Named("edit")
    /\ Answered(form, i) \/ Answered(Unmounted(SimpleStart("edit")), i)

-----------------------------------------------------------------------------
(* The page tunnels/create                                                 *)

\* Endpoints are of a version with passwords or of one without.
CreateStart ==
    [FormOf("create", [endpoint |-> "none", type |-> "server", mode |-> 0, tls |-> "inherit"])
        EXCEPT !.open = TRUE, !.asked = <<NoId>>, !.loading = TRUE]

CreateTypeOK(f) ==
    f.pick \in [endpoint : {"none", "old", "new"}, type : {"server", "client"}, mode : 0..2,
                tls : {"inherit", "2"}]

CreateLoaded(i) == Named("create") /\ Loaded(form, i)

\* handleInputChange "apiEndpoint": a password belongs to one endpoint.
CreatePicksEndpoint ==
    /\ Named("create") /\ ~form.loading
    /\ \E e \in {"old", "new"} :
          form' = [form EXCEPT !.pick.endpoint = e, !.filled = (@ \ {"password"}) \cup {"endpoint"}]

\* handleInputChange "type": the sizes of the pool belong to one type.
CreatePicksType ==
    /\ Named("create")
    /\ \E t \in {"server", "client"} :
          form' = [form EXCEPT !.pick.type = t, !.pick.mode = IF t = "server" THEN 0 ELSE 1,
                               !.filled = @ \ {"min", "max"}]

\* The cards of the modes; a client has no mode 0.
CreatePicksMode ==
    /\ Named("create")
    /\ \E m \in IF form.pick.type = "server" THEN 0..2 ELSE 1..2 :
          form' = [form EXCEPT !.pick.mode = m]

CreatePicksTls ==
    /\ Named("create") /\ form.pick.type = "server"
    /\ \E v \in {"inherit", "2"} : form' = [form EXCEPT !.pick.tls = v]

CreateMain == {"name", "listen", "target"}

CreateSecurity ==
    (IF form.pick.endpoint = "new" THEN {"password"} ELSE {})
    \cup (IF form.pick.type = "server" /\ form.pick.tls = "2" THEN {"crt"} ELSE {})

CreatePool ==
    IF form.pick.type = "server" THEN {"max"}
    ELSE IF form.pick.mode = 1 THEN {"min"} ELSE {}

CreateTypes == Named("create") /\ Types(CreateMain \cup CreateSecurity \cup CreatePool)

\* The card that asks to confirm the configuration, and the URL below it.
CreateConfirmed ==
    (form.filled \cap {"endpoint", "name", "listen", "target", "password", "max"})
    \cup (IF form.pick.type = "client" THEN form.filled \cap {"min"} ELSE {})

CreatePreview ==
    (form.filled \cap {"listen", "target", "password", "max"})
    \cup (IF form.pick.type = "client" THEN form.filled \cap {"min"} ELSE {})
    \cup (IF form.pick.type = "server" /\ form.pick.tls = "2"
          THEN form.filled \cap {"crt"} ELSE {})

CreateValid ==
    /\ {"endpoint", "name", "listen", "target"} \subseteq form.filled
    /\ form.pick.type = "server" /\ form.pick.tls = "2" => {"crt"} \subseteq form.filled

\* An endpoint without passwords gets none, and a server no minimum.
CreateBody ==
    (form.filled \cap {"endpoint", "name", "listen", "target", "max"})
    \cup (IF form.pick.type = "server" /\ form.pick.tls = "2"
          THEN form.filled \cap {"crt"} ELSE {})
    \cup (IF form.pick.endpoint = "new" THEN form.filled \cap {"password"} ELSE {})
    \cup (IF form.pick.type = "client" THEN form.filled \cap {"min"} ELSE {})

\* The button is disabled while a submission is under way.
CreateSubmits ==
    /\ Named("create") /\ ~form.busy
    /\ CreateValid
    /\ Sends(Request(NoId, CreateBody))

\* Success takes the user to the list a while later; until then the form can be
\* submitted again.
CreateSettled(i) == Named("create") /\ Settled(form, i)

-----------------------------------------------------------------------------
(* The batch form: rules with one endpoint or with their own, or JSON      *)

BatchBlank ==
    [filled |-> {}, rules |-> <<>>,
     pick |-> [tab |-> "standard", unified |-> TRUE, json |-> "good"]]

BatchStart == FormOf("batch", BatchBlank.pick)

BatchTypeOK(f) ==
    f.pick \in [tab : {"standard", "quick"}, unified : BOOLEAN, json : {"blank", "good", "bad"}]

\* fetchEndpoints shows no spinner; resetForm.
BatchOpens ==
    /\ Named("batch") /\ ~form.open
    /\ form' = [form EXCEPT !.open = TRUE, !.filled = BatchBlank.filled,
                            !.rules = BatchBlank.rules, !.pick = BatchBlank.pick]

BatchTabs ==
    /\ OpenAs("batch")
    /\ \E t \in {"standard", "quick"} : form' = [form EXCEPT !.pick.tab = t]

\* "endpoint" is the one of all rules, "url" that of the JSON.
BatchPicks ==
    /\ OpenAs("batch")
    /\ \/ form.pick.tab = "standard" /\ form.pick.unified
          /\ form' = [form EXCEPT !.filled = @ \cup {"endpoint"}]
       \/ form.pick.tab = "quick" /\ form' = [form EXCEPT !.filled = @ \cup {"url"}]

\* The switch: with endpoints of their own the common one is forgotten.
BatchUnifies ==
    /\ OpenAs("batch") /\ form.pick.tab = "standard"
    /\ form' = [form EXCEPT !.pick.unified = ~@,
                            !.filled = IF form.pick.unified THEN @ \ {"endpoint"} ELSE @]

BatchAddsRule ==
    /\ OpenAs("batch") /\ form.pick.tab = "standard"
    /\ Len(form.rules) < MaxRules
    /\ form' = [form EXCEPT !.rules = Append(@, {})]

BatchRuleEndpoint(i) ==
    /\ OpenAs("batch") /\ form.pick.tab = "standard" /\ ~form.pick.unified
    /\ form' = [form EXCEPT !.rules = Row(@[i] \cup {"endpoint"}, i)]

\* The inputs of a rule, all filled in or one of them blank.
BatchRuleTyped(i) ==
    /\ OpenAs("batch") /\ form.pick.tab = "standard"
    /\ \E r \in {form.rules[i] \cup {"name"}, form.rules[i] \ {"name"}} :
          form' = [form EXCEPT !.rules = Row(r, i)]

BatchDropsRule(i) ==
    /\ OpenAs("batch") /\ form.pick.tab = "standard"
    /\ form' = [form EXCEPT !.rules = WithoutRow(i)]

\* The editor; its buttons make an example of it, or add one to a list.
BatchJson ==
    /\ OpenAs("batch") /\ form.pick.tab = "quick"
    /\ \E j \in {"blank", "good", "bad"} : form' = [form EXCEPT !.pick.json = j]

BatchExample ==
    /\ OpenAs("batch") /\ form.pick.tab = "quick"
    /\ form' = [form EXCEPT !.pick.json = IF @ = "blank" THEN "good" ELSE @]

\* What makes the button of the form live.
BatchEnabled ==
    /\ ~form.busy
    /\ IF form.pick.tab = "quick" THEN "url" \in form.filled /\ form.pick.json # "blank"
       ELSE /\ Len(form.rules) > 0
            /\ form.pick.unified => "endpoint" \in form.filled
            /\ \A i \in 1..Len(form.rules) :
                  /\ form.pick.unified \/ "endpoint" \in form.rules[i]
                  /\ "name" \in form.rules[i]

\* The checks of handleSubmit, which let only a list of complete rules pass.
BatchValid == form.pick.tab = "quick" => form.pick.json = "good"

\* Mutant: an endpoint of its own is looked for only where there is no common one.
BatchBodyCommon ==
    IF form.pick.tab = "quick" THEN <<{"endpoint", "name"}>>
    ELSE [i \in 1..Len(form.rules) |->
            (form.rules[i] \ {"endpoint"}) \cup (form.filled \cap {"endpoint"})]

\* The body: the endpoint of a rule is the common one or its own.
BatchBody ==
    IF form.pick.tab = "quick" THEN <<{"endpoint", "name"}>>
    ELSE [i \in 1..Len(form.rules) |->
            (form.rules[i] \ {"endpoint"})
            \cup (IF form.pick.unified THEN form.filled \cap {"endpoint"}
                  ELSE form.rules[i] \cap {"endpoint"})]

BatchSubmits == OpenAs("batch") /\ BatchEnabled /\ BatchValid /\ Sends(RequestOf(BatchBody))

\* Rules that failed beside others count as a success, which closes the form.
BatchSettled(i) ==
    /\ Named("batch")
    /\ \E o \in {form.open, FALSE} : Settled([form EXCEPT !.open = o], i)

-----------------------------------------------------------------------------
(* The batch form of URLs                                                  *)

UrlStart == FormOf("url", NoPick)

\* fetchEndpoints shows the spinner; resetForm.
UrlOpens ==
    /\ Named("url") /\ ~form.open
    /\ Asks([form EXCEPT !.open = TRUE, !.rules = <<>>], NoId)

\* "endpoint": there are endpoints to choose from.
UrlLoaded(i) ==
    /\ Named("url")
    /\ \E h \in {form.filled, {"endpoint"}} : Loaded([form EXCEPT !.filled = h], i)

\* A new rule has the first endpoint.
UrlAddsRule ==
    /\ OpenAs("url") /\ ~form.loading
    /\ Len(form.rules) < MaxRules
    /\ form' = [form EXCEPT !.rules = Append(@, form.filled)]

UrlRuleTyped(i) ==
    /\ OpenAs("url") /\ ~form.loading
    /\ \E x \in SUBSET {"name", "url"}, e \in {form.rules[i], form.filled} :
          form' = [form EXCEPT !.rules = Row((e \cap {"endpoint"}) \cup x, i)]

UrlDropsRule(i) ==
    /\ OpenAs("url") /\ ~form.loading
    /\ form' = [form EXCEPT !.rules = WithoutRow(i)]

\* The checks of handleSubmit.
UrlValid ==
    /\ Len(form.rules) > 0
    /\ \A i \in 1..Len(form.rules) : {"endpoint", "name", "url"} \subseteq form.rules[i]

UrlSubmits ==
    /\ OpenAs("url") /\ ~form.loading /\ ~form.busy
    /\ UrlValid
    /\ Sends(RequestOf(form.rules))

\* Success forgets the rules of the form as it is now, and closes it.
UrlSettled(i) ==
    /\ Named("url")
    /\ \/ Settled(form, i)
       \/ Settled([form EXCEPT !.open = FALSE, !.rules = <<>>], i)

\* The button "cancel" forgets the rules; it is disabled during a submission.
UrlCancels ==
    /\ OpenAs("url") /\ ~form.busy
    /\ form' = [form EXCEPT !.open = FALSE, !.rules = <<>>]

-----------------------------------------------------------------------------
(* The dialogs of one value: "rename" of a page, and of the dialog "edit"  *)
(* "retitle", the same for its tunnel, and "sort", its weight.             *)

Nested == {"retitle", "sort"}
Values == {"rename"} \cup Nested

ValueStart(n) == FormOf(n, NoPick)

\* The effect of isOpen takes over the value the page, or the form, shows for the tunnel.
RenameOpens ==
    /\ form.name \in Values /\ ~form.open
    /\ \E i \in IF Named("rename") \/ form.target = NoId THEN Ids ELSE {form.target} :
          form' = [form EXCEPT !.open = TRUE, !.target = i, !.shown = i, !.filled = {"value"}]

\* The input is disabled during a submission.
RenameTypes ==
    /\ form.name \in Values /\ form.open /\ ~form.busy
    /\ Types({"value"})

\* The button wants another name; Enter does not.
RenameSubmits ==
    /\ form.name \in {"rename", "retitle"} /\ form.open /\ ~form.busy
    /\ "value" \in form.filled
    /\ Sends(Request(form.target, form.filled))

\* A blank weight is 0.
SortSubmits ==
    /\ OpenAs("sort") /\ ~form.busy
    /\ Sends(Request(form.target, {"value"}))

\* Success shows the new name in the page and closes the dialog.
RenameSettled(i) == Named("rename") /\ \E o \in {form.open, FALSE} : Settled([form EXCEPT !.open = o], i)

\* Nested, it does so only if the form has been there since.
NestedSettled(i) ==
    /\ form.name \in Nested
    /\ \E o \in IF Own(i) THEN {form.open, FALSE} ELSE {form.open} :
          Answered([form EXCEPT !.open = o], i)

\* The user closes the form around it, or the answer to a submission of that does.
HostCloses == form.name \in Nested /\ form' = Unmounted(ValueStart(form.name))

-----------------------------------------------------------------------------
\* The forms of a page that is entered: those of the list and of a tunnel; the page
\* tunnels/create is a form of its own.
TunnelFormsOf(route) ==
    CASE route = "tunnels" ->
            {SimpleStart("simple"), SimpleStart("edit"), BatchStart, UrlStart,
             ValueStart("rename"), ValueStart("retitle"), ValueStart("sort")}
      [] route = "tunnel" ->
            {SimpleStart("edit"), ValueStart("rename"), ValueStart("retitle"), ValueStart("sort")}
      [] route = "dashboard" -> {CreateStart}
      [] OTHER -> {}

TunnelFormNames == {"simple", "edit", "create", "batch", "url"} \cup Values

TunnelFormsTypeOK ==
    form.name \in TunnelFormNames =>
        /\ IsForm(form, Fields)
        /\ CASE form.name \in {"simple", "edit"} -> SimpleTypeOK(form)
             [] Named("create") -> CreateTypeOK(form)
             [] Named("batch") -> BatchTypeOK(form)
             [] OTHER -> form.pick = NoPick

TunnelFormsNext ==
    \/ SimpleOpens \/ PicksType \/ PicksMode \/ PicksTls \/ TogglesBalance
    \/ SimpleTypes \/ SimpleSubmits \/ EditCloses
    \/ CreatePicksEndpoint \/ CreatePicksType \/ CreatePicksMode \/ CreatePicksTls
    \/ CreateTypes \/ CreateSubmits
    \/ BatchOpens \/ BatchTabs \/ BatchPicks \/ BatchUnifies \/ BatchAddsRule
    \/ BatchJson \/ BatchExample \/ BatchSubmits
    \/ UrlOpens \/ UrlAddsRule \/ UrlSubmits \/ UrlCancels
    \/ RenameOpens \/ RenameTypes \/ RenameSubmits \/ SortSubmits \/ HostCloses
    \/ \E i \in DOMAIN form.asked : SimpleLoaded(i) \/ CreateLoaded(i) \/ UrlLoaded(i)
    \/ \E i \in DOMAIN form.rules :
          \/ BatchRuleEndpoint(i) \/ BatchRuleTyped(i) \/ BatchDropsRule(i)
          \/ UrlRuleTyped(i) \/ UrlDropsRule(i)
    \/ \E i \in DOMAIN form.sent :
          \/ SimpleSettled(i) \/ EditSettled(i) \/ CreateSettled(i) \/ BatchSettled(i)
          \/ UrlSettled(i) \/ RenameSettled(i) \/ NestedSettled(i)
    \/ form.name \in TunnelFormNames \ {"create", "edit"} /\ Closes

-----------------------------------------------------------------------------
\* The fields without which a submission is refused, and those of each of its rows.
TunnelRequired(n) ==
    CASE n \in {"simple", "edit", "create"} -> {"endpoint", "name", "listen", "target"}
      [] n \in {"batch", "url"} -> {"rows"}
      [] n \in Values -> {"value"}

TunnelRowRequired(n) == IF n = "url" THEN {"endpoint", "name", "url"} ELSE {"endpoint", "name"}

TunnelRequestsComplete ==
    form.name \in TunnelFormNames => \A i \in DOMAIN form.sent :
        LET r == form.sent[i]
        IN  /\ TunnelRequired(form.name) \subseteq r.has
            /\ "rows" \in r.has => r.rows # <<>>
            /\ \A k \in DOMAIN r.rows : TunnelRowRequired(form.name) \subseteq r.rows[k]

\* A submission r of the form as it stands is for the tunnel whose data it holds, and
\* that is the one the page opened it for; the page tunnels/create sends what it asked
\* to confirm, no more and no less, and extended targets are sent from a field that is
\* on the screen, or behind the spinner of "simple".
TunnelSubmitsShown(r) ==
    form.name \in TunnelFormNames =>
        /\ r.to = form.shown /\ r.to = form.target
        /\ Named("create") => r.has = CreateConfirmed \cup CreatePreview
        /\ "extend" \in r.has => form.pick.balance
=============================================================================
