----------------------------- MODULE ServiceForms ---------------------------
(***************************************************************************)
(* The forms that make services: the dialog of a scenario                  *)
(* (services/service-create-modal), the dialog that makes a service of     *)
(* tunnels that are there (assemble-service-modal), the alias of a service *)
(* (rename-service-modal) and the page of templates (pages/templates).     *)
(*                                                                         *)
(* Abstracted: ports are numbers or blank.  The fields of the three        *)
(* scenarios are apart from each other, so a dialog is followed in one of  *)
(* them; what it shows besides, the preview among it, follows the fields.  *)
(***************************************************************************)
EXTENDS Forms

ServiceFields ==
    {"name", "entry", "exit", "listen", "tunnel", "host", "port", "extend", "balanced",
     "client", "server", "extends", "alias", "user", "address", "connection", "crt"}

-----------------------------------------------------------------------------
(* "service": a new service of one of three scenarios                      *)

Scenarios == {"single-forward", "tunnel-forward", "nat-penetration"}

\* The scenario comes from the menu of the page or from the cards of the dashboard.
ServiceStart(s) == FormOf("service", [scenario |-> s, external |-> FALSE, balance |-> FALSE])

ServiceTypeOK(f) ==
    f.pick \in [scenario : Scenarios, external : BOOLEAN, balance : BOOLEAN]

\* The effect of isOpen asks for the endpoints and resets nothing.
ServiceOpens == Named("service") /\ ~form.open /\ Asks([form EXCEPT !.open = TRUE], NoId)

ServiceLoaded(i) == Named("service") /\ Loaded(form, i)

\* The fields of a scenario that must not be blank.
SingleNeeds == {"name", "entry", "listen", "port"}
TunnelNeeds == {"name", "entry", "exit", "listen", "tunnel", "port"}
NatNeeds == {"name", "entry", "exit", "listen", "tunnel", "port"}

ServiceNeeds ==
    CASE form.pick.scenario = "single-forward" -> SingleNeeds
      [] form.pick.scenario = "tunnel-forward" -> TunnelNeeds
      [] OTHER -> NatNeeds

\* The tabs of the target: a local target is shown as 127.0.0.1 and cannot be typed.
ServicePicksTarget ==
    /\ OpenAs("service") /\ ~form.loading
    /\ form' = [form EXCEPT !.pick.external = ~@]

ServiceHost == IF form.pick.external THEN {"host"} ELSE {}

\* The button beside the target: its second push clears the further targets.
ServiceBalances ==
    /\ OpenAs("service") /\ ~form.loading
    /\ form' = [form EXCEPT !.pick.balance = ~@,
                            !.filled = IF form.pick.balance THEN @ \ {"extend"} ELSE @]

ServiceExtend == IF form.pick.balance THEN {"extend"} ELSE {}

ServiceTypes ==
    /\ OpenAs("service") /\ ~form.loading
    /\ Types(ServiceNeeds \cup ServiceHost \cup ServiceExtend)

\* What the preview shows as the exits of the service.
ServicePreview ==
    (IF form.pick.external THEN form.filled \cap {"host"} ELSE {}) \cup (form.filled \cap {"extend"})

\* What the head of the dialog calls the service.
ServiceTitle ==
    IF form.pick.balance THEN "balanced" ELSE IF form.pick.external THEN "external" ELSE "local"

\* buildTemplateRequest: a service is "balanced" by its button, with or without targets.
ServiceBody ==
    (form.filled \cap ServiceNeeds) \cup ServiceHost
    \cup (IF form.pick.balance THEN {"balanced"} \cup (form.filled \cap {"extend"}) ELSE {})

ServiceValid == ServiceNeeds \cup ServiceHost \subseteq form.filled

\* The button is shown beside the spinner too.
ServiceSubmits ==
    /\ OpenAs("service") /\ ~form.busy
    /\ ServiceValid
    /\ Sends(Request(NoId, ServiceBody))

\* Success closes the dialog, open again or not.
ServiceSettled(i) ==
    /\ Named("service")
    /\ \E o \in {form.open, FALSE} : Settled([form EXCEPT !.open = o], i)

-----------------------------------------------------------------------------
(* "assemble": a service of a client and, but for a single forward, of a   *)
(* server.  "extends": the instance that decides it has further targets.   *)

AssembleStart == FormOf("assemble", [type |-> "0", listed |-> FALSE])

AssembleTypeOK(f) == f.pick \in [type : {"0", "1", "2"}, listed : BOOLEAN]

\* The effect of isOpen: a new id, blank fields, and the instances are asked for.
AssembleOpens ==
    /\ Named("assemble") /\ ~form.open
    /\ Asks([form EXCEPT !.open = TRUE, !.filled = {}, !.pick.type = "0"], NoId)

\* A failure empties the lists, and leaves what was chosen from them.
AssembleLoaded(i) ==
    /\ Named("assemble")
    /\ \E l \in BOOLEAN : Loaded([form EXCEPT !.pick.listed = l], i)

\* Another type forgets both instances.
AssemblePicksType ==
    /\ OpenAs("assemble")
    /\ \E t \in {"0", "1", "2"} \ {form.pick.type} :
          form' = [form EXCEPT !.pick.type = t, !.filled = @ \ {"client", "server", "extends"}]

AssembleTypes ==
    /\ OpenAs("assemble")
    /\ form' = [form EXCEPT !.filled = IF "name" \in @ THEN @ \ {"name"} ELSE @ \cup {"name"}]

\* The instance whose further targets decide the type.
Deciding == IF form.pick.type = "2" THEN "server" ELSE "client"

AssembleChooses ==
    /\ OpenAs("assemble") /\ form.pick.listed
    /\ \E r \in IF form.pick.type = "0" THEN {"client"} ELSE {"client", "server"}, e \in BOOLEAN :
          form' = [form EXCEPT !.filled = IF r # Deciding THEN @ \cup {r}
                                          ELSE (@ \ {"extends"}) \cup {r} \cup (IF e THEN {"extends"} ELSE {})]

\* calculateFinalServiceType looks the instance up in the list.
FinalType == IF form.pick.listed /\ "extends" \in form.filled THEN {"balanced"} ELSE {}

AssembleValid ==
    /\ {"name", "client"} \subseteq form.filled
    /\ form.pick.type # "0" => "server" \in form.filled

AssembleBody ==
    FinalType \cup (form.filled \cap (IF form.pick.type = "0" THEN {"name", "client"}
                                      ELSE {"name", "client", "server"}))

AssembleSubmits ==
    /\ OpenAs("assemble") /\ ~form.busy
    /\ AssembleValid
    /\ Sends(Request(NoId, AssembleBody))

AssembleSettled(i) ==
    /\ Named("assemble")
    /\ \E o \in {form.open, FALSE} : Settled([form EXCEPT !.open = o], i)

-----------------------------------------------------------------------------
(* "alias": the name of a service, in the list and on the page of one      *)

AliasStart == FormOf("alias", NoPick)

\* The effect of isOpen and of the service, which the page of a service makes anew
\* whenever it is rendered: what was typed is lost.
AliasOpens ==
    /\ Named("alias")
    /\ \E o \in IF form.open THEN {form.target} ELSE Ids :
          form' = [form EXCEPT !.open = TRUE, !.target = o, !.shown = o, !.filled = {"alias"}]

AliasTypes == OpenAs("alias") /\ Types({"alias"})

\* The button and Enter.
AliasSubmits ==
    /\ OpenAs("alias") /\ ~form.busy
    /\ "alias" \in form.filled
    /\ Sends(Request(form.target, {"alias"}))

AliasSettled(i) ==
    /\ Named("alias")
    /\ \E o \in {form.open, FALSE} : Settled([form EXCEPT !.open = o], i)

-----------------------------------------------------------------------------
(* "template": the page of templates                                       *)

TemplateBlank == [listen |-> "all", target |-> "external", random |-> FALSE, tls |-> "1"]

TemplatePick(m) ==
    [mode |-> m, listen |-> TemplateBlank.listen, target |-> TemplateBlank.target,
     random |-> TemplateBlank.random, tls |-> TemplateBlank.tls]

TemplateStart ==
    [FormOf("template", TemplatePick("single")) EXCEPT !.open = TRUE, !.asked = <<NoId>>, !.loading = TRUE]

TemplateTypeOK(f) ==
    f.pick \in [mode : {"single", "double", "intranet"}, listen : {"all", "assign"},
                target : {"external", "local"}, random : BOOLEAN, tls : {"1", "2"}]

TemplateLoaded(i) == Named("template") /\ Loaded(form, i)

\* handleModeChange and the button "reset": resetFormData.
TemplateMode ==
    /\ Named("template")
    /\ \E m \in {"single", "double", "intranet"} :
          form' = [form EXCEPT !.filled = {}, !.pick = TemplatePick(m)]

\* updateField and the effects of both policies: an address belongs to its policy.
TemplatePolicy ==
    /\ Named("template")
    /\ \/ \E l \in {"all", "assign"} \ {form.pick.listen} :
             form' = [form EXCEPT !.pick.listen = l, !.filled = @ \ {"address"}]
       \/ \E g \in {"external", "local"} \ {form.pick.target} :
             form' = [form EXCEPT !.pick.target = g, !.filled = @ \ {"host"}]

\* handleServicePortModeChange: a random port at once, or none.
TemplatePort ==
    /\ Named("template") /\ form.pick.mode # "single"
    /\ \E r \in BOOLEAN :
          form' = [form EXCEPT !.pick.random = r,
                               !.filled = IF r THEN @ \cup {"connection"} ELSE @ \ {"connection"}]

TemplateTls ==
    /\ Named("template") /\ form.pick.mode # "single"
    /\ \E v \in {"1", "2"} \ {form.pick.tls} : form' = [form EXCEPT !.pick.tls = v]

\* getFlowConfig: the fields of the nodes of each mode, and those between the nodes.
Policies ==
    (IF form.pick.listen = "assign" THEN {"address"} ELSE {})
    \cup (IF form.pick.target = "external" THEN {"host"} ELSE {})

SingleNodes == {"user", "entry", "port"} \cup Policies
DoubleNodes == {"user", "entry", "exit", "port"} \cup Policies
IntranetNodes == {"user", "entry", "exit", "port"} \cup Policies

TemplateNodes ==
    CASE form.pick.mode = "single" -> SingleNodes
      [] form.pick.mode = "double" -> DoubleNodes
      [] OTHER -> IntranetNodes

BetweenNodes ==
    IF form.pick.mode = "single" THEN {}
    ELSE (IF form.pick.random THEN {} ELSE {"connection"})
         \cup (IF form.pick.tls = "2" THEN {"crt"} ELSE {})

TemplateTypes == Named("template") /\ Types(TemplateNodes \cup BetweenNodes)

\* The checks of buildTemplateRequest; those of the intranet forget the user's side.
TemplateValid ==
    /\ TemplateNodes \ (IF form.pick.mode = "intranet" THEN {"user", "address"} ELSE {}) \subseteq form.filled
    /\ form.pick.mode # "single" => "connection" \in form.filled

TemplateBody ==
    form.filled \cap (TemplateNodes
                      \cup (IF form.pick.mode = "single" THEN {} ELSE {"connection"})
                      \cup (IF form.pick.mode # "single" /\ form.pick.tls = "2" THEN {"crt"} ELSE {}))

TemplateSubmits ==
    /\ Named("template") /\ ~form.busy
    /\ TemplateValid
    /\ Sends(Request(NoId, TemplateBody))

\* Success takes the user to the list of tunnels a while later.
TemplateSettled(i) == Named("template") /\ Settled(form, i)

-----------------------------------------------------------------------------
ServiceFormsOf(route) ==
    CASE route = "services"  -> {ServiceStart(s) : s \in Scenarios} \cup {AssembleStart, AliasStart}
      [] route = "dashboard" -> {TemplateStart}
      [] OTHER -> {}

ServiceFormNames == {"service", "assemble", "alias", "template"}

ServiceFormsTypeOK ==
    form.name \in ServiceFormNames =>
        /\ IsForm(form, ServiceFields)
        /\ CASE Named("service")  -> ServiceTypeOK(form)
             [] Named("assemble") -> AssembleTypeOK(form)
             [] Named("template") -> TemplateTypeOK(form)
             [] OTHER -> form.pick = NoPick

ServiceFormsNext ==
    \/ ServiceOpens \/ ServicePicksTarget \/ ServiceBalances \/ ServiceTypes \/ ServiceSubmits
    \/ AssembleOpens \/ AssemblePicksType \/ AssembleTypes \/ AssembleChooses \/ AssembleSubmits
    \/ AliasOpens \/ AliasTypes \/ AliasSubmits
    \/ TemplateMode \/ TemplatePolicy \/ TemplatePort \/ TemplateTls
    \/ TemplateTypes \/ TemplateSubmits
    \/ \E i \in DOMAIN form.asked : ServiceLoaded(i) \/ AssembleLoaded(i) \/ TemplateLoaded(i)
    \/ \E i \in DOMAIN form.sent :
          ServiceSettled(i) \/ AssembleSettled(i) \/ AliasSettled(i) \/ TemplateSettled(i)
    \/ form.name \in ServiceFormNames \ {"template"} /\ Closes

-----------------------------------------------------------------------------
\* What the server needs of each; the scenarios besides need "exit" and "tunnel" or not.
ServiceRequired(n) ==
    CASE n = "service"  -> {"name", "entry", "listen", "port"}
      [] n = "assemble" -> {"name", "client"}
      [] n = "template" -> {"entry", "port"}
      [] n = "alias"    -> {"alias"}

\* Both endpoints of a service of two come with the port between them.
ServiceRequestsComplete ==
    form.name \in ServiceFormNames => \A i \in DOMAIN form.sent :
        LET r == form.sent[i]
        IN  /\ ServiceRequired(form.name) \subseteq r.has
            /\ Named("service") => ("exit" \in r.has <=> "tunnel" \in r.has)
            /\ Named("template") => ("exit" \in r.has <=> "connection" \in r.has)

\* The exits sent are the exits of the preview; a template sends no address the chosen
\* policies do not show; a service is assembled of the instances its type shows.
ServiceSubmitsShown(r) ==
    form.name \in ServiceFormNames =>
        /\ r.to = form.shown
        /\ Named("service") => /\ r.has \cap {"host", "extend"} = ServicePreview
                               /\ "balanced" \in r.has <=> ServiceTitle = "balanced"
        /\ Named("template") => /\ "address" \in r.has => form.pick.listen = "assign"
                                /\ "host" \in r.has <=> form.pick.target = "external"
        /\ Named("assemble") => ("server" \in r.has <=> form.pick.type # "0")
=============================================================================
