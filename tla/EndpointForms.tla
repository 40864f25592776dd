----------------------------- MODULE EndpointForms --------------------------
(***************************************************************************)
(* The forms of endpoints: the two dialogs that add one, the one of the    *)
(* list (endpoints/components/add-endpoint-modal), which adds what a test  *)
(* found fit, and the one of the dashboard (components/endpoints/          *)
(* add-endpoint-modal); name and key of an endpoint; a tunnel by its URL;  *)
(* the import of endpoints from a file; and, on the page of an endpoint,   *)
(* its configuration, its QR code and the questions before its key is      *)
(* reset and before it is deleted.                                         *)
(*                                                                         *)
(* Abstracted: a URL has a host.  A name or a key that is the old one      *)
(* counts as blank where only a new one may be sent.                       *)
(***************************************************************************)
EXTENDS Forms

EndpointFields == {"name", "url", "key", "ip", "import"}

\* A submission of a form whose buttons look at no flag.
SendsAgain(f, r) ==
    /\ Len(f.sent) < MaxSent
    /\ form' = [f EXCEPT !.sent = Append(@, r)]

-----------------------------------------------------------------------------
(* "add": a new endpoint, from the list.  "own": the address was typed,    *)
(* and does not follow the URL any more; "result": the dialog of the test. *)

AddStart == FormOf("add", [step |-> "form", result |-> "none", own |-> FALSE])

AddTypeOK(f) ==
    f.pick \in [step : {"form", "import"}, result : {"none", "fit", "unfit"}, own : BOOLEAN]

\* Nothing is reset: a result that came while the dialog was closed is shown at once.
AddOpens == Named("add") /\ ~form.open /\ form' = [form EXCEPT !.open = TRUE]

\* The dialog itself, not the one of the result above it.
AddInFront(step) == OpenAs("add") /\ form.pick.result = "none" /\ form.pick.step = step

AddTypes == AddInFront("form") /\ Types({"name", "key"})

\* handleInputChange: the address follows the URL unless it was typed.
FollowingUrl(has, url) ==
    (has \ {"url", "ip"}) \cup (IF url THEN {"url"} ELSE {})
    \cup (IF url \/ form.pick.own THEN {"ip"} ELSE {})

AddTypesUrl ==
    /\ AddInFront("form")
    /\ \E u \in BOOLEAN : form' = [form EXCEPT !.filled = FollowingUrl(@, u)]

\* The address is shown beside a URL.  A blank one follows again.
AddTypesAddress ==
    /\ AddInFront("form") /\ "url" \in form.filled
    /\ \E a \in BOOLEAN :
          form' = [form EXCEPT !.pick.own = a,
                               !.filled = IF a THEN @ \cup {"ip"} ELSE @ \ {"ip"}]

\* testConnectionAndVersion: the fields can be changed while it is under way.
AddTests ==
    /\ AddInFront("form") /\ ~form.loading
    /\ {"url", "key"} \subseteq form.filled
    /\ Asks(form, NoId)

\* Success shows what was found, over the dialog or as soon as that is open.
AddTested(i) ==
    /\ Named("add")
    /\ \/ Loaded(form, i)
       \/ \E r \in {"fit", "unfit"} : Loaded([form EXCEPT !.pick.result = r], i)

AddResultCloses ==
    /\ OpenAs("add") /\ form.pick.result # "none"
    /\ form' = [form EXCEPT !.pick.result = "none"]

\* handleAddFromTestResult adds what the fields hold now; of them, those that were
\* tested are followed.
AddSubmits ==
    /\ OpenAs("add") /\ form.pick.result = "fit"
    /\ SendsAgain(form, Request(NoId, form.filled \cap {"url", "key"}))

\* The page hides a failure: the dialog is emptied and closed whatever came of it.
AddSettled(i) ==
    /\ Named("add")
    /\ Settled([form EXCEPT !.open = FALSE, !.filled = {}, !.pick.own = FALSE,
                            !.pick.result = "none"], i)

\* The other view of the dialog takes a text that may name a URL and a key.
AddTurns ==
    /\ AddInFront("form")
    /\ form' = [form EXCEPT !.pick.step = "import"]

AddImports ==
    /\ AddInFront("import")
    /\ \/ form' = [form EXCEPT !.pick.step = "form"]
       \/ form' = [form EXCEPT !.pick.step = "form", !.pick.own = FALSE,
                               !.filled = {"name", "url", "key", "ip"}]

\* handleModalClose
AddCloses ==
    /\ OpenAs("add") /\ form.pick.result = "none"
    /\ form' = [form EXCEPT !.open = FALSE, !.pick.step = "form"]

-----------------------------------------------------------------------------
(* "first": a new endpoint, from the dashboard.  The test and the import   *)
(* are on their own, and the form is sent with or without them.            *)

FirstNeeds == {"name", "url", "key"}

FirstStart == FormOf("first", NoPick)

FirstOpens == Named("first") /\ ~form.open /\ form' = [form EXCEPT !.open = TRUE]

FirstTypes == OpenAs("first") /\ Types(FirstNeeds)

FirstTests ==
    /\ OpenAs("first") /\ ~form.loading
    /\ {"url", "key"} \subseteq form.filled
    /\ Asks(form, NoId)

FirstTested(i) == Named("first") /\ Loaded(form, i)

FirstImports == OpenAs("first") /\ form' = [form EXCEPT !.filled = FirstNeeds]

\* The browser validates the required fields.
FirstSubmits ==
    /\ OpenAs("first")
    /\ FirstNeeds \subseteq form.filled
    /\ SendsAgain(form, Request(NoId, form.filled))

\* An error reaches the dialog and leaves it as it is.
FirstSettled(i) ==
    /\ Named("first")
    /\ Settled(form, i) \/ Settled([form EXCEPT !.open = FALSE, !.filled = {}], i)

-----------------------------------------------------------------------------
(* "naming" and "rekey": a new name and a new key of an endpoint, from the *)
(* list.  Enter does what the button does, and looks at no flag.           *)

RenameStart == FormOf("naming", NoPick)
RekeyStart == FormOf("rekey", NoPick)

\* selectedEndpoint, and the effect of isOpen and of its name or key.
RenameOpens ==
    /\ Named("naming") /\ ~form.open
    /\ \E o \in Ids : form' = [form EXCEPT !.open = TRUE, !.target = o, !.shown = o, !.filled = {}]

RekeyOpens ==
    /\ Named("rekey") /\ ~form.open
    /\ \E o \in Ids : form' = [form EXCEPT !.open = TRUE, !.target = o, !.shown = o, !.filled = {}]

RenameTypes == OpenAs("naming") /\ Types({"name"})

RekeyTypes == OpenAs("rekey") /\ Types({"key"})

RenameSubmits ==
    /\ OpenAs("naming") /\ "name" \in form.filled
    /\ Sends(Request(form.target, {"name"}))

RekeySubmits ==
    /\ OpenAs("rekey") /\ "key" \in form.filled
    /\ Sends(Request(form.target, {"key"}))

\* handleRename hides an error: the dialog is closed.
RenameSettled(i) == Named("naming") /\ Settled([form EXCEPT !.open = FALSE], i)

\* handleEditApiKey hands the error on: the dialog stays.
RekeySettled(i) ==
    /\ Named("rekey")
    /\ \E o \in {form.open, FALSE} : Settled([form EXCEPT !.open = o], i)

-----------------------------------------------------------------------------
(* "byurl": a tunnel of an endpoint by its URL, from the list and on the   *)
(* page of the endpoint                                                    *)

ByUrlStart == FormOf("byurl", NoPick)

ByUrlOpens ==
    /\ Named("byurl") /\ ~form.open
    /\ \E o \in Ids : form' = [form EXCEPT !.open = TRUE, !.target = o, !.shown = o, !.filled = {}]

ByUrlTypes == OpenAs("byurl") /\ Types({"name", "url"})

ByUrlSubmits ==
    /\ OpenAs("byurl") /\ "url" \in form.filled
    /\ SendsAgain(form, Request(form.target, form.filled))

ByUrlSettled(i) ==
    /\ Named("byurl")
    /\ \E o \in {form.open, FALSE} : Settled([form EXCEPT !.open = o], i)

-----------------------------------------------------------------------------
(* "erase": the question before an endpoint of the list is deleted         *)

EraseStart == FormOf("erase", NoPick)

EraseOpens ==
    /\ Named("erase") /\ ~form.open
    /\ \E o \in Ids : form' = [form EXCEPT !.open = TRUE, !.target = o, !.shown = o]

\* The button closes the dialog at once.
EraseSubmits ==
    /\ OpenAs("erase")
    /\ SendsAgain([form EXCEPT !.open = FALSE], Request(form.target, {}))

\* handleDeleteEndpoint closes it again, whatever came of it and whomever it asks about.
EraseSettled(i) == Named("erase") /\ Settled([form EXCEPT !.open = FALSE], i)

-----------------------------------------------------------------------------
(* "import": endpoints from a file.  "file": the one that is selected;     *)
(* target: the one whose text is kept; shown: the one whose results are    *)
(* shown; "results": their dialog.  A row is an endpoint of the file.      *)

ImportStart == FormOf("import", [file |-> NoId, results |-> FALSE])

ImportTypeOK(f) == f.pick \in [file : Ids \cup {NoId}, results : BOOLEAN]

\* isSubmitting of both dialogs.
ImportBusy == form.loading \/ form.busy

ImportOpens ==
    /\ Named("import") /\ ~form.open /\ ~form.pick.results
    /\ form' = [form EXCEPT !.open = TRUE]

\* handleFileSelect
ImportSelects ==
    /\ OpenAs("import") /\ ~form.pick.results /\ ~ImportBusy
    /\ \E o \in Ids : form' = [form EXCEPT !.pick.file = o]

\* handleImportData keeps the text, and asks what of it can be imported.
ImportStarts ==
    /\ OpenAs("import") /\ ~form.pick.results /\ ~ImportBusy
    /\ form.pick.file # NoId
    /\ Asks([form EXCEPT !.target = form.pick.file], form.pick.file)

\* The rows of a result: each can be imported or cannot.
ImportRows == UNION {[1..n -> {{}, {"import"}}] : n \in 0..MaxRules}

\* Success closes the dialog, open again or not, and opens the one of the results.
ImportChecked(i) ==
    /\ Named("import")
    /\ \/ Loaded(form, i)
       \/ \E r \in ImportRows :
             Loaded([form EXCEPT !.open = FALSE, !.pick.results = TRUE, !.rules = r,
                                 !.shown = form.asked[i]], i)

\* handleDragEnd: arrayMove
ImportDrags ==
    /\ Named("import") /\ form.pick.results
    /\ \E i, j \in DOMAIN form.rules :
          LET others == Without(form.rules, i)
          IN  /\ i # j
              /\ form' = [form EXCEPT !.rules = SubSeq(others, 1, j - 1) \o <<form.rules[i]>>
                                                \o SubSeq(others, j, Len(others))]

\* What of the rows can be imported: rows that are all alike.
Importable ==
    [k \in 1..Cardinality({i \in DOMAIN form.rules : "import" \in form.rules[i]}) |-> {"import"}]

\* handleConfirmImport takes the keys from the text that is kept.
ImportSubmits ==
    /\ Named("import") /\ form.pick.results /\ ~ImportBusy
    /\ Importable # <<>>
    /\ Sends([Request(form.target, {"import"}) EXCEPT !.rows = Importable])

\* Success forgets file, text and results; the window is reloaded a second later.
ImportSettled(i) ==
    /\ Named("import")
    /\ \/ Settled(form, i)
       \/ Settled([form EXCEPT !.pick.results = FALSE, !.pick.file = NoId, !.target = NoId,
                               !.shown = NoId, !.rules = <<>>], i)

\* The button forgets text and results, Escape and a click beside it do not.
ImportResultsClose ==
    /\ Named("import") /\ form.pick.results
    /\ \/ form' = [form EXCEPT !.pick.results = FALSE]
       \/ /\ ~ImportBusy
          /\ form' = [form EXCEPT !.pick.results = FALSE, !.rules = <<>>, !.target = NoId,
                                  !.shown = NoId]

-----------------------------------------------------------------------------
(* "config": the configuration of an endpoint, on its page.  "changed":    *)
(* name or URL are not the old ones.                                       *)

ConfigStart == FormOf("config", [changed |-> FALSE])

ConfigTypeOK(f) == f.pick \in [changed : BOOLEAN]

\* handleEditConfig: a blank key is the old key.
ConfigOpens ==
    /\ Named("config") /\ ~form.open
    /\ \E h \in SUBSET {"ip"} :
          form' = [form EXCEPT !.open = TRUE, !.pick.changed = FALSE, !.filled = {"name", "url"} \cup h]

ConfigTypes ==
    /\ OpenAs("config")
    /\ \E h \in Typings({"name", "url", "key", "ip"}), c \in BOOLEAN :
          /\ ~({"name", "url"} \subseteq h) => c
          /\ form' = [form EXCEPT !.filled = h, !.pick.changed = c]

\* A change of the address alone is none.  The dialog is closed before anything is sent.
ConfigSubmits ==
    /\ OpenAs("config")
    /\ {"name", "url"} \subseteq form.filled
    /\ form.pick.changed \/ "key" \in form.filled
    /\ SendsAgain([form EXCEPT !.open = FALSE], Request(NoId, form.filled))

ConfigSettled(i) == Named("config") /\ Settled(form, i)

-----------------------------------------------------------------------------
(* "ask": the questions before a key is reset and an endpoint is deleted   *)

AskStart(w) == FormOf("ask", [about |-> w])

AskTypeOK(f) == f.pick \in [about : {"reset", "delete"}]

AskOpens == Named("ask") /\ ~form.open /\ form' = [form EXCEPT !.open = TRUE]

\* The dialog stays open, and its button alive, until the answer.
AskSubmits == OpenAs("ask") /\ SendsAgain(form, Request(NoId, {}))

\* Success closes it; a deletion takes the user to the list besides.
AskSettled(i) ==
    /\ Named("ask")
    /\ \E o \in {form.open, FALSE} : Settled([form EXCEPT !.open = o], i)

-----------------------------------------------------------------------------
(* "qr": the dialog opens when its image is made                           *)

QrStart == FormOf("qr", NoPick)

QrPressed ==
    /\ Named("qr") /\ ~form.open /\ Len(form.asked) < MaxAsked
    /\ form' = [form EXCEPT !.asked = Append(@, NoId)]

QrMade(i) ==
    /\ Named("qr")
    /\ \E o \in {form.open, TRUE} : Loaded([form EXCEPT !.open = o], i)

-----------------------------------------------------------------------------
EndpointFormsOf(route) ==
    CASE route = "endpoints" -> {AddStart, RenameStart, RekeyStart, ByUrlStart, EraseStart, ImportStart}
      [] route = "endpoint"  -> {ByUrlStart, ConfigStart, AskStart("reset"), AskStart("delete"), QrStart}
      [] route = "dashboard" -> {FirstStart}
      [] OTHER -> {}

EndpointFormNames ==
    {"add", "first", "naming", "rekey", "byurl", "erase", "import", "config", "ask", "qr"}

\* The forms that may be sent again while they are under way.
Flagless == EndpointFormNames \ {"import"}

EndpointFormsTypeOK ==
    form.name \in EndpointFormNames =>
        /\ IsForm(form, EndpointFields)
        /\ CASE Named("add")    -> AddTypeOK(form)
             [] Named("import") -> ImportTypeOK(form)
             [] Named("config") -> ConfigTypeOK(form)
             [] Named("ask")    -> AskTypeOK(form)
             [] OTHER -> form.pick = NoPick

EndpointFormsNext ==
    \/ AddOpens \/ AddTypes \/ AddTypesUrl \/ AddTypesAddress \/ AddTests \/ AddResultCloses
    \/ AddSubmits \/ AddTurns \/ AddImports \/ AddCloses
    \/ FirstOpens \/ FirstTypes \/ FirstTests \/ FirstImports \/ FirstSubmits
    \/ RenameOpens \/ RenameTypes \/ RenameSubmits
    \/ RekeyOpens \/ RekeyTypes \/ RekeySubmits
    \/ ByUrlOpens \/ ByUrlTypes \/ ByUrlSubmits
    \/ EraseOpens \/ EraseSubmits
    \/ ImportOpens \/ ImportSelects \/ ImportStarts \/ ImportDrags \/ ImportSubmits
    \/ ImportResultsClose
    \/ ConfigOpens \/ ConfigTypes \/ ConfigSubmits
    \/ AskOpens \/ AskSubmits
    \/ QrPressed
    \/ \E i \in DOMAIN form.asked : AddTested(i) \/ FirstTested(i) \/ ImportChecked(i) \/ QrMade(i)
    \/ \E i \in DOMAIN form.sent :
          \/ AddSettled(i) \/ FirstSettled(i) \/ RenameSettled(i) \/ RekeySettled(i)
          \/ ByUrlSettled(i) \/ EraseSettled(i) \/ ImportSettled(i) \/ ConfigSettled(i)
          \/ AskSettled(i)
    \/ form.name \in EndpointFormNames \ {"add"} /\ Closes

-----------------------------------------------------------------------------
\* What the server needs of each.  What is added after a test was not blank when the
\* test began, and may be when it is added.
EndpointRequired(n) ==
    CASE n = "first"  -> FirstNeeds
      [] n = "naming" -> {"name"}
      [] n = "rekey"  -> {"key"}
      [] n = "byurl"  -> {"url"}
      [] n = "config" -> {"name", "url"}
      [] n = "import" -> {"import"}
      [] OTHER -> {}

EndpointRequestsComplete ==
    form.name \in EndpointFormNames => \A i \in DOMAIN form.sent :
        /\ EndpointRequired(form.name) \subseteq form.sent[i].has
        /\ Named("import") => form.sent[i].rows # <<>>

\* An answer is about the endpoint on the screen; the keys that are imported come from
\* the file whose results are shown.
EndpointSubmitsShown(r) == form.name \in EndpointFormNames => r.to = form.shown
=============================================================================
