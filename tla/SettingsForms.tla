----------------------------- MODULE SettingsForms --------------------------
(***************************************************************************)
(* The three tabs of the settings (pages/settings): the account and the    *)
(* sign-in through others (settings/security-settings), the cleanup of     *)
(* logs (log-cleanup-settings) and the version (version-settings).  A tab  *)
(* that is left is gone.                                                   *)
(*                                                                         *)
(* Abstracted: a new password that is too short counts as blank, and so    *)
(* does a confirmation that differs from it; the configuration of a        *)
(* provider is one field; what is only shown, the statistics among it, is  *)
(* left out.                                                               *)
(***************************************************************************)
EXTENDS Forms

SettingsFields ==
    {"current", "new", "confirm", "username", "github", "cloudflare", "unbind",
     "days", "interval", "max", "trigger", "stable", "beta"}

-----------------------------------------------------------------------------
(* "security": five dialogs and a button with one flag                     *)

Providers == {"github", "cloudflare"}

SecurityDialogs == {"none", "password", "username", "select"} \cup Providers

SecurityPick == [dialog |-> "none", bound |-> {}]

\* initOAuth2 asks which provider is bound; no spinner waits for it.
SecurityStart ==
    [FormOf("security", SecurityPick) EXCEPT !.open = TRUE, !.asked = <<NoId>>]

SecurityTypeOK(f) == f.pick \in [dialog : SecurityDialogs, bound : SUBSET Providers]

\* The configuration replaces what was typed meanwhile.
SecurityHeard(i) ==
    /\ Named("security")
    /\ \/ Loaded(form, i)
       \/ \E p \in Providers :
             Loaded([form EXCEPT !.filled = @ \cup {p}, !.pick.bound = @ \cup {p}], i)

SecurityIn(d) == Named("security") /\ form.pick.dialog = d

Turns(d) == form' = [form EXCEPT !.pick.dialog = d]

\* The provider the card names: the first of both.
BoundProvider == IF "github" \in form.pick.bound THEN "github" ELSE "cloudflare"

\* The card shows the provider that is bound, or the choice between both.
SecurityOpens ==
    /\ SecurityIn("none")
    /\ \/ \E d \in {"password", "username"} : Turns(d)
       \/ form.pick.bound = {} /\ Turns("select")
       \/ form.pick.bound # {} /\ Turns(BoundProvider)

SecuritySelects == SecurityIn("select") /\ \E p \in Providers : Turns(p)

\* Escape closes a dialog whose own button is dead.
SecurityCloses == Named("security") /\ form.pick.dialog # "none" /\ Turns("none")

PasswordNeeds == {"current", "new", "confirm"}

PasswordTypes == SecurityIn("password") /\ Types(PasswordNeeds)

UsernameTypes == SecurityIn("username") /\ Types({"username"})

ProviderTypes == \E p \in Providers : SecurityIn(p) /\ Types({p})

\* handlePasswordChange
PasswordSubmits ==
    /\ SecurityIn("password") /\ ~form.busy
    /\ PasswordNeeds \subseteq form.filled
    /\ Sends(Request(NoId, {"current", "new"}))

\* handleUsernameChange
UsernameSubmits ==
    /\ SecurityIn("username") /\ ~form.busy
    /\ "username" \in form.filled
    /\ Sends(Request(NoId, {"username"}))

\* handleSaveGitHubConfig and handleSaveCloudflareConfig check nothing; the name of the
\* provider is always sent.
GitHubSubmits ==
    /\ SecurityIn("github") /\ ~form.busy
    /\ Sends(Request(NoId, {"github"}))

CloudflareSubmits ==
    /\ SecurityIn("cloudflare") /\ ~form.busy
    /\ Sends(Request(NoId, {"cloudflare"}))

\* handleUnbindProvider
UnbindSubmits ==
    /\ SecurityIn("none") /\ ~form.busy /\ form.pick.bound # {}
    /\ Sends(Request(NoId, {"unbind", BoundProvider}))

\* Only its own dialog is closed by a success.
WithoutDialog(d) == [form EXCEPT !.pick.dialog = IF @ = d THEN "none" ELSE @]

PasswordSettled(i) ==
    /\ Named("security") /\ "new" \in form.sent[i].has
    /\ \/ Settled(form, i)
       \/ Settled([WithoutDialog("password") EXCEPT !.filled = @ \ PasswordNeeds], i)

\* A new name reloads the window.
UsernameSettled(i) ==
    /\ Named("security") /\ "username" \in form.sent[i].has
    /\ Settled(form, i) \/ form' = SecurityStart

ProviderSettled(i) ==
    /\ Named("security") /\ "unbind" \notin form.sent[i].has
    /\ \E p \in Providers \cap form.sent[i].has :
          \/ Settled(form, i)
          \/ Settled([WithoutDialog(p) EXCEPT !.pick.bound = @ \cup {p}], i)

UnbindSettled(i) ==
    /\ Named("security") /\ "unbind" \in form.sent[i].has
    /\ \/ Settled(form, i)
       \/ Settled([form EXCEPT !.pick.bound = @ \ form.sent[i].has], i)

-----------------------------------------------------------------------------
(* "cleanup": the cleanup of logs                                          *)

CleanupFields == {"days", "interval", "max"}

CleanupStart ==
    [FormOf("cleanup", [ready |-> FALSE, dialog |-> FALSE, triggering |-> FALSE])
        EXCEPT !.open = TRUE, !.asked = <<NoId>>, !.loading = TRUE, !.filled = CleanupFields]

CleanupTypeOK(f) == f.pick \in [ready : BOOLEAN, dialog : BOOLEAN, triggering : BOOLEAN]

CleanupReady == Named("cleanup") /\ form.pick.ready

\* refreshData: the spinner of the button.
CleanupRefreshes == CleanupReady /\ ~form.pick.dialog /\ ~form.loading /\ Asks(form, NoId)

\* fetchConfig replaces what was typed meanwhile, and leaves it when it fails.
CleanupLoaded(i) ==
    /\ Named("cleanup")
    /\ \E h \in {form.filled, CleanupFields} :
          Loaded([form EXCEPT !.pick.ready = TRUE, !.filled = h], i)

\* What was typed and not saved is shown again.
CleanupOpens ==
    /\ CleanupReady /\ ~form.pick.dialog
    /\ form' = [form EXCEPT !.pick.dialog = TRUE]

CleanupCloses ==
    /\ CleanupReady /\ form.pick.dialog
    /\ form' = [form EXCEPT !.pick.dialog = FALSE]

\* Numbers become the default when they are cleared; a cleared interval only looks so.
CleanupTypes ==
    /\ CleanupReady /\ form.pick.dialog
    /\ \E h \in {CleanupFields, CleanupFields \ {"interval"}} : form' = [form EXCEPT !.filled = h]

\* handleUpdateConfig
CleanupSubmits ==
    /\ CleanupReady /\ form.pick.dialog /\ ~form.busy
    /\ Sends(Request(NoId, form.filled))

\* Success asks for the statistics, and closes the dialog when they have come.
CleanupSettled(i) ==
    /\ Named("cleanup") /\ "trigger" \notin form.sent[i].has
    /\ \E d \in {form.pick.dialog, FALSE} : Settled([form EXCEPT !.pick.dialog = d], i)

\* handleTriggerCleanup
TriggerSubmits ==
    /\ CleanupReady /\ ~form.pick.dialog /\ ~form.pick.triggering
    /\ Len(form.sent) < MaxSent
    /\ form' = [form EXCEPT !.pick.triggering = TRUE, !.sent = Append(@, Request(NoId, {"trigger"}))]

TriggerSettled(i) ==
    /\ Named("cleanup") /\ "trigger" \in form.sent[i].has
    /\ form' = [form EXCEPT !.pick.triggering = FALSE,
                            !.sent = SubSeq(@, 1, i - 1) \o SubSeq(@, i + 1, Len(@))]

-----------------------------------------------------------------------------
(* "version": the version, its successors and the update                   *)

Successors == {"stable", "beta"}

VersionStart ==
    [FormOf("version", [ready |-> FALSE, updates |-> {}, can |-> FALSE, release |-> "none"])
        EXCEPT !.open = TRUE, !.asked = <<NoId>>, !.loading = TRUE]

VersionTypeOK(f) ==
    f.pick \in [ready : BOOLEAN, updates : SUBSET Successors, can : BOOLEAN,
                release : Successors \cup {"none"}]

VersionReady == Named("version") /\ form.pick.ready

\* fetchVersionData: of both answers each may be missing.
VersionLoaded(i) ==
    /\ Named("version") /\ ~form.pick.ready
    /\ \E c \in BOOLEAN : Loaded([form EXCEPT !.pick.ready = TRUE, !.pick.can = c], i)

\* checkUpdate
VersionChecks == VersionReady /\ form.pick.release = "none" /\ ~form.loading /\ Asks(form, NoId)

VersionChecked(i) ==
    /\ VersionReady
    /\ \E u \in SUBSET Successors :
          Loaded([form EXCEPT !.pick.updates = u], i)

\* The dialog of a successor, and its closing.
VersionShows ==
    /\ VersionReady
    /\ \E r \in IF form.pick.release = "none" THEN form.pick.updates ELSE {"none"} :
          form' = [form EXCEPT !.pick.release = r]

\* performAutoUpdate of either button.
VersionSubmits ==
    /\ VersionReady /\ form.pick.release = "none" /\ ~form.busy /\ form.pick.can
    /\ \E u \in form.pick.updates : Sends(Request(NoId, {u}))

VersionSettled(i) == Named("version") /\ Settled(form, i)

-----------------------------------------------------------------------------
\* The page of settings is entered like the other pages that are only forms.
SettingsFormsOf(route) ==
    IF route = "dashboard" THEN {SecurityStart, CleanupStart, VersionStart} ELSE {}

SettingsFormNames == {"security", "cleanup", "version"}

SettingsFormsTypeOK ==
    form.name \in SettingsFormNames =>
        /\ IsForm(form, SettingsFields)
        /\ CASE Named("security") -> SecurityTypeOK(form)
             [] Named("cleanup")  -> CleanupTypeOK(form)
             [] Named("version")  -> VersionTypeOK(form)

SettingsFormsNext ==
    \/ SecurityOpens \/ SecuritySelects \/ SecurityCloses
    \/ PasswordTypes \/ UsernameTypes \/ ProviderTypes
    \/ PasswordSubmits \/ UsernameSubmits \/ GitHubSubmits \/ CloudflareSubmits \/ UnbindSubmits
    \/ CleanupRefreshes \/ CleanupOpens \/ CleanupCloses \/ CleanupTypes \/ CleanupSubmits
    \/ TriggerSubmits
    \/ VersionChecks \/ VersionShows \/ VersionSubmits
    \/ \E i \in DOMAIN form.asked :
          SecurityHeard(i) \/ CleanupLoaded(i) \/ VersionLoaded(i) \/ VersionChecked(i)
    \/ \E i \in DOMAIN form.sent :
          \/ PasswordSettled(i) \/ UsernameSettled(i) \/ ProviderSettled(i) \/ UnbindSettled(i)
          \/ CleanupSettled(i) \/ TriggerSettled(i) \/ VersionSettled(i)

-----------------------------------------------------------------------------
\* A password comes with the one it replaces.  A cleared interval is sent.
SettingsRequestsComplete ==
    form.name \in SettingsFormNames => \A i \in DOMAIN form.sent :
        LET has == form.sent[i].has
        IN  /\ has # {}
            /\ "current" \in has <=> "new" \in has
            /\ "days" \in has <=> "max" \in has

\* One flag stands for all that the tab of the account sends; the settings of the
\* cleanup and the cleanup itself have one each.
SettingsSubmitOnce ==
    form.name \in SettingsFormNames => \A i, j \in DOMAIN form.sent :
        i # j => /\ Named("cleanup")
                 /\ "trigger" \in form.sent[i].has <=> "trigger" \notin form.sent[j].has

\* Nothing is sent for a dialog that is not shown.
SettingsSubmitsShown(r) ==
    Named("security") =>
        /\ "new" \in r.has => form.pick.dialog = "password"
        /\ "unbind" \in r.has => form.pick.dialog = "none"
=============================================================================
