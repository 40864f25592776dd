---------------------------- MODULE Preferences -----------------------------
(***************************************************************************)
(* What a user may set to taste, in two tabs of one browser: here on a     *)
(* page with the drawer of settings (layout/settings-drawer), there on the *)
(* page of sign-in or of the guide (providers/settings-provider,           *)
(* theme-switch, language-switch).                                         *)
(*                                                                         *)
(* The theme is kept twice, by the settings and by the library of themes,  *)
(* which also brings it from tab to tab.  A rendering with the effects it  *)
(* triggers is one step.                                                   *)
(*                                                                         *)
(* Abstracted: besides the theme one preference at a time is followed,     *)
(* which is as it is by default or changed.  Bound: nobody chooses a theme *)
(* while another is on its way to the other tab.                           *)
(***************************************************************************)
EXTENDS Forms

Themes == {"light", "dark", "system"}
Kinds == {"language", "privacy", "experimental", "updates"}
Tabs == {"here", "there"}

Settings == [theme : Themes, changed : BOOLEAN]

\* defaultSettings
Default == [theme |-> "system", changed |-> FALSE]

\* kind: the preference that is followed; saved: localStorage; kept: the theme the
\* library stores; news: the tab this theme is on its way to.
PreferencesStart(k) ==
    FormOf("preferences",
           [kind |-> k, saved |-> Default, kept |-> "system", news |-> "none",
            tabs |-> [t \in Tabs |-> [settings |-> Default, theme |-> "system"]]])

PreferencesTypeOK ==
    Named("preferences") =>
        /\ IsForm(form, {})
        /\ form.pick \in [kind : Kinds, saved : Settings, kept : Themes,
                          news : Tabs \cup {"none"},
                          tabs : [Tabs -> [settings : Settings, theme : Themes]]]

\* setSettings and saveSettings: the settings of the tab, all of them, replace what is saved.
SavedAs(p, t, s) == [p EXCEPT !.tabs[t].settings = s, !.saved = s]

\* setTheme of the library.
Themed(p, t, v) ==
    [p EXCEPT !.tabs[t].theme = v, !.kept = v,
              !.news = IF p.kept = v THEN @ ELSE CHOOSE u \in Tabs : u # t]

\* Mutant: the theme is compared once, when the settings are loaded.
FollowedOnce(p, t) == p

\* The effect that follows the library.
Followed(p, t) ==
    LET s == p.tabs[t].settings
    IN  IF s.theme = p.tabs[t].theme THEN p
        ELSE SavedAs(p, t, [s EXCEPT !.theme = p.tabs[t].theme])

Becomes(p) == form' = [form EXCEPT !.pick = p]

-----------------------------------------------------------------------------
\* The tab shows its drawer, or a page of its own.
At(t) == Named("preferences") /\ (t = "here" => form.open)

\* updateTheme
UpdateTheme(t) ==
    /\ form.pick.news = "none"
    /\ LET s == form.pick.tabs[t].settings
       IN  \E v \in Themes \ {s.theme} :
              Becomes(Followed(Themed(SavedAs(form.pick, t, [s EXCEPT !.theme = v]), t, v), t))

\* updateLanguage, and the toggles.
Toggle(t, kinds) ==
    /\ form.pick.kind \in kinds
    /\ Becomes(SavedAs(form.pick, t, [form.pick.tabs[t].settings EXCEPT !.changed = ~@]))

DrawerOpens == Named("preferences") /\ ~form.open /\ form' = [form EXCEPT !.open = TRUE]

\* Its button, which promises to save, only closes.
DrawerCloses == Named("preferences") /\ Closes

DrawerTheme == At("here") /\ UpdateTheme("here")
DrawerLanguage == At("here") /\ Toggle("here", {"language"})
DrawerPrivacy == At("here") /\ Toggle("here", {"privacy"})
DrawerExperimental == At("here") /\ Toggle("here", {"experimental"})
DrawerUpdates == At("here") /\ Toggle("here", {"updates"})

\* The first step of the guide applies its choices at once.
GuideTheme == At("there") /\ UpdateTheme("there")
GuideLanguage == At("there") /\ Toggle("there", {"language"})

\* The switches of the page of sign-in; that of the theme goes to the library.
LoginTheme ==
    /\ At("there") /\ form.pick.news = "none"
    /\ LET v == IF form.pick.tabs["there"].theme = "light" THEN "dark" ELSE "light"
       IN  Becomes(Followed(Themed(form.pick, "there", v), "there"))

LoginLanguage == At("there") /\ Toggle("there", {"language"})

-----------------------------------------------------------------------------
\* The library brings the theme to the other tab.
NewsArrives ==
    /\ Named("preferences") /\ form.pick.news # "none"
    /\ LET t == form.pick.news
       IN  Becomes(Followed(Themed([form.pick EXCEPT !.news = "none"], t, form.pick.kept), t))

\* A tab is loaded again: the settings as they are saved, then their theme.
TabLoads ==
    /\ Named("preferences") /\ form.pick.news = "none"
    /\ \E t \in Tabs :
          LET p == form.pick
              loaded == [p EXCEPT !.tabs[t] = [settings |-> p.saved, theme |-> p.kept]]
          IN  form' = [form EXCEPT !.open = @ /\ t # "here",
                                   !.pick = Followed(Themed(loaded, t, p.saved.theme), t)]

-----------------------------------------------------------------------------
PreferencesOf(route) ==
    IF route = "dashboard" THEN {PreferencesStart(k) : k \in Kinds} ELSE {}

PreferencesNames == {"preferences"}

PreferencesNext ==
    \/ DrawerOpens \/ DrawerCloses \/ DrawerTheme
    \/ DrawerLanguage \/ DrawerPrivacy \/ DrawerExperimental \/ DrawerUpdates
    \/ GuideTheme \/ GuideLanguage \/ LoginTheme \/ LoginLanguage
    \/ NewsArrives \/ TabLoads

-----------------------------------------------------------------------------
\* The theme is one, wherever it was chosen: when it has reached the other tab, what both
\* show, what their settings say, and what either store gives a tab that is loaded
\* ("only follow changes of the theme that come from outside").
ThemesAgree ==
    Named("preferences") /\ form.pick.news = "none" =>
        /\ form.pick.saved.theme = form.pick.kept
        /\ \A t \in Tabs : /\ form.pick.tabs[t].theme = form.pick.kept
                           /\ form.pick.tabs[t].settings.theme = form.pick.kept
=============================================================================
