---------------------------- MODULE BrowserAuth -----------------------------
(***************************************************************************)
(* Signing in and out: the tabs of a browser, the token they share in      *)
(* localStorage, and the one token the server accepts (auth-provider,      *)
(* route-guard, fetch-interceptor, the pages login, oauth-success and      *)
(* setup-guide; auth/service.go, auth/jwt.go, api/auth.go).                *)
(*                                                                         *)
(* A tab is one run of the program: what a reload of the page ends.  Its   *)
(* timers fire in any order, and requests are served and answered in any   *)
(* order.  A rendering with the effects it triggers is one step.  A        *)
(* request reaches the server, is checked by the middleware, and acts in   *)
(* steps of its own, also when the tab that sent it is gone.               *)
(*                                                                         *)
(* Abstracted: names, passwords, whether credentials are the default ones; *)
(* the session table behind the cookie, which no code fills.  Pages other  *)
(* than the public ones are one page.  Bounds: Tokens, how often the       *)
(* server can issue one; MaxHandlers and MaxCalls, how many forms and how  *)
(* many requests of pages (of a tab) are under way.                        *)
(***************************************************************************)
EXTENDS Naturals, FiniteSets

CONSTANTS Tabs, NoTab, Tokens, NoToken, MaxHandlers, MaxCalls

ASSUME NilAssumption == NoTab \notin Tabs /\ NoToken \notin Tokens
ASSUME BoundAssumption == MaxHandlers \in Nat /\ MaxCalls \in Nat

VARIABLES
    jti,      \* Service.currentJTI
    issued,   \* tokens GenerateToken has made
    expired,  \* tokens whose time is over
    replaced, \* history: tokens that were current and no longer are
    handlers, \* requests on the server that may change jti, and their answers
    stored,   \* localStorage: nodepass.token and whether nodepass.user is there
    tab       \* the tabs

server == <<jti, issued, expired, replaced>>
vars == <<jti, issued, expired, replaced, handlers, stored, tab>>

Paths == {"login", "setup", "oauth", "error", "private", "elsewhere"}
PublicRoutes == {"login", "setup", "oauth", "error"}
AnyToken == Tokens \cup {NoToken}

Handler ==
    [op : {"login", "oauth", "setup", "logout"}, from : Tabs \cup {NoTab},
     pc : {"arrived", "checked", "issued", "done", "refused"}, token : AnyToken]

\* guard, check, reload, goto and leaving are timers; waiting: the form or the
\* logout the tab awaits the answer of; given: the token in the URL.
TabState ==
    [user : BOOLEAN, loading : BOOLEAN, path : Paths, given : AnyToken,
     guard : BOOLEAN, check : BOOLEAN, reload : BOOLEAN, leaving : BOOLEAN,
     goto : SUBSET {"setup", "private"}, waiting : BOOLEAN,
     calls : SUBSET [token : AnyToken, refused : BOOLEAN]]

TypeOK ==
    /\ jti \in AnyToken
    /\ issued \subseteq Tokens /\ expired \subseteq issued /\ replaced \subseteq issued
    /\ handlers \subseteq Handler
    /\ stored \in [token : AnyToken, user : BOOLEAN]
    /\ tab \in [Tabs -> TabState]

Valid(k) == k # NoToken /\ k = jti /\ k \notin expired

\* The state of a tab in which the program starts, the effect that restores
\* the stored user included.
Loaded(path, token) ==
    [user |-> stored.user, loading |-> TRUE, path |-> path, given |-> token,
     guard |-> FALSE, check |-> TRUE, reload |-> FALSE, leaving |-> FALSE,
     goto |-> {}, waiting |-> FALSE, calls |-> {}]

Nothing == [token |-> NoToken, user |-> FALSE]

Init ==
    /\ jti = NoToken /\ issued = {} /\ expired = {} /\ replaced = {}
    /\ handlers = {}
    /\ stored = Nothing
    /\ tab \in [Tabs -> {Loaded(p, NoToken) : p \in {"login", "private"}}]

\* Mutant: the effect does not depend on user and path.
BecomesUnwatched(t, new) ==
    tab' = [tab EXCEPT ![t] = IF tab[t].loading # new.loading
                                THEN [new EXCEPT !.guard = ~new.loading] ELSE new]

\* A new state of a tab.  The effect of RouteGuard runs when one of its three
\* dependencies has changed, and starts its timer anew.
Becomes(t, new) ==
    LET old == tab[t]
        changed == <<old.user, old.loading, old.path>> # <<new.user, new.loading, new.path>>
    IN  tab' = [tab EXCEPT ![t] =
                  IF changed THEN [new EXCEPT !.guard = ~new.loading] ELSE new]

-----------------------------------------------------------------------------
(* The server                                                              *)

\* SetCurrentJTI and ClearCurrentJTI.
SetCurrent(k) ==
    /\ jti' = k
    /\ replaced' = IF jti = NoToken THEN replaced ELSE replaced \cup {jti}
    /\ UNCHANGED <<issued, expired>>

Moves(h, new) == handlers' = (handlers \ {h}) \cup {new}

\* The middleware, in front of what is not public.
Authorize(h) ==
    /\ h.pc = "arrived" /\ h.op \in {"setup", "logout"}
    /\ Moves(h, [h EXCEPT !.pc = IF Valid(h.token) THEN "checked" ELSE "refused"])
    /\ UNCHANGED <<server, stored, tab>>

\* Mutant: the same random bytes again.
FreshFromSeed == CHOOSE k \in Tokens : TRUE

Fresh == CHOOSE k \in Tokens : k \notin issued

\* GenerateToken, once the credentials are found right.
Generate(h) ==
    /\ h.pc = IF h.op = "setup" THEN "checked" ELSE "arrived"
    /\ h.op # "logout"
    /\ issued # Tokens
    /\ issued' = issued \cup {Fresh}
    /\ Moves(h, [h EXCEPT !.pc = "issued", !.token = Fresh])
    /\ UNCHANGED <<jti, expired, replaced, stored, tab>>

\* SetCurrentJTI follows GenerateToken, and other requests come in between.
Install(h) ==
    /\ h.pc = "issued"
    /\ SetCurrent(h.token)
    /\ Moves(h, [h EXCEPT !.pc = "done"])
    /\ UNCHANGED <<stored, tab>>

\* HandleLogout clears whatever token is current.
Clear(h) ==
    /\ h.op = "logout" /\ h.pc = "checked"
    /\ SetCurrent(NoToken)
    /\ Moves(h, [h EXCEPT !.pc = "done"])
    /\ UNCHANGED <<stored, tab>>

\* Mutant: tokens expire that were never made.
ExpireUnissued(k) ==
    /\ k \notin expired
    /\ expired' = expired \cup {k}
    /\ UNCHANGED <<jti, issued, replaced, handlers, stored, tab>>

Expire(k) ==
    /\ k \in issued \ expired
    /\ expired' = expired \cup {k}
    /\ UNCHANGED <<jti, issued, replaced, handlers, stored, tab>>

\* Somebody signs in with another browser.
OtherBrowser ==
    /\ issued # Tokens
    /\ issued' = issued \cup {Fresh} /\ jti' = Fresh
    /\ replaced' = IF jti = NoToken THEN replaced ELSE replaced \cup {jti}
    /\ UNCHANGED <<expired, handlers, stored, tab>>

-----------------------------------------------------------------------------
(* Requests of pages, and the interceptor                                  *)

\* What RouteGuard lets a tab show.
Shows(t) ==
    /\ ~tab[t].loading
    /\ IF tab[t].user THEN tab[t].path \in {"private", "setup"}
                      ELSE tab[t].path \in PublicRoutes

\* A page asks for something, with the token stored at this moment.
Call(t) ==
    /\ Shows(t) /\ tab[t].path = "private" /\ Cardinality(tab[t].calls) < MaxCalls
    /\ Becomes(t, [tab[t] EXCEPT !.calls = @ \cup {[token |-> stored.token, refused |-> FALSE]}])
    /\ UNCHANGED <<server, handlers, stored>>

\* The middleware looks at the token of a request.
CallServed(t) ==
    \E c \in tab[t].calls :
        /\ ~c.refused
        /\ LET others == tab[t].calls \ {c}
           IN  Becomes(t, [tab[t] EXCEPT !.calls =
                    IF Valid(c.token) THEN others
                    ELSE others \cup {[c EXCEPT !.refused = TRUE]}])
        /\ UNCHANGED <<server, handlers, stored>>

\* A 401 arrives: the interceptor empties the storage and starts a timer.
Intercept(new) == stored' = Nothing /\ new.reload

CallRefused(t) ==
    \E c \in tab[t].calls :
        /\ c.refused
        /\ LET new == [tab[t] EXCEPT !.calls = @ \ {c}, !.reload = TRUE]
           IN  Intercept(new) /\ Becomes(t, new)
        /\ UNCHANGED <<server, handlers>>

-----------------------------------------------------------------------------
(* Forms                                                                   *)

Asks(t, op, token) ==
    /\ Cardinality(handlers) < MaxHandlers
    /\ handlers' = handlers \cup
          {[op |-> op, from |-> t, pc |-> "arrived", token |-> token]}

\* LoginPage.handleSubmit.
SubmitLogin(t) ==
    /\ Shows(t) /\ tab[t].path = "login" /\ ~tab[t].waiting
    /\ Asks(t, "login", NoToken)
    /\ Becomes(t, [tab[t] EXCEPT !.waiting = TRUE])
    /\ UNCHANGED <<server, stored>>

\* The tab leaves for the provider of OAuth2, which sends it to the callback.
GoToProvider(t) ==
    /\ Shows(t) /\ tab[t].path = "login" /\ ~tab[t].waiting
    /\ Asks(t, "oauth", NoToken)
    /\ tab' = [tab EXCEPT ![t] = [Loaded("elsewhere", NoToken) EXCEPT !.check = FALSE]]
    /\ UNCHANGED <<server, stored>>

\* SetupGuide.handleSubmit.
SubmitSetup(t) ==
    /\ Shows(t) /\ tab[t].path = "setup" /\ ~tab[t].waiting
    /\ IF stored.token = NoToken
         THEN Becomes(t, [tab[t] EXCEPT !.path = "login"]) /\ UNCHANGED handlers
         ELSE /\ Asks(t, "setup", stored.token)
              /\ Becomes(t, [tab[t] EXCEPT !.waiting = TRUE])
    /\ UNCHANGED <<server, stored>>

\* AuthProvider.logout, up to its request.
Logout(t) ==
    /\ Shows(t) /\ tab[t].path = "private"
    /\ Asks(t, "logout", stored.token)
    /\ Becomes(t, [tab[t] EXCEPT !.loading = TRUE, !.waiting = TRUE])
    /\ UNCHANGED <<server, stored>>

\* The login saves token and user and starts a timer for the next page; the
\* redirect of the callback loads the page oauth-success with the token.
SignedIn(h) ==
    /\ h.pc = "done" /\ h.op \in {"login", "oauth"} /\ h.from # NoTab
    /\ handlers' = handlers \ {h}
    /\ IF h.op = "oauth"
         THEN /\ tab' = [tab EXCEPT ![h.from] = Loaded("oauth", h.token)]
              /\ UNCHANGED stored
         ELSE /\ stored' = [token |-> h.token, user |-> TRUE]
              /\ \E next \in {"setup", "private"} :
                    Becomes(h.from, [tab[h.from] EXCEPT !.waiting = FALSE,
                                     !.user = TRUE, !.goto = @ \cup {next}])
    /\ UNCHANGED server

\* The credentials are changed.  The page calls updateSettings first, which the
\* settings do not provide: its handler throws, shows an error, and comes neither
\* to the new token nor to the next page.
SetupDone(h) ==
    /\ h.pc = "done" /\ h.op = "setup" /\ h.from # NoTab
    /\ handlers' = handlers \ {h}
    /\ Becomes(h.from, [tab[h.from] EXCEPT !.waiting = FALSE])
    /\ UNCHANGED <<server, stored>>

\* The server refuses the form, or the answer is lost; the page shows an error.
FormFails(h) ==
    /\ h.op \in {"login", "setup"} /\ h.from # NoTab
    /\ \/ h.pc \in {"arrived", "checked"} /\ handlers' = handlers \ {h}
       \/ h.pc \in {"issued", "done"} /\ Moves(h, [h EXCEPT !.from = NoTab])
    /\ Becomes(h.from, [tab[h.from] EXCEPT !.waiting = FALSE])
    /\ UNCHANGED <<server, stored>>

\* The callback ends on the page oauth-error.
OAuthFails(h) ==
    /\ h.op = "oauth" /\ h.pc = "arrived" /\ h.from # NoTab
    /\ handlers' = handlers \ {h}
    /\ tab' = [tab EXCEPT ![h.from] = Loaded("error", NoToken)]
    /\ UNCHANGED <<server, stored>>

\* A 401 to the form of setup-guide.
SetupRefused(h) ==
    /\ h.op = "setup" /\ h.pc = "refused" /\ h.from # NoTab
    /\ handlers' = handlers \ {h}
    /\ LET new == [tab[h.from] EXCEPT !.waiting = FALSE, !.reload = TRUE]
       IN  Intercept(new) /\ Becomes(h.from, new)
    /\ UNCHANGED server

\* Mutant: a failed request ends logout early.
LogoutAnsweredThrows(h) ==
    /\ h.op = "logout" /\ h.from # NoTab
    /\ IF h.pc \in {"done", "refused"} THEN handlers' = handlers \ {h}
                                       ELSE Moves(h, [h EXCEPT !.from = NoTab])
    /\ stored' = Nothing
    /\ Becomes(h.from, [tab[h.from] EXCEPT !.waiting = FALSE, !.user = FALSE,
                        !.leaving = h.pc = "done", !.reload = @ \/ h.pc = "refused"])
    /\ UNCHANGED server

\* logout ends the same way whether its request was served, refused or lost.
LogoutAnswered(h) ==
    /\ h.op = "logout" /\ h.from # NoTab
    /\ IF h.pc \in {"done", "refused"} THEN handlers' = handlers \ {h}
                                       ELSE Moves(h, [h EXCEPT !.from = NoTab])
    /\ stored' = Nothing
    /\ Becomes(h.from, [tab[h.from] EXCEPT !.waiting = FALSE, !.user = FALSE,
                        !.leaving = TRUE, !.reload = @ \/ h.pc = "refused"])
    /\ UNCHANGED server

\* An answer nobody waits for.
Unheard(h) ==
    /\ h.from = NoTab /\ h.pc \in {"done", "refused"}
    /\ handlers' = handlers \ {h}
    /\ UNCHANGED <<server, stored, tab>>

-----------------------------------------------------------------------------
(* Timers of a tab                                                         *)

\* checkAuth(true), 200 ms after the start.  On oauth-success without a user the
\* page appears now, and its effect saves what the URL gives.
CheckAuth(t) ==
    /\ tab[t].check
    /\ LET kept == stored.token # NoToken /\ stored.token \notin expired
           saves == tab[t].path = "oauth" /\ ~(kept /\ (tab[t].user \/ stored.user))
           seen == [tab[t] EXCEPT !.check = FALSE, !.loading = FALSE]
       IN  IF saves /\ tab[t].given # NoToken
             THEN /\ stored' = [token |-> tab[t].given, user |-> TRUE]
                  /\ Becomes(t, [seen EXCEPT !.user = TRUE, !.goto = {"private"}])
             ELSE /\ stored' = IF kept THEN stored ELSE Nothing
                  /\ Becomes(t, [seen EXCEPT !.user = kept /\ (@ \/ stored.user),
                                 !.path = IF saves THEN "login" ELSE @])
    /\ UNCHANGED <<server, handlers>>

\* RouteGuard's redirection.
GuardFires(t) ==
    /\ tab[t].guard
    /\ LET here == tab[t].path
           next == IF ~tab[t].user /\ here \notin PublicRoutes THEN "login"
                   ELSE IF tab[t].user /\ here \in PublicRoutes \ {"setup"} THEN "private"
                   ELSE here
       IN  Becomes(t, [tab[t] EXCEPT !.guard = FALSE, !.path = next])
    /\ UNCHANGED <<server, handlers, stored>>

\* navigate() of a form, whatever page is shown by now.
GotoFires(t) ==
    \E next \in tab[t].goto :
        /\ Becomes(t, [tab[t] EXCEPT !.goto = @ \ {next}, !.path = next])
        /\ UNCHANGED <<server, handlers, stored>>

\* The end of logout.
LeaveFires(t) ==
    /\ tab[t].leaving
    /\ Becomes(t, [tab[t] EXCEPT !.leaving = FALSE, !.loading = FALSE, !.path = "login"])
    /\ UNCHANGED <<server, handlers, stored>>

Orphaned(t) ==
    handlers' = {IF h.from = t THEN [h EXCEPT !.from = NoTab] ELSE h : h \in handlers}

\* Mutant: the tab stays when it has a token again.
ReloadFiresWithoutToken(t) ==
    /\ tab[t].reload
    /\ IF tab[t].path = "login" \/ stored.token # NoToken
         THEN Becomes(t, [tab[t] EXCEPT !.reload = FALSE]) /\ UNCHANGED handlers
         ELSE tab' = [tab EXCEPT ![t] = Loaded("login", NoToken)] /\ Orphaned(t)
    /\ UNCHANGED <<server, stored>>

\* The interceptor's timer: the tab is loaded again unless it shows the login.
ReloadFires(t) ==
    /\ tab[t].reload
    /\ IF tab[t].path = "login"
         THEN Becomes(t, [tab[t] EXCEPT !.reload = FALSE]) /\ UNCHANGED handlers
         ELSE tab' = [tab EXCEPT ![t] = Loaded("login", NoToken)] /\ Orphaned(t)
    /\ UNCHANGED <<server, stored>>

\* The user loads a page.
Load(t) ==
    /\ \E p \in {"login", "setup", "private"} :
          tab' = [tab EXCEPT ![t] = Loaded(p, NoToken)]
    /\ Orphaned(t)
    /\ UNCHANGED <<server, stored>>

-----------------------------------------------------------------------------
Serve(h) ==
    \/ Authorize(h) \/ Generate(h) \/ Install(h) \/ Clear(h)

Answer(h) ==
    \/ SignedIn(h) \/ SetupDone(h) \/ FormFails(h) \/ OAuthFails(h) \/ SetupRefused(h)
    \/ LogoutAnswered(h) \/ Unheard(h)

Timer(t) ==
    \/ CheckAuth(t) \/ GuardFires(t) \/ GotoFires(t) \/ LeaveFires(t)
    \/ ReloadFires(t)

User(t) ==
    \/ Call(t) \/ SubmitLogin(t) \/ GoToProvider(t) \/ SubmitSetup(t)
    \/ Logout(t) \/ Load(t)

Next ==
    \/ \E h \in handlers : Serve(h) \/ Answer(h)
    \/ \E t \in Tabs : User(t) \/ Timer(t) \/ CallServed(t) \/ CallRefused(t)
    \/ \E k \in Tokens : Expire(k)
    \/ OtherBrowser

Spec == Init /\ [][Next]_vars

\* Timers fire and requests of a tab are answered or fail.
FairSpec ==
    /\ Spec
    /\ \A t \in Tabs :
          /\ WF_vars(CheckAuth(t)) /\ WF_vars(GuardFires(t)) /\ WF_vars(GotoFires(t))
          /\ WF_vars(LeaveFires(t)) /\ WF_vars(ReloadFires(t))
          /\ WF_vars(CallRefused(t))
          /\ WF_vars(\E h \in handlers : h.from = t /\ h.op = "logout" /\ LogoutAnswered(h))

-----------------------------------------------------------------------------
(* Properties                                                              *)

\* A token that was replaced by a later sign-in, or cleared by a logout, is never
\* accepted again, in whatever order the requests of several tabs are served
\* ("token has been replaced by a new login").
KickedStaysOut == jti \notin replaced

\* Who changes the credentials stays signed in: when the answer arrives, and its token
\* is still the current one, the browser holds a token the server accepts ("the backend
\* has returned the new token").
GuideKeepsSession ==
    [][\A h \in handlers : SetupDone(h) /\ Valid(h.token) => Valid(stored'.token)]_vars

\* A tab that is told 401 ends on the login page, or has been loaded anew by its
\* user meanwhile: none of the timers of guard, forms and logout keeps it away.
RefusedTabLeaves ==
    \A t \in Tabs :
        (\E c \in tab[t].calls : c.refused) ~> (tab[t].path = "login" \/ tab[t].check)

\* The spinner that hides the whole page while loading does not stay.
SpinnerEnds ==
    \A t \in Tabs :
        (tab[t].loading /\ tab[t].path # "elsewhere") ~>
            (~tab[t].loading \/ tab[t].path = "elsewhere")

\* A page that does not fit the user (a private one without, the login with one)
\* is left: the guard's timer, which every change starts anew, fires in the end.
PageFitsUser ==
    \A t \in Tabs :
        LET misfit == /\ ~tab[t].loading
                      /\ tab[t].path # "elsewhere"
                      /\ ~Shows(t)
        IN  misfit ~> ~misfit
=============================================================================
