------------------------- MODULE BrowserAuthProofs -------------------------
(***************************************************************************)
(* Proofs about BrowserAuth, for any tabs, tokens and numbers of requests. *)
(*                                                                         *)
(* A token is made in one step and becomes current in a later one, and     *)
(* other sign-ins, other browsers and logouts come in between.  That a     *)
(* token which was replaced never comes back rests on Pledged: a token     *)
(* still to be installed belongs to one request, was never current, and is *)
(* no other request's.                                                     *)
(***************************************************************************)
EXTENDS BrowserAuth, TLAPS

Pledged ==
    /\ jti # NoToken => jti \in issued
    /\ \A h \in handlers : h.pc = "issued" =>
            h.token \in issued /\ h.token \notin replaced /\ h.token # jti
    /\ \A g, h \in handlers :
            g.pc = "issued" /\ h.pc = "issued" /\ g.token = h.token => g = h

Inv == TypeOK /\ Pledged /\ KickedStaysOut

-----------------------------------------------------------------------------
(* Types                                                                   *)

\* A tab that is loaded.
LEMMA LoadedTypes ==
    ASSUME TypeOK, NEW p \in Paths, NEW k \in AnyToken
    PROVE  Loaded(p, k) \in TabState
<1>1. stored.user \in BOOLEAN
  BY DEF TypeOK
<1> QED
  BY <1>1 DEF Loaded, TabState

\* Other requests of a tab.
LEMMA CallsTypes ==
    ASSUME NEW x \in TabState, NEW S \in SUBSET [token : AnyToken, refused : BOOLEAN]
    PROVE  [x EXCEPT !.calls = S] \in TabState
  BY DEF TabState

LEMMA BecomesTypes ==
    ASSUME TypeOK, NEW t \in Tabs, NEW new \in TabState, Becomes(t, new)
    PROVE  tab' \in [Tabs -> TabState]
<1>1. [new EXCEPT !.guard = ~new.loading] \in TabState
  BY DEF TabState
<1>2. PICK x \in TabState : tab' = [tab EXCEPT ![t] = x]
  BY <1>1 DEF Becomes
<1> QED
  BY <1>2 DEF TypeOK

LEMMA MovesTypes ==
    ASSUME TypeOK, NEW h, NEW new \in Handler, Moves(h, new)
    PROVE  handlers' \subseteq Handler
  BY DEF Moves, TypeOK

LEMMA OrphanedTypes ==
    ASSUME TypeOK, NEW t \in Tabs, Orphaned(t)
    PROVE  handlers' \subseteq Handler
<1> SUFFICES ASSUME NEW g \in handlers'
             PROVE  g \in Handler
  OBVIOUS
<1>1. PICK h \in handlers : g = IF h.from = t THEN [h EXCEPT !.from = NoTab] ELSE h
  BY DEF Orphaned
<1>2. h \in Handler
  BY DEF TypeOK
<1> QED
  BY <1>1, <1>2 DEF Handler

LEMMA FreshIsNew ==
    ASSUME TypeOK, issued # Tokens
    PROVE  Fresh \in Tokens /\ Fresh \notin issued
<1>1. \E k \in Tokens : k \notin issued
  BY DEF TypeOK
<1> QED
  BY <1>1 DEF Fresh

-----------------------------------------------------------------------------
(* Steps that leave the tokens of the server alone                         *)

LEMMA Aside ==
    ASSUME Inv, TypeOK', UNCHANGED <<jti, issued, replaced>>,
           \A h \in handlers' : h.pc = "issued" =>
                \E g \in handlers : g.pc = "issued" /\ g.token = h.token,
           \A g, h \in handlers' :
                g.pc = "issued" /\ h.pc = "issued" /\ g.token = h.token => g = h
    PROVE  Inv'
<1>1. \A h \in handlers' : h.pc = "issued" =>
            h.token \in issued' /\ h.token \notin replaced' /\ h.token # jti'
  BY DEF Inv, Pledged
<1> QED
  BY <1>1 DEF Inv, Pledged, KickedStaysOut

\* Requests go, or come with nothing issued.
LEMMA AsideFewer ==
    ASSUME Inv, TypeOK', UNCHANGED <<jti, issued, replaced>>,
           \A h \in handlers' : h.pc = "issued" => h \in handlers
    PROVE  Inv'
  BY Aside DEF Inv, Pledged

\* The tab of a request is forgotten.
LEMMA AsideForgotten ==
    ASSUME Inv, TypeOK', UNCHANGED <<jti, issued, replaced>>,
           NEW h \in handlers, Moves(h, [h EXCEPT !.from = NoTab])
    PROVE  Inv'
<1> DEFINE new == [h EXCEPT !.from = NoTab]
<1>1. h \in Handler
  BY DEF Inv, TypeOK
<1>2. new.pc = h.pc /\ new.token = h.token
  BY <1>1 DEF Handler
<1>3. handlers' = (handlers \ {h}) \cup {new}
  BY DEF Moves
<1> HIDE DEF new
<1>4. \A g \in handlers' : g.pc = "issued" =>
            \E k \in handlers : k.pc = "issued" /\ k.token = g.token
  BY <1>2, <1>3
<1>5. \A g, k \in handlers' :
            g.pc = "issued" /\ k.pc = "issued" /\ g.token = k.token => g = k
  BY <1>2, <1>3 DEF Inv, Pledged
<1> QED
  BY <1>4, <1>5, Aside

LEMMA AsideOrphaned ==
    ASSUME Inv, TypeOK', UNCHANGED <<jti, issued, replaced>>, NEW t \in Tabs, Orphaned(t)
    PROVE  Inv'
<1> DEFINE f(h) == IF h.from = t THEN [h EXCEPT !.from = NoTab] ELSE h
<1>1. \A h \in handlers : f(h).pc = h.pc /\ f(h).token = h.token
  BY DEF Inv, TypeOK, Handler
<1>2. handlers' = {f(h) : h \in handlers}
  BY DEF Orphaned
<1> HIDE DEF f
<1>3. \A g \in handlers' : g.pc = "issued" =>
            \E k \in handlers : k.pc = "issued" /\ k.token = g.token
  BY <1>1, <1>2
<1>4. \A g, k \in handlers' :
            g.pc = "issued" /\ k.pc = "issued" /\ g.token = k.token => g = k
  BY <1>1, <1>2 DEF Inv, Pledged
<1> QED
  BY <1>3, <1>4, Aside

-----------------------------------------------------------------------------
LEMMA InitInv == Init => Inv
<1> SUFFICES ASSUME Init PROVE Inv
  OBVIOUS
<1>1. stored \in [token : AnyToken, user : BOOLEAN]
  BY DEF Init, Nothing, AnyToken
<1>2. \A p \in {"login", "private"} : Loaded(p, NoToken) \in TabState
  BY <1>1 DEF Loaded, TabState, Paths, AnyToken
<1>3. tab \in [Tabs -> TabState]
  BY <1>2 DEF Init
<1>4. TypeOK
  BY <1>1, <1>3 DEF Init, TypeOK, AnyToken
<1> QED
  BY <1>4 DEF Init, Inv, Pledged, KickedStaysOut

-----------------------------------------------------------------------------
(* The server                                                              *)

LEMMA AuthorizeInv ==
    ASSUME Inv, NEW h \in handlers, Authorize(h)
    PROVE  Inv'
<1> DEFINE new == [h EXCEPT !.pc = IF Valid(h.token) THEN "checked" ELSE "refused"]
<1>1. h \in Handler
  BY DEF Inv, TypeOK
<1>2. new \in Handler /\ new.pc # "issued"
  BY <1>1 DEF Handler
<1>3. Moves(h, new) /\ UNCHANGED <<jti, issued, expired, replaced, stored, tab>>
  BY DEF Authorize, server
<1>4. TypeOK'
  BY <1>2, <1>3, MovesTypes DEF Inv, TypeOK
<1>5. \A g \in handlers' : g.pc = "issued" => g \in handlers
  BY <1>2, <1>3 DEF Moves
<1> QED
  BY <1>3, <1>4, <1>5, AsideFewer

\* The new token is no one's.
LEMMA GenerateInv ==
    ASSUME Inv, NEW h \in handlers, Generate(h)
    PROVE  Inv'
<1> DEFINE new == [h EXCEPT !.pc = "issued", !.token = Fresh]
<1>1. h \in Handler
  BY DEF Inv, TypeOK
<1>2. Fresh \in Tokens /\ Fresh \notin issued
  BY FreshIsNew DEF Inv, Generate
<1>3. new \in Handler /\ new.token = Fresh
  BY <1>1, <1>2 DEF Handler, AnyToken
<1>4. /\ issued' = issued \cup {Fresh} /\ handlers' = (handlers \ {h}) \cup {new}
      /\ UNCHANGED <<jti, expired, replaced, stored, tab>>
  BY DEF Generate, Moves
<1> HIDE DEF new
<1>5. TypeOK'
  BY <1>2, <1>3, <1>4 DEF Inv, TypeOK
<1>6. Fresh \notin replaced /\ Fresh # jti
  BY <1>2, NilAssumption DEF Inv, TypeOK, Pledged
<1>7. \A g \in handlers' : g.pc = "issued" =>
            g.token \in issued' /\ g.token \notin replaced' /\ g.token # jti'
  BY <1>3, <1>4, <1>6 DEF Inv, Pledged
<1>8. \A g, k \in handlers' :
            g.pc = "issued" /\ k.pc = "issued" /\ g.token = k.token => g = k
  <2>1. \A g \in handlers : g.pc = "issued" => g.token # Fresh
    BY <1>2 DEF Inv, Pledged
  <2> QED
    BY <1>3, <1>4, <2>1 DEF Inv, Pledged
<1> QED
  BY <1>4, <1>5, <1>7, <1>8 DEF Inv, Pledged, KickedStaysOut

\* What becomes of the tokens when another one, or none, becomes current.
LEMMA SetCurrentDoes ==
    ASSUME Inv, NEW k \in AnyToken, k \notin replaced, k # jti \/ k = NoToken,
           k # NoToken => k \in issued, SetCurrent(k)
    PROVE  /\ jti' \in AnyToken /\ jti' \notin replaced' /\ replaced' \subseteq issued'
           /\ jti' # NoToken => jti' \in issued'
           /\ replaced' \subseteq replaced \cup {jti}
           /\ UNCHANGED <<issued, expired>> /\ jti' = k
  BY NilAssumption DEF SetCurrent, Inv, TypeOK, Pledged, AnyToken

LEMMA InstallInv ==
    ASSUME Inv, NEW h \in handlers, Install(h)
    PROVE  Inv'
<1> DEFINE new == [h EXCEPT !.pc = "done"]
<1>1. h \in Handler /\ h.pc = "issued"
  BY DEF Inv, TypeOK, Install
<1>2. new \in Handler /\ new.pc # "issued"
  BY <1>1 DEF Handler
<1>3. /\ SetCurrent(h.token) /\ handlers' = (handlers \ {h}) \cup {new}
      /\ UNCHANGED <<stored, tab>>
  BY DEF Install, Moves
<1> HIDE DEF new
<1>4. /\ h.token \in AnyToken /\ h.token \notin replaced /\ h.token # jti
      /\ h.token \in issued
  BY <1>1 DEF Inv, Pledged, Handler
<1>5. /\ jti' \in AnyToken /\ jti' \notin replaced' /\ replaced' \subseteq issued'
      /\ jti' # NoToken => jti' \in issued'
      /\ replaced' \subseteq replaced \cup {jti}
      /\ UNCHANGED <<issued, expired>> /\ jti' = h.token
  BY <1>3, <1>4, SetCurrentDoes
<1>6. TypeOK'
  BY <1>2, <1>3, <1>5 DEF Inv, TypeOK
<1>7. \A g \in handlers' : g.pc = "issued" => g \in handlers /\ g # h
  BY <1>2, <1>3
<1>8. \A g \in handlers' : g.pc = "issued" =>
            g.token \in issued' /\ g.token \notin replaced' /\ g.token # jti'
  BY <1>1, <1>5, <1>7 DEF Inv, Pledged
<1> QED
  BY <1>5, <1>6, <1>7, <1>8 DEF Inv, Pledged, KickedStaysOut

LEMMA ClearInv ==
    ASSUME Inv, NEW h \in handlers, Clear(h)
    PROVE  Inv'
<1> DEFINE new == [h EXCEPT !.pc = "done"]
<1>1. h \in Handler
  BY DEF Inv, TypeOK
<1>2. new \in Handler /\ new.pc # "issued"
  BY <1>1 DEF Handler
<1>3. /\ SetCurrent(NoToken) /\ handlers' = (handlers \ {h}) \cup {new}
      /\ UNCHANGED <<stored, tab>>
  BY DEF Clear, Moves
<1> HIDE DEF new
<1>4. NoToken \in AnyToken /\ NoToken \notin replaced
  BY NilAssumption DEF Inv, TypeOK, AnyToken
<1>5. /\ jti' \in AnyToken /\ jti' \notin replaced' /\ replaced' \subseteq issued'
      /\ jti' # NoToken => jti' \in issued'
      /\ replaced' \subseteq replaced \cup {jti}
      /\ UNCHANGED <<issued, expired>> /\ jti' = NoToken
  BY <1>3, <1>4, SetCurrentDoes
<1>6. TypeOK'
  BY <1>2, <1>3, <1>5 DEF Inv, TypeOK
<1>7. \A g \in handlers' : g.pc = "issued" => g \in handlers
  BY <1>2, <1>3
<1>8. \A g \in handlers' : g.pc = "issued" =>
            g.token \in issued' /\ g.token \notin replaced' /\ g.token # jti'
  BY <1>5, <1>7, NilAssumption DEF Inv, TypeOK, Pledged
<1> QED
  BY <1>5, <1>6, <1>7, <1>8 DEF Inv, Pledged, KickedStaysOut

LEMMA ExpireInv ==
    ASSUME Inv, NEW k \in Tokens, Expire(k)
    PROVE  Inv'
<1>1. TypeOK'
  BY DEF Inv, TypeOK, Expire
<1> QED
  BY <1>1, AsideFewer DEF Expire

LEMMA OtherBrowserInv ==
    ASSUME Inv, OtherBrowser
    PROVE  Inv'
<1>1. Fresh \in Tokens /\ Fresh \notin issued
  BY FreshIsNew DEF Inv, OtherBrowser
<1>2. /\ issued' = issued \cup {Fresh} /\ jti' = Fresh
      /\ replaced' \subseteq replaced \cup ({jti} \cap issued)
      /\ UNCHANGED <<expired, handlers, stored, tab>>
  BY DEF OtherBrowser, Inv, Pledged
<1>3. TypeOK'
  BY <1>1, <1>2 DEF Inv, TypeOK, AnyToken
<1>4. jti' \notin replaced' /\ jti' \in issued'
  BY <1>1, <1>2 DEF Inv, TypeOK
<1>5. \A g \in handlers' : g.pc = "issued" =>
            g.token \in issued' /\ g.token \notin replaced' /\ g.token # jti'
  BY <1>1, <1>2 DEF Inv, Pledged
<1> QED
  BY <1>2, <1>3, <1>4, <1>5 DEF Inv, Pledged, KickedStaysOut

-----------------------------------------------------------------------------
(* The tabs                                                                *)

Stored == [token : AnyToken, user : BOOLEAN]

\* What a step of a tab has to show about types.
LEMMA TabStepTypes ==
    ASSUME Inv, UNCHANGED server, handlers' \subseteq Handler, stored' \in Stored,
           tab' \in [Tabs -> TabState]
    PROVE  TypeOK'
  BY DEF Inv, TypeOK, server, Stored

LEMMA StoredTypes ==
    ASSUME TypeOK
    PROVE  stored \in Stored /\ Nothing \in Stored
  BY DEF TypeOK, Stored, Nothing, AnyToken

\* A step that changes the tab alone, or the tab and the storage.
LEMMA TabOnly ==
    ASSUME Inv, NEW t \in Tabs, NEW new \in TabState, Becomes(t, new),
           UNCHANGED <<server, handlers>>, stored' \in Stored
    PROVE  Inv'
<1>1. TypeOK'
  BY BecomesTypes, TabStepTypes DEF Inv, TypeOK
<1> QED
  BY <1>1, AsideFewer DEF server

\* A step of a tab in which a request goes, or one comes with nothing issued.
LEMMA TabAndRequest ==
    ASSUME Inv, UNCHANGED server, tab' \in [Tabs -> TabState], stored' \in Stored,
           handlers' \subseteq Handler,
           \A h \in handlers' : h.pc = "issued" => h \in handlers
    PROVE  Inv'
<1>1. TypeOK'
  BY TabStepTypes
<1> QED
  BY <1>1, AsideFewer DEF server

\* A step of a tab that forgets its request, which goes on.
LEMMA TabForgets ==
    ASSUME Inv, UNCHANGED server, tab' \in [Tabs -> TabState], stored' \in Stored,
           NEW h \in handlers, Moves(h, [h EXCEPT !.from = NoTab])
    PROVE  Inv'
<1>1. h \in Handler
  BY DEF Inv, TypeOK
<1>2. [h EXCEPT !.from = NoTab] \in Handler
  BY <1>1 DEF Handler
<1>3. TypeOK'
  BY <1>2, MovesTypes, TabStepTypes DEF Inv
<1> QED
  BY <1>3, AsideForgotten DEF server

\* A form that is sent.
LEMMA AsksFacts ==
    ASSUME Inv, NEW t \in Tabs, NEW op \in {"login", "oauth", "setup", "logout"},
           NEW k \in AnyToken, Asks(t, op, k)
    PROVE  /\ handlers' \subseteq Handler
           /\ \A h \in handlers' : h.pc = "issued" => h \in handlers
<1> DEFINE new == [op |-> op, from |-> t, pc |-> "arrived", token |-> k]
<1>1. new \in Handler /\ new.pc # "issued"
  BY DEF Handler
<1>2. handlers' = handlers \cup {new}
  BY DEF Asks
<1> HIDE DEF new
<1> QED
  BY <1>1, <1>2 DEF Inv, TypeOK

\* A tab that is loaded again.
LEMMA Reloaded ==
    ASSUME Inv, NEW t \in Tabs, NEW p \in Paths,
           tab' = [tab EXCEPT ![t] = Loaded(p, NoToken)], Orphaned(t),
           UNCHANGED <<server, stored>>
    PROVE  Inv'
<1>1. Loaded(p, NoToken) \in TabState
  BY LoadedTypes DEF Inv, AnyToken
<1>2. tab' \in [Tabs -> TabState]
  BY <1>1 DEF Inv, TypeOK
<1>3. TypeOK'
  BY <1>2, OrphanedTypes, StoredTypes, TabStepTypes DEF Inv
<1> QED
  BY <1>3, AsideOrphaned DEF server

-----------------------------------------------------------------------------
(* Their actions                                                           *)

LEMMA CallInv ==
    ASSUME Inv, NEW t \in Tabs, Call(t)
    PROVE  Inv'
<1> DEFINE new == [tab[t] EXCEPT !.calls = @ \cup {[token |-> stored.token, refused |-> FALSE]}]
<1>1. tab[t] \in TabState /\ stored.token \in AnyToken
  BY DEF Inv, TypeOK
<1>2. [token |-> stored.token, refused |-> FALSE] \in [token : AnyToken, refused : BOOLEAN]
  BY <1>1
<1>3. tab[t].calls \in SUBSET [token : AnyToken, refused : BOOLEAN]
  BY <1>1 DEF TabState
<1>4. new \in TabState
  BY <1>1, <1>2, <1>3, CallsTypes
<1>5. Becomes(t, new) /\ UNCHANGED <<server, handlers, stored>>
  BY DEF Call
<1> QED
  BY <1>4, <1>5, TabOnly, StoredTypes DEF Inv

LEMMA CallServedInv ==
    ASSUME Inv, NEW t \in Tabs, CallServed(t)
    PROVE  Inv'
<1> DEFINE new(c) == [tab[t] EXCEPT !.calls =
                        IF Valid(c.token) THEN tab[t].calls \ {c}
                        ELSE (tab[t].calls \ {c}) \cup {[c EXCEPT !.refused = TRUE]}]
<1>1. PICK c \in tab[t].calls :
        Becomes(t, new(c)) /\ UNCHANGED <<server, handlers, stored>>
  BY DEF CallServed
<1>2. tab[t] \in TabState
  BY DEF Inv, TypeOK
<1>3. c \in [token : AnyToken, refused : BOOLEAN]
  BY <1>2 DEF TabState
<1>4. [c EXCEPT !.refused = TRUE] \in [token : AnyToken, refused : BOOLEAN]
  BY <1>3
<1>5. new(c) \in TabState
  BY <1>2, <1>4 DEF TabState
<1> QED
  BY <1>1, <1>5, TabOnly, StoredTypes DEF Inv

LEMMA CallRefusedInv ==
    ASSUME Inv, NEW t \in Tabs, CallRefused(t)
    PROVE  Inv'
<1> DEFINE new(c) == [tab[t] EXCEPT !.calls = @ \ {c}, !.reload = TRUE]
<1>1. PICK c \in tab[t].calls :
        Becomes(t, new(c)) /\ stored' = Nothing /\ UNCHANGED <<server, handlers>>
  BY DEF CallRefused, Intercept
<1>2. tab[t] \in TabState
  BY DEF Inv, TypeOK
<1>3. /\ [tab[t] EXCEPT !.calls = @ \ {c}] \in TabState
      /\ new(c) = [[tab[t] EXCEPT !.calls = @ \ {c}] EXCEPT !.reload = TRUE]
  BY <1>2, CallsTypes DEF TabState
<1>4. new(c) \in TabState
  BY <1>3 DEF TabState
<1> QED
  BY <1>1, <1>4, TabOnly, StoredTypes DEF Inv

LEMMA SubmitLoginInv ==
    ASSUME Inv, NEW t \in Tabs, SubmitLogin(t)
    PROVE  Inv'
<1>1. [tab[t] EXCEPT !.waiting = TRUE] \in TabState
  BY DEF Inv, TypeOK, TabState
<1>2. tab' \in [Tabs -> TabState]
  BY <1>1, BecomesTypes DEF SubmitLogin, Inv
<1>3. NoToken \in AnyToken
  BY DEF AnyToken
<1>4. /\ handlers' \subseteq Handler
      /\ \A h \in handlers' : h.pc = "issued" => h \in handlers
  BY <1>3, AsksFacts DEF SubmitLogin
<1> QED
  BY <1>2, <1>4, TabAndRequest, StoredTypes DEF SubmitLogin, Inv

LEMMA GoToProviderInv ==
    ASSUME Inv, NEW t \in Tabs, GoToProvider(t)
    PROVE  Inv'
<1>1. NoToken \in AnyToken /\ "elsewhere" \in Paths
  BY DEF AnyToken, Paths
<1>2. Loaded("elsewhere", NoToken) \in TabState
  BY <1>1, LoadedTypes DEF Inv
<1>3. [Loaded("elsewhere", NoToken) EXCEPT !.check = FALSE] \in TabState
  BY <1>2 DEF TabState
<1>4. tab' \in [Tabs -> TabState]
  BY <1>3 DEF GoToProvider, Inv, TypeOK
<1>5. /\ handlers' \subseteq Handler
      /\ \A h \in handlers' : h.pc = "issued" => h \in handlers
  BY <1>1, AsksFacts DEF GoToProvider
<1> QED
  BY <1>4, <1>5, TabAndRequest, StoredTypes DEF GoToProvider, Inv

LEMMA SubmitSetupInv ==
    ASSUME Inv, NEW t \in Tabs, SubmitSetup(t)
    PROVE  Inv'
<1>1. /\ tab[t] \in TabState /\ stored.token \in AnyToken
      /\ UNCHANGED <<server, stored>> /\ stored' \in Stored
  BY StoredTypes DEF Inv, TypeOK, SubmitSetup
<1>2. CASE stored.token = NoToken
  <2>1. [tab[t] EXCEPT !.path = "login"] \in TabState
    BY <1>1 DEF TabState, Paths
  <2> QED
    BY <1>1, <1>2, <2>1, TabOnly DEF SubmitSetup
<1>3. CASE stored.token # NoToken
  <2>1. [tab[t] EXCEPT !.waiting = TRUE] \in TabState
    BY <1>1 DEF TabState
  <2>2. tab' \in [Tabs -> TabState]
    BY <1>3, <2>1, BecomesTypes DEF SubmitSetup, Inv
  <2>3. /\ handlers' \subseteq Handler
        /\ \A h \in handlers' : h.pc = "issued" => h \in handlers
    BY <1>1, <1>3, AsksFacts DEF SubmitSetup
  <2> QED
    BY <1>1, <2>2, <2>3, TabAndRequest
<1> QED
  BY <1>2, <1>3

LEMMA LogoutInv ==
    ASSUME Inv, NEW t \in Tabs, Logout(t)
    PROVE  Inv'
<1>1. [tab[t] EXCEPT !.loading = TRUE, !.waiting = TRUE] \in TabState
  BY DEF Inv, TypeOK, TabState
<1>2. tab' \in [Tabs -> TabState]
  BY <1>1, BecomesTypes DEF Logout, Inv
<1>3. stored.token \in AnyToken
  BY DEF Inv, TypeOK
<1>4. /\ handlers' \subseteq Handler
      /\ \A h \in handlers' : h.pc = "issued" => h \in handlers
  BY <1>3, AsksFacts DEF Logout
<1> QED
  BY <1>2, <1>4, TabAndRequest, StoredTypes DEF Logout, Inv

LEMMA SignedInInv ==
    ASSUME Inv, NEW h \in handlers, SignedIn(h)
    PROVE  Inv'
<1>1. /\ h \in Handler /\ h.from \in Tabs /\ h.token \in AnyToken
      /\ handlers' = handlers \ {h} /\ UNCHANGED server
  BY DEF SignedIn, Inv, TypeOK, Handler
<1>2. tab[h.from] \in TabState
  BY <1>1 DEF Inv, TypeOK
<1>3. CASE h.op = "oauth"
  <2>1. Loaded("oauth", h.token) \in TabState
    BY <1>1, LoadedTypes DEF Inv, Paths
  <2>2. tab' \in [Tabs -> TabState] /\ stored' \in Stored
    BY <1>1, <1>3, <2>1, StoredTypes DEF SignedIn, Inv, TypeOK
  <2> QED
    BY <1>1, <2>2, TabAndRequest DEF Inv, TypeOK
<1>4. CASE h.op # "oauth"
  <2>1. PICK next \in {"setup", "private"} :
          Becomes(h.from, [tab[h.from] EXCEPT !.waiting = FALSE,
                           !.user = TRUE, !.goto = @ \cup {next}])
    BY <1>4 DEF SignedIn
  <2>2. [tab[h.from] EXCEPT !.waiting = FALSE,
                           !.user = TRUE, !.goto = @ \cup {next}] \in TabState
    BY <1>2 DEF TabState
  <2>3. stored' \in Stored
    <3>1. stored' = [token |-> h.token, user |-> TRUE]
      BY <1>4 DEF SignedIn
    <3> QED
      BY <1>1, <3>1 DEF Stored
  <2>4. tab' \in [Tabs -> TabState]
    BY <1>1, <2>1, <2>2, BecomesTypes DEF Inv
  <2> QED
    BY <1>1, <2>3, <2>4, TabAndRequest DEF Inv, TypeOK
<1> QED
  BY <1>3, <1>4

LEMMA SetupDoneInv ==
    ASSUME Inv, NEW h \in handlers, SetupDone(h)
    PROVE  Inv'
<1>1. /\ h \in Handler /\ h.from \in Tabs /\ UNCHANGED <<server, stored>>
      /\ handlers' = handlers \ {h}
      /\ Becomes(h.from, [tab[h.from] EXCEPT !.waiting = FALSE])
  BY DEF SetupDone, Inv, TypeOK, Handler
<1>2. [tab[h.from] EXCEPT !.waiting = FALSE] \in TabState
  <2>1. tab[h.from] \in TabState
    BY <1>1 DEF Inv, TypeOK
  <2> QED
    BY <2>1 DEF TabState
<1>3. tab' \in [Tabs -> TabState] /\ stored' \in Stored
  BY <1>1, <1>2, BecomesTypes, StoredTypes DEF Inv
<1> QED
  BY <1>1, <1>3, TabAndRequest DEF Inv, TypeOK

LEMMA FormFailsInv ==
    ASSUME Inv, NEW h \in handlers, FormFails(h)
    PROVE  Inv'
<1>1. /\ h \in Handler /\ h.from \in Tabs /\ UNCHANGED <<server, stored>>
      /\ Becomes(h.from, [tab[h.from] EXCEPT !.waiting = FALSE])
  BY DEF FormFails, Inv, TypeOK, Handler
<1>2. [tab[h.from] EXCEPT !.waiting = FALSE] \in TabState
  <2>1. tab[h.from] \in TabState
    BY <1>1 DEF Inv, TypeOK
  <2> QED
    BY <2>1 DEF TabState
<1>3. tab' \in [Tabs -> TabState] /\ stored' \in Stored
  BY <1>1, <1>2, BecomesTypes, StoredTypes DEF Inv
<1>4. CASE handlers' = handlers \ {h}
  BY <1>1, <1>3, <1>4, TabAndRequest DEF Inv, TypeOK
<1>5. CASE Moves(h, [h EXCEPT !.from = NoTab])
  BY <1>1, <1>3, <1>5, TabForgets
<1> QED
  BY <1>4, <1>5 DEF FormFails

LEMMA OAuthFailsInv ==
    ASSUME Inv, NEW h \in handlers, OAuthFails(h)
    PROVE  Inv'
<1>1. Loaded("error", NoToken) \in TabState
  BY LoadedTypes DEF Inv, Paths, AnyToken
<1>2. tab' \in [Tabs -> TabState]
  BY <1>1 DEF OAuthFails, Inv, TypeOK
<1> QED
  BY <1>2, TabAndRequest, StoredTypes DEF OAuthFails, Inv, TypeOK

LEMMA SetupRefusedInv ==
    ASSUME Inv, NEW h \in handlers, SetupRefused(h)
    PROVE  Inv'
<1> DEFINE new == [tab[h.from] EXCEPT !.waiting = FALSE, !.reload = TRUE]
<1>1. /\ h.from \in Tabs /\ UNCHANGED server /\ handlers' = handlers \ {h}
      /\ stored' = Nothing /\ Becomes(h.from, new)
  BY DEF SetupRefused, Intercept, Inv, TypeOK, Handler
<1>2. new \in TabState
  <2>1. tab[h.from] \in TabState
    BY <1>1 DEF Inv, TypeOK
  <2> QED
    BY <2>1 DEF TabState
<1>3. tab' \in [Tabs -> TabState] /\ stored' \in Stored
  BY <1>1, <1>2, BecomesTypes, StoredTypes DEF Inv
<1> QED
  BY <1>1, <1>3, TabAndRequest DEF Inv, TypeOK

LEMMA LogoutAnsweredInv ==
    ASSUME Inv, NEW h \in handlers, LogoutAnswered(h)
    PROVE  Inv'
<1> DEFINE new == [tab[h.from] EXCEPT !.waiting = FALSE, !.user = FALSE,
                        !.leaving = TRUE, !.reload = @ \/ h.pc = "refused"]
<1>1. /\ h.from \in Tabs /\ UNCHANGED server
      /\ stored' = Nothing /\ Becomes(h.from, new)
  BY DEF LogoutAnswered, Inv, TypeOK, Handler
<1>2. new \in TabState
  <2>1. tab[h.from] \in TabState
    BY <1>1 DEF Inv, TypeOK
  <2> QED
    BY <2>1 DEF TabState
<1>3. tab' \in [Tabs -> TabState] /\ stored' \in Stored
  BY <1>1, <1>2, BecomesTypes, StoredTypes DEF Inv
<1>4. CASE handlers' = handlers \ {h}
  BY <1>1, <1>3, <1>4, TabAndRequest DEF Inv, TypeOK
<1>5. CASE Moves(h, [h EXCEPT !.from = NoTab])
  BY <1>1, <1>3, <1>5, TabForgets
<1> QED
  BY <1>4, <1>5 DEF LogoutAnswered

LEMMA UnheardInv ==
    ASSUME Inv, NEW h \in handlers, Unheard(h)
    PROVE  Inv'
  BY TabAndRequest, StoredTypes DEF Unheard, Inv, TypeOK

-----------------------------------------------------------------------------
(* Their timers                                                            *)

LEMMA CheckAuthInv ==
    ASSUME Inv, NEW t \in Tabs, CheckAuth(t)
    PROVE  Inv'
<1> DEFINE kept == stored.token # NoToken /\ stored.token \notin expired
           saves == tab[t].path = "oauth" /\ ~(kept /\ (tab[t].user \/ stored.user))
           seen == [tab[t] EXCEPT !.check = FALSE, !.loading = FALSE]
           given == [seen EXCEPT !.user = TRUE, !.goto = {"private"}]
           found == [seen EXCEPT !.user = kept /\ (@ \/ stored.user),
                                 !.path = IF saves THEN "login" ELSE @]
<1>1. /\ UNCHANGED <<server, handlers>>
      /\ \/ stored' = [token |-> tab[t].given, user |-> TRUE] /\ Becomes(t, given)
         \/ stored' \in {stored, Nothing} /\ Becomes(t, found)
  BY DEF CheckAuth
<1>2. tab[t] \in TabState /\ stored.user \in BOOLEAN
  BY DEF Inv, TypeOK
<1>3. kept \in BOOLEAN /\ saves \in BOOLEAN
  OBVIOUS
<1> HIDE DEF kept, saves
<1>4. seen \in TabState /\ tab[t].given \in AnyToken
  BY <1>2 DEF TabState
<1> HIDE DEF seen
<1>5. given \in TabState
  BY <1>4 DEF TabState
<1>6. seen.user \in BOOLEAN /\ seen.path \in Paths
  BY <1>4 DEF TabState
<1>7. /\ (kept /\ (seen.user \/ stored.user)) \in BOOLEAN
      /\ (IF saves THEN "login" ELSE seen.path) \in Paths
  BY <1>6 DEF Paths
<1>8. found \in TabState
  BY <1>4, <1>7 DEF TabState
<1> HIDE DEF given, found
<1>9. [token |-> tab[t].given, user |-> TRUE] \in Stored
  BY <1>4 DEF Stored
<1> QED
  BY <1>1, <1>5, <1>8, <1>9, TabOnly, StoredTypes DEF Inv

LEMMA GuardFiresInv ==
    ASSUME Inv, NEW t \in Tabs, GuardFires(t)
    PROVE  Inv'
<1>1. tab[t] \in TabState
  BY DEF Inv, TypeOK
<1>2. PICK next \in {"login", "private", tab[t].path} :
        Becomes(t, [tab[t] EXCEPT !.guard = FALSE, !.path = next])
  BY DEF GuardFires
<1>3. next \in Paths
  BY <1>1 DEF TabState, Paths
<1>4. [tab[t] EXCEPT !.guard = FALSE, !.path = next] \in TabState
  BY <1>1, <1>3 DEF TabState
<1> QED
  BY <1>2, <1>4, TabOnly, StoredTypes DEF GuardFires, Inv

LEMMA GotoFiresInv ==
    ASSUME Inv, NEW t \in Tabs, GotoFires(t)
    PROVE  Inv'
<1>1. tab[t] \in TabState
  BY DEF Inv, TypeOK
<1>2. PICK next \in tab[t].goto :
        /\ Becomes(t, [tab[t] EXCEPT !.goto = @ \ {next}, !.path = next])
        /\ UNCHANGED <<server, handlers, stored>>
  BY DEF GotoFires
<1>3. /\ next \in Paths
      /\ tab[t].goto \ {next} \in SUBSET {"setup", "private"}
  BY <1>1 DEF TabState, Paths
<1>4. [tab[t] EXCEPT !.goto = @ \ {next}, !.path = next] \in TabState
  BY <1>1, <1>3 DEF TabState
<1> QED
  BY <1>2, <1>4, TabOnly, StoredTypes DEF Inv

LEMMA LeaveFiresInv ==
    ASSUME Inv, NEW t \in Tabs, LeaveFires(t)
    PROVE  Inv'
<1>1. tab[t] \in TabState
  BY DEF Inv, TypeOK
<1>2. [tab[t] EXCEPT !.leaving = FALSE, !.loading = FALSE, !.path = "login"] \in TabState
  BY <1>1 DEF TabState, Paths
<1> QED
  BY <1>2, TabOnly, StoredTypes DEF LeaveFires, Inv

LEMMA ReloadFiresInv ==
    ASSUME Inv, NEW t \in Tabs, ReloadFires(t)
    PROVE  Inv'
<1>1. tab[t] \in TabState
  BY DEF Inv, TypeOK
<1>2. CASE tab[t].path = "login"
  <2>1. [tab[t] EXCEPT !.reload = FALSE] \in TabState
    BY <1>1 DEF TabState
  <2> QED
    BY <1>2, <2>1, TabOnly, StoredTypes DEF ReloadFires, Inv
<1>3. CASE tab[t].path # "login"
  BY <1>3, Reloaded DEF ReloadFires, Paths
<1> QED
  BY <1>2, <1>3

LEMMA LoadInv ==
    ASSUME Inv, NEW t \in Tabs, Load(t)
    PROVE  Inv'
  BY Reloaded DEF Load, Paths

-----------------------------------------------------------------------------
LEMMA StepInv == Inv /\ [Next]_vars => Inv'
<1> SUFFICES ASSUME Inv, [Next]_vars PROVE Inv'
  OBVIOUS
<1>1. CASE \E h \in handlers : Serve(h)
  BY <1>1, AuthorizeInv, GenerateInv, InstallInv, ClearInv DEF Serve
<1>2. CASE \E h \in handlers : Answer(h)
  BY <1>2, SignedInInv, SetupDoneInv, FormFailsInv, OAuthFailsInv, SetupRefusedInv, LogoutAnsweredInv,
     UnheardInv DEF Answer
<1>3. CASE \E t \in Tabs : User(t)
  BY <1>3, CallInv, SubmitLoginInv, GoToProviderInv, SubmitSetupInv, LogoutInv, LoadInv
     DEF User
<1>4. CASE \E t \in Tabs : Timer(t)
  BY <1>4, CheckAuthInv, GuardFiresInv, GotoFiresInv, LeaveFiresInv, ReloadFiresInv DEF Timer
<1>5. CASE \E t \in Tabs : CallServed(t) \/ CallRefused(t)
  BY <1>5, CallServedInv, CallRefusedInv
<1>6. CASE (\E k \in Tokens : Expire(k)) \/ OtherBrowser
  BY <1>6, ExpireInv, OtherBrowserInv
<1>7. CASE UNCHANGED vars
  BY <1>7, AsideFewer DEF vars, Inv, TypeOK
<1> QED
  BY <1>1, <1>2, <1>3, <1>4, <1>5, <1>6, <1>7 DEF Next

LEMMA Invariance == Spec => []Inv
  BY InitInv, StepInv, PTL DEF Spec

\* The state of browser and server stays well-typed: what GenerateToken has not
\* issued never expires and is never replaced, for any number of tabs and requests.
THEOREM TypeCorrect == Spec => []TypeOK
<1>1. Inv => TypeOK
  BY DEF Inv
<1> QED
  BY <1>1, Invariance, PTL

\* A token that a later sign-in replaced, or a logout cleared, never becomes the
\* current one again, although SetCurrentJTI follows GenerateToken in a step of
\* its own and other sign-ins come in between.
THEOREM KickedStaysOutAlways == Spec => []KickedStaysOut
<1>1. Inv => KickedStaysOut
  BY DEF Inv
<1> QED
  BY <1>1, Invariance, PTL
=============================================================================
