---------------------------- MODULE AccountForms ----------------------------
(***************************************************************************)
(* The forms in front of the program: the sign-in (pages/login) and the    *)
(* guide through the first configuration (pages/setup-guide).  What they   *)
(* do to token, user and route is BrowserAuth's, what the guide's first    *)
(* step does to theme and language is Preferences'.                        *)
(*                                                                         *)
(* Abstracted: a new password that is too short or the default one counts  *)
(* as blank, and so does a confirmation that differs from it.              *)
(***************************************************************************)
EXTENDS Forms

AccountFields == {"username", "password", "confirm"}

-----------------------------------------------------------------------------
(* "login"                                                                 *)

Bindings == {"none", "github", "cloudflare"}

\* fetchCurrentProvider is asked for without a spinner.
LoginStart ==
    [FormOf("login", [bound |-> "none", shut |-> FALSE])
        EXCEPT !.open = TRUE, !.asked = <<NoId>>]

\* The form of name and password; systemError hides it in cases that isLoginDisabled
\* hides it in anyway.
LoginShown == Named("login") /\ ~form.pick.shut

\* The answer may come at any time and take the form away under the user's hands; when
\* it fails, the form stays.
LoginHeard(i) ==
    /\ Named("login")
    /\ \/ Loaded(form, i)
       \/ \E b \in Bindings, s \in BOOLEAN :
             Loaded([form EXCEPT !.pick = [bound |-> b, shut |-> s]], i)

LoginTypes == LoginShown /\ Types({"username", "password"})

\* handleSubmit looks at no flag, and the button only at the fields.
LoginSubmits ==
    /\ LoginShown
    /\ {"username", "password"} \subseteq form.filled
    /\ Sends(Request(NoId, {"username", "password"}))

\* The page that a success goes on to is entered 200 ms later; until then the form is
\* what it is after a failure.
LoginSettled(i) == Named("login") /\ Settled(form, i)

-----------------------------------------------------------------------------
(* "guide": three steps                                                    *)

Modes == {"privacy", "experimental"}

GuideStart == [FormOf("guide", [step |-> 1, modes |-> {"privacy"}]) EXCEPT !.open = TRUE]

GuideAt(n) == Named("guide") /\ form.pick.step = n

GuideTypes == GuideAt(2) /\ Types(AccountFields)

GuideTurns(n) == form' = [form EXCEPT !.pick.step = n]

\* handleNext validates the second step.
GuideNext ==
    /\ Named("guide") /\ form.pick.step < 3
    /\ form.pick.step = 2 => AccountFields \subseteq form.filled
    /\ GuideTurns(form.pick.step + 1)

\* handleBack, also while the submission is under way.
GuideBack == Named("guide") /\ form.pick.step > 1 /\ GuideTurns(form.pick.step - 1)

GuideModes ==
    /\ GuideAt(3)
    /\ \E m \in Modes :
          form' = [form EXCEPT !.pick.modes = IF m \in @ THEN @ \ {m} ELSE @ \cup {m}]

\* handleSubmit sends what the second step has validated; the modes are not sent.
GuideSubmits ==
    /\ GuideAt(3) /\ ~form.busy
    /\ Sends(Request(NoId, {"username", "password"} \cap form.filled))

\* Whatever the answer is, the guide stays and shows an error: see BrowserAuth.
GuideSettled(i) == Named("guide") /\ Settled(form, i)

-----------------------------------------------------------------------------
AccountFormsOf(route) == IF route = "dashboard" THEN {LoginStart, GuideStart} ELSE {}

AccountFormNames == {"login", "guide"}

AccountFormsTypeOK ==
    form.name \in AccountFormNames =>
        /\ IsForm(form, AccountFields)
        /\ Named("login") => form.pick \in [bound : Bindings, shut : BOOLEAN]
        /\ Named("guide") => form.pick \in [step : 1..3, modes : SUBSET Modes]

AccountFormsNext ==
    \/ LoginTypes \/ LoginSubmits
    \/ GuideTypes \/ GuideNext \/ GuideBack \/ GuideModes \/ GuideSubmits
    \/ \E i \in DOMAIN form.asked : LoginHeard(i)
    \/ \E i \in DOMAIN form.sent : LoginSettled(i) \/ GuideSettled(i)

-----------------------------------------------------------------------------
\* Credentials are sent with both parts, also when the fields were emptied on the way
\* back and the steps taken again while an earlier submission was under way.
AccountRequestsComplete ==
    form.name \in AccountFormNames =>
        \A i \in DOMAIN form.sent : form.sent[i].has = {"username", "password"}

\* Nobody signs in by a form that the server's answer has taken away.
AccountSubmitsShown(r) == Named("login") => ~form.pick.shut
=============================================================================
