-------------------------------- MODULE Forms -------------------------------
(***************************************************************************)
(* What the forms and dialogs of the frontend have in common.  Most are    *)
(* part of their page and only hidden while they are closed: what was      *)
(* typed, the flag of the button and the requests outlive the closing, and *)
(* an answer finds the form as it is then: closed, open again, or open for *)
(* another object.  Some are unmounted by their page, or with the dialog   *)
(* they are nested in.  Nothing of them is left then but the submissions   *)
(* under way, whose answers come to an instance that is gone, while a new  *)
(* one may be open.                                                        *)
(*                                                                         *)
(* Abstracted: a field is blank or holds a value of its kind, and only the *)
(* fields are kept that are required, or shown and sent under a condition. *)
(* Bounds: one form of a page is followed at a time; its user fills in all *)
(* that is shown but MaxBlank fields; MaxRules rows in a list of rules,    *)
(* MaxAsked requests for data and MaxSent submissions under way.           *)
(***************************************************************************)
EXTENDS Naturals, Sequences, FiniteSets

CONSTANTS Ids, NoId, MaxBlank, MaxRules, MaxAsked, MaxSent

VARIABLE
    form  \* name, open; target: the object the page opens it for; shown: the one
          \* whose data it holds; pick: its tabs, radio buttons and switches;
          \* filled: the fields that are not blank; rules: its rows, each with its
          \* fields; asked: requests for data under way, by object; loading: the
          \* spinner; busy: the flag of the button; sent: submissions under way, those
          \* of instances that are gone before the one of this

\* A form called n of a page that was just entered, with its selectors at p.
FormOf(n, p) ==
    [name |-> n, open |-> FALSE, target |-> NoId, shown |-> NoId, pick |-> p,
     filled |-> {}, rules |-> <<>>, asked |-> <<>>, loading |-> FALSE,
     busy |-> FALSE, sent |-> <<>>]

\* The selectors of a form that has none.
NoPick == [none |-> TRUE]

NoForm == FormOf("none", NoPick)

\* A submission for the object o that carries fields, and rows of fields.
Request(o, fields) == [to |-> o, has |-> fields, rows |-> <<>>]
RequestOf(rows) == [to |-> NoId, has |-> {"rows"}, rows |-> rows]

IsForm(f, fields) ==
    /\ f.open \in BOOLEAN /\ f.loading \in BOOLEAN /\ f.busy \in BOOLEAN
    /\ f.target \in Ids \cup {NoId} /\ f.shown \in Ids \cup {NoId}
    /\ f.filled \subseteq fields
    /\ f.rules \in Seq(SUBSET fields) /\ Len(f.rules) <= MaxRules
    /\ f.asked \in Seq(Ids \cup {NoId}) /\ Len(f.asked) <= MaxAsked
    /\ f.sent \in Seq([to : Ids \cup {NoId}, has : SUBSET fields,
                       rows : Seq(SUBSET fields)])
    /\ Len(f.sent) <= MaxSent

Named(n) == form.name = n
OpenAs(n) == form.name = n /\ form.open

\* What the form may hold after the user typed, with these fields on the screen.
Typings(fields) ==
    {(form.filled \cup fields) \ b :
        b \in {s \in SUBSET fields : Cardinality(s) <= MaxBlank}}

Types(fields) == \E h \in Typings(fields) : form' = [form EXCEPT !.filled = h]

\* The sequence s without its element i.  It is not taken from SequencesExt, which the
\* provers would be given whole, once for every module of forms.
Without(s, i) == SubSeq(s, 1, i - 1) \o SubSeq(s, i + 1, Len(s))

\* The form f asks for the data of o and shows its spinner.
Asks(f, o) ==
    /\ Len(f.asked) < MaxAsked
    /\ form' = [f EXCEPT !.asked = Append(@, o), !.loading = TRUE]

\* The answer i has come: the form f goes on without the spinner.
Loaded(f, i) == form' = [f EXCEPT !.asked = Without(@, i), !.loading = FALSE]

\* A validated form sends r.
Sends(r) ==
    /\ Len(form.sent) < MaxSent
    /\ form' = [form EXCEPT !.busy = TRUE, !.sent = Append(@, r)]

\* The answer to submission i has come: f is what its handler makes of the form.
Settled(f, i) == form' = [f EXCEPT !.busy = FALSE, !.sent = Without(@, i)]

\* What is left of a form that begins as start when it is unmounted: answers to its
\* requests for data change nothing any more, its submissions go on.
Unmounted(start) == [start EXCEPT !.sent = form.sent]

\* The instance that is rendered now has sent submission i.
Own(i) == form.busy /\ i = Len(form.sent)

\* The answer to submission i of a form that may have been unmounted since.
Answered(f, i) == form' = [f EXCEPT !.busy = @ /\ ~Own(i), !.sent = Without(@, i)]

\* The rows with k in place of row i, and without it.
Row(k, i) == [form.rules EXCEPT ![i] = k]
WithoutRow(i) == Without(form.rules, i)

\* Hidden by its button, by Escape or by a click beside it.
Closes == form.open /\ form' = [form EXCEPT !.open = FALSE]

\* A dead button or a spinner means a request that will end it.
FormBusyMeansPending ==
    /\ form.busy => form.sent # <<>>
    /\ form.open /\ form.loading => form.asked # <<>>

FormSubmitsOnce == Len(form.sent) <= 1
=============================================================================
