----------------------------- MODULE TunnelTable ----------------------------
(***************************************************************************)
(* The table of the page of tunnels (pages/tunnels), which TunnelsPage has *)
(* without its rows: what is selected, what a bulk action takes of it, and *)
(* the dialogs of deletion and export.  A selection outlives the rows it   *)
(* was made of, and the rows of the spinner can be selected like others.   *)
(*                                                                         *)
(* Abstracted: the server may answer any rows; of the state of a tunnel    *)
(* whether it runs; of the export that it is shown; the tunnel of the      *)
(* dialog of deletion is kept while the dialog is open.  Bounds: MaxAsked  *)
(* requests for the list, and MaxSent actions, under way; no handler looks *)
(* at what is under way.                                                   *)
(***************************************************************************)
EXTENDS Forms

Operations == {"start", "stop", "restart", "delete"}

\* Five rows without content stand for the list while it is loaded.
Skeleton == "skeleton"
Keys == Ids \cup {Skeleton}

TableDialogs == {"none", "deletion", "export", "erase"}

\* selectedKeys is a set or "all".
TableStart ==
    [FormOf("table", [rows |-> {}, running |-> {}, all |-> FALSE, keys |-> {},
                      dialog |-> "none"])
        EXCEPT !.open = TRUE, !.asked = <<NoId>>, !.loading = TRUE]

TableTypeOK(f) ==
    /\ f.pick \in [rows : SUBSET Ids, running : SUBSET Ids, all : BOOLEAN,
                   keys : SUBSET Keys, dialog : TableDialogs]
    /\ f.pick.running \subseteq f.pick.rows

In(d) == Named("table") /\ form.pick.dialog = d

\* fetchTunnels of the button, or of an action that succeeded, from the form f.
TableRefreshes == In("none") /\ Asks(form, NoId)

\* The list has come with some rows, or not at all; the selection stays as it is.
TableAnswered(i) ==
    /\ Named("table")
    /\ \/ Loaded(form, i)
       \/ \E rows \in SUBSET Ids : \E running \in SUBSET rows :
             Loaded([form EXCEPT !.pick.rows = rows, !.pick.running = running], i)

-----------------------------------------------------------------------------
(* The selection                                                           *)

\* The rows on the screen; a spinner hides what the list still holds.
OnScreen == IF form.loading THEN {Skeleton} ELSE form.pick.rows

Selected == IF form.pick.all THEN form.pick.rows ELSE form.pick.keys

\* The number the page shows of it.
SelectedCount == Cardinality(Selected)

Selects(all, keys) == form' = [form EXCEPT !.pick.all = all, !.pick.keys = keys]

\* The box of a row: after "all" the others on the screen remain.
ToggleRow ==
    /\ In("none")
    /\ \E k \in OnScreen :
          LET before == IF form.pick.all THEN OnScreen ELSE form.pick.keys
          IN  Selects(FALSE, IF k \in before THEN before \ {k} ELSE before \cup {k})

\* The box of the header.
ToggleAll ==
    /\ In("none") /\ OnScreen # {}
    /\ IF form.pick.all \/ OnScreen \subseteq form.pick.keys THEN Selects(FALSE, {})
       ELSE Selects(TRUE, {})

-----------------------------------------------------------------------------
(* Actions on what is selected                                             *)

Bulk == In("none") /\ SelectedCount > 0

Acts(to, op, ids) ==
    /\ Len(form.sent) < MaxSent
    /\ form' = [form EXCEPT !.sent = Append(@, Request(to, {op} \cup ids)), !.pick.dialog = "none"]

\* Of a set only what is in the list.
Listed == Selected \cap form.pick.rows

\* executeBatchStart
BatchStart == Bulk /\ Listed \ form.pick.running # {} /\ Acts(NoId, "start", Listed \ form.pick.running)

\* executeBatchStop
BatchStop == Bulk /\ Listed \cap form.pick.running # {} /\ Acts(NoId, "stop", Listed \cap form.pick.running)

\* executeBatchRestart
BatchRestart ==
    /\ Bulk /\ Listed \cap form.pick.running # {}
    /\ Acts(NoId, "restart", Listed \cap form.pick.running)

Shows(d) == form' = [form EXCEPT !.pick.dialog = d]

ShowBatchDelete == Bulk /\ Shows("deletion")

\* executeBatchDelete takes the whole set, and of "all" what is in the list by now, even
\* if that is nothing.
BatchDelete ==
    /\ In("deletion") /\ (form.pick.all \/ form.pick.keys # {})
    /\ Acts(NoId, "delete", Selected)

\* handleExportConfig
Export == Bulk /\ Shows("export")

TableDialogCloses ==
    /\ Named("table") /\ form.pick.dialog # "none"
    /\ form' = [form EXCEPT !.pick.dialog = "none", !.target = NoId]

-----------------------------------------------------------------------------
(* Actions on one row                                                      *)

RowShown(k) == In("none") /\ ~form.loading /\ k \in form.pick.rows

\* handleToggleStatus
RowToggles ==
    \E k \in Ids :
        /\ RowShown(k)
        /\ Acts(k, IF k \in form.pick.running THEN "stop" ELSE "start", {})

\* handleRestart
RowRestarts == \E k \in form.pick.running : RowShown(k) /\ Acts(k, "restart", {})

\* handleDeleteClick
RowErases ==
    \E k \in Ids :
        RowShown(k) /\ form' = [form EXCEPT !.pick.dialog = "erase", !.target = k]

\* confirmDelete
RowDeletes ==
    /\ In("erase") /\ Len(form.sent) < MaxSent
    /\ form' = [form EXCEPT !.sent = Append(@, Request(form.target, {"delete"})),
                            !.pick.dialog = "none", !.target = NoId]

\* handleStatusChange, before the list is asked for.
Changed(r) ==
    IF "stop" \in r.has THEN [form EXCEPT !.pick.running = @ \ {r.to}]
    ELSE [form EXCEPT !.pick.running = @ \cup ({r.to} \cap form.pick.rows)]

\* What the success of r makes of the table.
Succeeded(r) ==
    IF "delete" \notin r.has THEN IF r.to = NoId THEN form ELSE Changed(r)
    ELSE IF r.to # NoId THEN form
    ELSE [form EXCEPT !.pick.all = FALSE, !.pick.keys = {}]

TableSettled(i) ==
    /\ Named("table")
    /\ \/ Settled(form, i)
       \/ /\ Len(form.asked) < MaxAsked
          /\ Settled([Succeeded(form.sent[i]) EXCEPT !.asked = Append(@, NoId), !.loading = TRUE], i)

-----------------------------------------------------------------------------
TableFormsOf(route) == IF route = "tunnels" THEN {TableStart} ELSE {}

TableFormNames == {"table"}

TableFormsTypeOK ==
    form.name \in TableFormNames => IsForm(form, Operations \cup Keys) /\ TableTypeOK(form)

TableFormsNext ==
    \/ TableRefreshes \/ ToggleRow \/ ToggleAll
    \/ BatchStart \/ BatchStop \/ BatchRestart \/ ShowBatchDelete \/ BatchDelete
    \/ Export \/ TableDialogCloses
    \/ RowToggles \/ RowRestarts \/ RowErases \/ RowDeletes
    \/ \E i \in DOMAIN form.asked : TableAnswered(i)
    \/ \E i \in DOMAIN form.sent : TableSettled(i)

-----------------------------------------------------------------------------
\* A deletion takes as many rows as its dialog says, whatever lists have come since it
\* was opened; every other bulk action takes rows of the list that it applies to.
TableSubmitsShown(r) ==
    form.name \in TableFormNames /\ r.to = NoId =>
        LET ids == r.has \ Operations
        IN  /\ "delete" \in r.has => Cardinality(ids) = SelectedCount
            /\ "delete" \notin r.has => ids # {} /\ ids \subseteq form.pick.rows
            /\ "start" \in r.has => ids \cap form.pick.running = {}
            /\ r.has \cap {"stop", "restart"} # {} => ids \subseteq form.pick.running
=============================================================================
