----------------------------- MODULE TunnelsPage ----------------------------
(***************************************************************************)
(* The list of tunnels (pages/tunnels): a search field with a debounce,    *)
(* filters and pages the server applies, a selection, and actions on rows. *)
(*                                                                         *)
(* A step is the handler of one event, timer or answer with the rendering  *)
(* and the effects that follow; every change of the query asks anew, and   *)
(* nothing cancels a request.  What a handler does after its answer it     *)
(* does with the query of the rendering that created it.                   *)
(*                                                                         *)
(* Abstracted: the query is its search text and a view, which stands for   *)
(* status, endpoint, group, order, page and page size; of the selection    *)
(* whether it is empty (TunnelTable has the rows); equal requests under    *)
(* way are one.  Bounds: MaxFetches requests for the list, and one action, *)
(* under way.  The forms are modules of their own.                         *)
(***************************************************************************)
EXTENDS Naturals, FiniteSets

CONSTANTS Texts, NoText, Views, FirstView, MaxFetches

VARIABLES route, page, late

Query == [search : Texts, view : Views]

NoPost == [op |-> "none"]

Post == {NoPost} \cup [op : {"delete", "operate"}, of : Query]

\* input: the text of the field; timers: the debounces that have not fired;
\* fetches: fetchTunnels under way; post: an action with its closure's query;
\* dialog: the confirmation of a deletion is open.
TunnelsState ==
    [input : Texts, timers : SUBSET Texts, query : Query, loading : BOOLEAN,
     fetches : SUBSET Query, selected : BOOLEAN, dialog : BOOLEAN, post : Post]

Here == route = "tunnels"

TunnelsTypeOK == Here => page \in TunnelsState

FirstQuery == [search |-> NoText, view |-> FirstView]

\* The page as it appears: the effects start a debounce and ask for the list.
TunnelsShown ==
    [input |-> NoText, timers |-> {NoText}, query |-> FirstQuery, loading |-> TRUE,
     fetches |-> {FirstQuery}, selected |-> FALSE, dialog |-> FALSE, post |-> NoPost]

\* fetchTunnels with the query q of its closure, from a page in the state p.
Fetching(p, q) == [p EXCEPT !.fetches = @ \cup {q}, !.loading = TRUE]

\* A rendering with the query q: the effect asks if it is another one.
Queried(p, q) == IF q = p.query THEN p ELSE Fetching([p EXCEPT !.query = q], q)

Render(p) == Cardinality(p.fetches) <= MaxFetches /\ page' = p /\ UNCHANGED <<route, late>>

-----------------------------------------------------------------------------
(* The search field                                                        *)

\* Mutant: the timer of the text before is not cleared.
TypedBeside(p, text) == [p EXCEPT !.input = text, !.timers = @ \cup {text}]

\* A new text clears the timer of the one before and starts its own.
Typed(p, text) ==
    IF text = p.input THEN p ELSE [p EXCEPT !.input = text, !.timers = {text}]

\* onSearchChange goes back to the first page unless the field is emptied.
Search(text) ==
    /\ Here /\ text # page.input
    /\ IF text = NoText THEN Render(Typed(page, text))
       ELSE \E view \in Views :
               Render(Queried(Typed(page, text), [page.query EXCEPT !.view = view]))

Debounced ==
    /\ Here
    /\ \E text \in page.timers :
          Render(Queried([page EXCEPT !.timers = @ \ {text}],
                         [page.query EXCEPT !.search = text]))

\* onClear searches for nothing at once; the debounce follows nevertheless.
ClearSearch ==
    /\ Here /\ page.input # NoText
    /\ \E view \in Views :
          Render(Queried(Typed(page, NoText), [search |-> NoText, view |-> view]))

\* A filter, the order, the page or its size.
ChangeView ==
    /\ Here
    /\ \E view \in Views : Render(Queried(page, [page.query EXCEPT !.view = view]))

\* The reset clears neither the field, nor its timer, nor the group.
Reset ==
    /\ Here /\ ~page.loading
    /\ \E view \in Views : Render(Queried(page, [search |-> NoText, view |-> view]))

-----------------------------------------------------------------------------
(* The list                                                                *)

PressRefresh == Here /\ Render(Fetching(page, page.query))

\* An answer with fewer pages than the closure's page moves to the last.
ListAnswered ==
    /\ Here
    /\ \E q \in page.fetches :
          LET p == [page EXCEPT !.fetches = @ \ {q}, !.loading = FALSE]
          IN  \/ Render(p)
              \/ \E view \in Views : Render(Queried(p, [page.query EXCEPT !.view = view]))

-----------------------------------------------------------------------------
(* Actions                                                                 *)

\* The rows of the spinner can be selected as well.
Select ==
    /\ Here
    /\ \E selected \in BOOLEAN : Render([page EXCEPT !.selected = selected])

Posting(p, op) == [p EXCEPT !.post = [op |-> op, of |-> p.query]]

\* Toggling, restarting or deleting one row.
PressRow == Here /\ ~page.loading /\ page.post = NoPost /\ Render(Posting(page, "operate"))

\* executeBatchStart, -Stop and -Restart take the selected rows among those
\* shown, and send nothing if there is none they apply to.
PressBatch == Here /\ page.selected /\ page.post = NoPost /\ Render(Posting(page, "operate"))

\* The deletion is confirmed in a dialog and takes what is selected, shown or not.
OpenDeletion == Here /\ page.selected /\ Render([page EXCEPT !.dialog = TRUE])

CloseDeletion == Here /\ page.dialog /\ Render([page EXCEPT !.dialog = FALSE])

ConfirmDeletion ==
    /\ Here /\ page.dialog /\ page.selected /\ page.post = NoPost
    /\ Render(Posting([page EXCEPT !.dialog = FALSE], "delete"))

\* Success asks for the list of the closure's query; a failure leaves all as it is.
PostAnswered ==
    /\ Here /\ page.post # NoPost
    /\ LET p == [page EXCEPT !.post = NoPost]
       IN  \/ Render(p)
           \/ Render(Fetching([p EXCEPT !.selected = @ /\ page.post.op # "delete"],
                              page.post.of))

TunnelsNext ==
    \/ \E text \in Texts : Search(text)
    \/ Debounced \/ ClearSearch \/ ChangeView \/ Reset
    \/ PressRefresh \/ ListAnswered
    \/ Select \/ PressRow \/ PressBatch
    \/ OpenDeletion \/ CloseDeletion \/ ConfirmDeletion \/ PostAnswered

-----------------------------------------------------------------------------
(* Properties                                                              *)

\* The list is not left behind its spinner: whichever of the overlapping requests
\* ends last, loading (the finally of fetchTunnels) has one that is still to come.
ListBusyMeansPending == Here /\ page.loading => page.fetches # {}

\* The list is searched for what the field holds, or for nothing after a clear or
\* a reset: the debounce of an earlier text never reaches the query.
FilterIsNewestInput ==
    [][Here /\ route' = route /\ page'.query.search # page.query.search =>
          page'.query.search \in {page'.input, NoText}]_<<route, page>>
=============================================================================
