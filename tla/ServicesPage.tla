----------------------------- MODULE ServicesPage ---------------------------
(***************************************************************************)
(* The list of services (pages/services), whose cards the user drags into  *)
(* an order that the server keeps.                                         *)
(*                                                                         *)
(* A drag shows its order at once and sends it; until the answer nothing   *)
(* else can be dragged.  A step is the handler of one event or answer with *)
(* the rendering that follows.                                             *)
(*                                                                         *)
(* Abstracted: an order is the number of the drag that made it, 0 for the  *)
(* one before the visit; a request that fails was not applied by the       *)
(* server.  Bounds: MaxDrags drags in one visit, MaxLists requests for the *)
(* list, and one action, under way.  Creating, assembling and renaming     *)
(* are left out.                                                           *)
(***************************************************************************)
EXTENDS Naturals

CONSTANTS MaxDrags, MaxLists

VARIABLES route, page, late

Orders == 0..MaxDrags

\* listed: there are cards; dragged: drags so far; saves: their requests under
\* way; saved: the order the server has; posted: an action is under way.
ServicesState ==
    [loading : BOOLEAN, asked : 0..MaxLists, listed : BOOLEAN, searched : BOOLEAN,
     sorting : BOOLEAN, dragged : Orders, saves : SUBSET Orders, saved : Orders,
     posted : BOOLEAN]

Here == route = "services"

ServicesTypeOK == Here => page \in ServicesState

ServicesShown ==
    [loading |-> TRUE, asked |-> 1, listed |-> FALSE, searched |-> FALSE,
     sorting |-> FALSE, dragged |-> 0, saves |-> {}, saved |-> 0, posted |-> FALSE]

Listing(p) == [p EXCEPT !.loading = TRUE, !.asked = @ + 1]

Render(p) == page' = p /\ UNCHANGED <<route, late>>

-----------------------------------------------------------------------------
PressRefresh == Here /\ page.asked < MaxLists /\ Render(Listing(page))

\* fetchServices shows an empty list if it fails.
ServicesAnswered ==
    /\ Here /\ page.asked > 0
    /\ \E listed \in BOOLEAN :
          Render([page EXCEPT !.asked = @ - 1, !.loading = FALSE, !.listed = listed])

Search == Here /\ \E searched \in BOOLEAN : Render([page EXCEPT !.searched = searched])

\* Mutant: a card can be dragged while an order is being saved.
DragEnabledAlways == ~page.searched

\* isDragEnabled, with the cards on the screen.
DragEnabled == ~page.searched /\ ~page.sorting

\* handleDragEnd shows the new order and sends it.
Drag ==
    /\ Here /\ ~page.loading /\ page.listed /\ DragEnabled /\ page.dragged < MaxDrags
    /\ Render([page EXCEPT !.sorting = TRUE, !.dragged = @ + 1,
                           !.saves = @ \cup {page.dragged + 1}])

\* The server saves the order, or the list it has is asked for.
SaveAnswered ==
    /\ Here
    /\ \E n \in page.saves :
          LET p == [page EXCEPT !.saves = @ \ {n}, !.sorting = FALSE]
          IN  \/ Render([p EXCEPT !.saved = n])
              \/ page.asked < MaxLists /\ Render(Listing(p))

\* Starting, stopping, restarting, synchronising, dissolving or deleting.
PressAction ==
    /\ Here /\ ~page.loading /\ page.listed /\ ~page.posted
    /\ Render([page EXCEPT !.posted = TRUE])

ActionAnswered ==
    /\ Here /\ page.posted
    /\ LET p == [page EXCEPT !.posted = FALSE]
       IN  Render(p) \/ (page.asked < MaxLists /\ Render(Listing(p)))

ServicesNext ==
    \/ PressRefresh \/ ServicesAnswered \/ Search
    \/ Drag \/ SaveAnswered \/ PressAction \/ ActionAnswered

-----------------------------------------------------------------------------
(* Properties                                                              *)

\* The list is never left behind its spinner, nor fixed in its order, without a
\* request that ends it.
ServicesBusyMeansPending ==
    Here => /\ page.loading => page.asked > 0
            /\ page.sorting => page.saves # {}

\* Whatever the server takes longer for, within a visit no order of an earlier drag
\* replaces a later one.
LastDragStays ==
    [][Here /\ route' = route => page'.saved >= page.saved]_<<route, page>>
=============================================================================
