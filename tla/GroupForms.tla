------------------------------ MODULE GroupForms ----------------------------
(***************************************************************************)
(* The drawer of the groups of tunnels (tunnels/group-management-modal),   *)
(* the dialog that puts tunnels into a group (group-instances-modal) and   *)
(* the editor of a tunnel's tags (instance-tag-modal).                     *)
(*                                                                         *)
(* Abstracted: a name is blank or not; the tunnels of a group by whose     *)
(* they are; of the tags an end, an amount, a bandwidth (which stands for  *)
(* the traffic too) and one the form does not know.  Bound: the server has *)
(* none, one or all of the tags of a tunnel.                               *)
(***************************************************************************)
EXTENDS Forms

Names == {"new", "edit"}
Tags == {"end", "amount", "bandwidth", "other"}
GroupFields == Names \cup Tags \cup {"delete", "tunnels"}

-----------------------------------------------------------------------------
(* "groups": a group is added in a row of its own and renamed in place.    *)

GroupsStart == FormOf("groups", [adding |-> FALSE])

\* fetchGroups
GroupsOpen == Named("groups") /\ ~form.open /\ Asks([form EXCEPT !.open = TRUE], NoId)

GroupsLoaded(i) == Named("groups") /\ Loaded(form, i)

\* handleClose: names that were not saved are forgotten.
GroupsClose ==
    /\ OpenAs("groups")
    /\ form' = [form EXCEPT !.open = FALSE, !.shown = NoId, !.filled = {}, !.pick.adding = FALSE]

AddsGroup ==
    /\ OpenAs("groups")
    /\ \E a \in BOOLEAN : form' = [form EXCEPT !.pick.adding = a,
                                               !.filled = IF a THEN @ ELSE @ \ {"new"}]

\* handleEdit and handleCancelEdit; a group keeps its name until another is typed.
EditsGroup ==
    /\ OpenAs("groups") /\ ~form.loading
    /\ \/ \E o \in Ids \ {form.shown} :
             form' = [form EXCEPT !.shown = o, !.filled = @ \cup {"edit"}]
       \/ form.shown # NoId /\ form' = [form EXCEPT !.shown = NoId, !.filled = @ \ {"edit"}]

GroupsTyped ==
    (IF form.pick.adding THEN {"new"} ELSE {})
    \cup (IF form.shown # NoId /\ ~form.loading THEN {"edit"} ELSE {})

GroupsType == OpenAs("groups") /\ Types(GroupsTyped)

CreatesGroup ==
    /\ OpenAs("groups") /\ form.pick.adding /\ ~form.busy
    /\ "new" \in form.filled
    /\ Sends(Request(NoId, {"new"}))

RenamesGroup ==
    /\ OpenAs("groups") /\ form.shown # NoId /\ ~form.loading /\ ~form.busy
    /\ "edit" \in form.filled
    /\ Sends(Request(form.shown, {"edit"}))

\* The button of a group that is not edited looks at no flag.
DeletesGroup ==
    /\ OpenAs("groups") /\ ~form.loading
    /\ \E o \in Ids \ {form.shown} : Sends(Request(o, {"delete"}))

\* What the success of r leaves of the drawer as it is now.
AfterSuccess(r) ==
    CASE r.has = {"new"}  -> [form EXCEPT !.filled = @ \ {"new"}, !.pick.adding = FALSE]
      [] r.has = {"edit"} -> [form EXCEPT !.filled = @ \ {"edit"}, !.shown = NoId]
      [] OTHER            -> form

\* Success asks for the groups again; the flag is shared by all submissions.
GroupsSettled(i) ==
    /\ Named("groups")
    /\ \/ Settled(form, i)
       \/ /\ Len(form.asked) < MaxAsked
          /\ Settled([AfterSuccess(form.sent[i]) EXCEPT !.asked = Append(@, NoId), !.loading = TRUE], i)

-----------------------------------------------------------------------------
(* "members": the tunnels of one group                                     *)

MembersStart == FormOf("members", NoPick)

\* handleSetInstances, and the effect of isOpen and group.
MembersOpen ==
    /\ Named("members") /\ ~form.open
    /\ \E o \in Ids : Asks([form EXCEPT !.open = TRUE, !.target = o], o)

\* The tunnels of the group the request was made for are selected, whichever is shown.
MembersLoaded(i) ==
    /\ Named("members")
    /\ \/ Loaded(form, i)
       \/ Loaded([form EXCEPT !.shown = form.asked[i], !.filled = {"tunnels"}], i)

\* The list, and the buttons that select all or none, which need not wait for it.
MembersSelected ==
    /\ OpenAs("members")
    /\ \E h \in {{}, {"tunnels"}} : form' = [form EXCEPT !.filled = h]

MembersSubmit ==
    /\ OpenAs("members") /\ ~form.loading /\ ~form.busy
    /\ Sends(Request(form.target, form.filled))

\* Success closes the dialog, of whichever drawer it was, and leaves the selection as it
\* is.
MembersSettled(i) ==
    /\ Named("members")
    /\ Answered(form, i) \/ Answered([form EXCEPT !.open = FALSE], i)

MembersClose ==
    /\ OpenAs("members")
    /\ form' = [form EXCEPT !.open = FALSE, !.filled = {}]

\* The drawer is closed, which it cannot be behind an open dialog, and unmounts it.
DrawerCloses == Named("members") /\ ~form.open /\ form' = Unmounted(MembersStart)

-----------------------------------------------------------------------------
(* "tags": the same tags as JSON and as fields.  The JSON is a set of tags *)
(* or no JSON at all; the fields are what is filled in, with a box for "no *)
(* end" and a choice for "free".                                           *)

NoJson == {"syntax error"}

TagsStart ==
    FormOf("tags", [tab |-> "json", json |-> {}, error |-> FALSE, endless |-> FALSE, free |-> FALSE])

TagsTypeOK(f) ==
    f.pick \in [tab : {"json", "template"}, json : (SUBSET Tags) \cup {NoJson}, error : BOOLEAN,
                endless : BOOLEAN, free : BOOLEAN]

\* updateJsonFromFields, and the tags handleSave makes of the fields.
TagsOf(f) ==
    (f.filled \cap {"bandwidth", "other"})
    \cup (IF f.pick.endless THEN {"end"} ELSE f.filled \cap {"end"})
    \cup (IF f.pick.free THEN {"amount"} ELSE f.filled \cap {"amount"})

\* The effect of the fields: the JSON follows them.
Follows(f) == [f EXCEPT !.pick.json = TagsOf(f), !.pick.error = FALSE]

\* The fields for the tags s, of which the end may be none (e) and the amount free (a).
\* parseBandwidth and parseTraffic leave a field as it is when its tag is missing.
FieldsFrom(f, s, e, a) ==
    [f EXCEPT !.pick.endless = e, !.pick.free = a,
              !.filled = (s \cap {"other"}) \cup ((f.filled \cup s) \cap {"bandwidth"})
                         \cup (IF e THEN {} ELSE s \cap {"end"})
                         \cup (IF a THEN {} ELSE s \cap {"amount"})]

\* initializeFromTags, or resetToDefaults when there are none.
TagsTaken(f, s) ==
    IF s = {}
    THEN form' = Follows([f EXCEPT !.filled = {}, !.pick.endless = FALSE, !.pick.free = FALSE])
    ELSE \E e, a \in BOOLEAN :
            /\ e => "end" \in s
            /\ a => "amount" \in s
            /\ form' = Follows(FieldsFrom(f, s, e, a))

\* The effect of isOpen and of the tags: it also runs when the page renders again with
\* tags it has just received, or has none of, and what was typed is lost.
TagsRefresh ==
    /\ Named("tags")
    /\ \E o \in {form.open, TRUE}, s \in {{}, Tags} \cup {{t} : t \in Tags} :
          TagsTaken([form EXCEPT !.open = o], s)

TagsEditJson ==
    /\ OpenAs("tags") /\ form.pick.tab = "json"
    /\ \E j \in (SUBSET Tags) \cup {NoJson} : form' = [form EXCEPT !.pick.json = j]

\* updateFieldsFromJson: bad JSON disables the button until a field changes.
TagsToTemplate ==
    /\ OpenAs("tags") /\ form.pick.tab = "json"
    /\ IF form.pick.json = NoJson
       THEN form' = [form EXCEPT !.pick.tab = "template", !.pick.error = TRUE]
       ELSE \E e, a \in BOOLEAN :
               /\ e => "end" \in form.pick.json
               /\ a => "amount" \in form.pick.json
               /\ form' = [Follows(FieldsFrom(form, form.pick.json, e, a)) EXCEPT !.pick.tab = "template"]

TagsToJson ==
    /\ OpenAs("tags") /\ form.pick.tab = "template"
    /\ form' = [Follows(form) EXCEPT !.pick.tab = "json"]

\* A box that is checked forgets the date.
TagsChoose ==
    /\ OpenAs("tags") /\ form.pick.tab = "template"
    /\ \/ form' = Follows([form EXCEPT !.pick.endless = ~@,
                                       !.filled = IF form.pick.endless THEN @ ELSE @ \ {"end"}])
       \/ form' = Follows([form EXCEPT !.pick.free = ~@])

TagsTyped ==
    {"bandwidth"} \cup (IF form.pick.endless THEN {} ELSE {"end"})
                  \cup (IF form.pick.free THEN {} ELSE {"amount"})

TagsType ==
    /\ OpenAs("tags") /\ form.pick.tab = "template"
    /\ \E h \in Typings(TagsTyped) \ {form.filled} : form' = Follows([form EXCEPT !.filled = h])

\* What handleSave sends: the fields, or the JSON.
TagsBody == IF form.pick.tab = "template" THEN TagsOf(form) ELSE form.pick.json

TagsSubmit ==
    /\ OpenAs("tags") /\ ~form.pick.error /\ ~form.busy
    /\ TagsBody # NoJson
    /\ Sends(Request(NoId, TagsBody))

\* Success closes the dialog, and the page asks for the tunnel again.
TagsSettled(i) == Named("tags") /\ \E o \in {form.open, FALSE} : Settled([form EXCEPT !.open = o], i)

-----------------------------------------------------------------------------
GroupFormsOf(route) ==
    CASE route = "tunnels" -> {GroupsStart, MembersStart}
      [] route = "tunnel"  -> {TagsStart}
      [] OTHER -> {}

GroupFormNames == {"groups", "members", "tags"}

GroupFormsTypeOK ==
    form.name \in GroupFormNames =>
        /\ IsForm(form, GroupFields)
        /\ CASE Named("groups") -> form.pick.adding \in BOOLEAN
             [] Named("members") -> form.pick = NoPick
             [] OTHER -> TagsTypeOK(form)

GroupFormsNext ==
    \/ GroupsOpen \/ GroupsClose \/ AddsGroup \/ EditsGroup \/ GroupsType
    \/ CreatesGroup \/ RenamesGroup \/ DeletesGroup
    \/ MembersOpen \/ MembersSelected \/ MembersSubmit \/ MembersClose
    \/ DrawerCloses
    \/ TagsRefresh \/ TagsEditJson \/ TagsToTemplate \/ TagsToJson \/ TagsChoose
    \/ TagsType \/ TagsSubmit
    \/ \E i \in DOMAIN form.asked : GroupsLoaded(i) \/ MembersLoaded(i)
    \/ \E i \in DOMAIN form.sent : GroupsSettled(i) \/ MembersSettled(i) \/ TagsSettled(i)
    \/ Named("tags") /\ Closes

-----------------------------------------------------------------------------
\* A group is renamed to a name that is on the screen.  While the fields of the tags
\* are shown they are the JSON the other tab would show, and either is what is sent.
GroupSubmitsShown(r) ==
    /\ Named("groups") /\ "edit" \in r.has => r.to = form.shown /\ "edit" \in form.filled
    /\ Named("tags") => r.has = form.pick.json
=============================================================================
