--------------------------- MODULE TunnelLifecycle ---------------------------
(***************************************************************************)
(* The operations on tunnels (internal/tunnel/service.go, refreshTunnels of*)
(* internal/api/endpoint.go, the groups of internal/group/service.go) over *)
(* the rows and events of TunnelEvents.  Each HTTP request is a goroutine  *)
(* that asks the master to act, polls the rows until the event of that act *)
(* has been handled, and acts on the rows itself when it has waited for too*)
(* long.  A deadline may pass at any moment.                               *)
(*                                                                         *)
(* Abstracted: a poll that finds nothing is no step.  A creation the master*)
(* refuses changes nothing, and one whose answer is lost is InstanceStarts.*)
(* Names, operation logs, patches, resets of counters and what a call      *)
(* answers are left out, and the transaction of refreshTunnels is one step,*)
(* or fails as a whole.  The goroutine that recounts the tunnels after an  *)
(* operation belongs to the slot of its call, taken again when it has run. *)
(***************************************************************************)
EXTENDS TunnelEvents

CONSTANT Ops  \* bound: the operations that are requested

Creations == {"create", "batch", "url"}
Deletions == {"deleteId", "deleteInst"}
Controls == {"start", "stop", "restart"}

ASSUME OpsAssumption == Ops \subseteq Creations \cup Deletions \cup Controls
                         \cup {"refresh", "regroup"}

VARIABLE call

vars == <<eventVars, call>>

Listing == [Instances -> Status \cup {"absent"}]
NothingListed == [i \in Instances |-> "absent"]

NoCall == [op |-> "none", pc |-> "idle", inst |-> NoInst, row |-> NoRow,
           listed |-> NothingListed]

CallPc == {"idle", "awaitRow", "query", "insert", "clear", "remote", "awaitGone",
           "force", "awaitStatus", "awaitRunning", "check", "setStatus",
           "commit"}

TypeOK ==
    /\ EventsTypeOK
    /\ call \in [Calls -> [op : Ops \cup {"none"}, pc : CallPc,
                           inst : Instances \cup {NoInst},
                           row : RowIds \cup {NoRow}, listed : Listing]]

Init == EventsInit /\ call = [c \in Calls |-> NoCall]

\* Ids the database may give to a new row.
FreeIds == {r \in RowIds : tunnels[r] = NoRow /\ \A c \in Calls : call[c].row # r}

-----------------------------------------------------------------------------
(* Calls                                                                   *)

Begin(c, op, l, i, r) ==
    /\ call[c].pc = "idle" /\ count[c].pc = "none" /\ op \in Ops
    /\ call' = [call EXCEPT ![c] = [NoCall EXCEPT !.op = op, !.pc = l,
                                                  !.inst = i, !.row = r]]

Move(c, l) == call' = [call EXCEPT ![c].pc = l]
Answer(c) == call' = [call EXCEPT ![c] = NoCall]

RowsOnly == UNCHANGED <<master, streamVars, jobs, worker, tunnelCount, overlapped>>
CallOnly == UNCHANGED eventVars
RemoteOnly == UNCHANGED <<streamVars, worker, tunnels, countVars>>

-----------------------------------------------------------------------------
(* NewCreateTunnelAndWait ("create"), CreateTunnelAndWait ("batch") and    *)
(* QuickCreateTunnelDirectURL ("url")                                      *)

CreateRemote(c, op, i) ==
    /\ op \in Creations /\ master[i] = "unborn"
    /\ Begin(c, op, "awaitRow", i, NoRow)
    /\ MasterSets(i, "running")
    /\ jobs' = Push(jobs, "create", i, "running")
    /\ RemoteOnly

\* The row is there: it gets its name, and the tunnels are counted.
RowFound(c) ==
    /\ call[c].pc \in {"awaitRow", "query"}
    /\ RowsOf(call[c].inst) # {}
    /\ Recount(c) /\ Answer(c)
    /\ UNCHANGED tunnels /\ RowsOnly

RowAwaited(c) ==
    /\ call[c].pc = "awaitRow"
    /\ IF call[c].op = "url" THEN Answer(c) ELSE Move(c, "query")
    /\ CallOnly

RowMissing(c) ==
    /\ call[c].pc = "query" /\ RowsOf(call[c].inst) = {}
    /\ Move(c, "insert")
    /\ CallOnly

\* The row the call inserts.  "create" stores the request it was given, which
\* holds neither an instance id nor, usually, a status: the column's default.
OwnRow(c) == IF call[c].op = "create" THEN Ungrouped(NoInst, "stopped")
             ELSE Ungrouped(call[c].inst, "running")

InsertOwn(c, r) ==
    /\ call[c].pc = "insert" /\ tunnels[r] = NoRow
    /\ OwnRow(c).inst = NoInst \/ RowsOf(call[c].inst) = {}
    /\ tunnels' = [tunnels EXCEPT ![r] = OwnRow(c)]
    /\ Recount(c) /\ Answer(c)
    /\ RowsOnly

\* The unique index refuses a second row of an instance, not of NULL.
OwnConflict(c) ==
    /\ call[c].pc = "insert"
    /\ OwnRow(c).inst # NoInst /\ RowsOf(call[c].inst) # {}
    /\ Answer(c)
    /\ CallOnly

-----------------------------------------------------------------------------
(* DeleteTunnelIdAndWait ("deleteId") and DeleteTunnelAndWait              *)
(* ("deleteInst")                                                          *)

DeleteById(c, r) ==
    /\ r \in Rows
    /\ Begin(c, "deleteId", "clear", tunnels[r].inst, r)
    /\ CallOnly

DeleteByInst(c, r) ==
    /\ r \in Rows /\ tunnels[r].inst # NoInst
    /\ Begin(c, "deleteInst", "remote", tunnels[r].inst, r)
    /\ CallOnly

\* DELETE FROM tunnel_groups with the placeholder "?", through database/sql:
\* PostgreSQL rejects the statement, the error is logged and nothing else.
ClearGroups(c) ==
    /\ call[c].pc = "clear"
    /\ Move(c, IF call[c].inst = NoInst THEN "awaitGone" ELSE "remote")
    /\ CallOnly

DeleteRemote(c) ==
    LET i == call[c].inst
    IN  /\ call[c].pc = "remote" /\ Alive(i)
        /\ Move(c, "awaitGone")
        /\ MasterSets(i, "gone")
        /\ jobs' = Push(jobs, "delete", i, "stopped")
        /\ RemoteOnly

\* 404, or 401 whatever the instance does, count as a deletion.
DeleteUnknown(c) ==
    /\ call[c].pc = "remote"
    /\ Move(c, "awaitGone")
    /\ CallOnly

DeleteRefused(c) ==
    /\ call[c].pc = "remote"
    /\ Answer(c)
    /\ CallOnly

\* The rows the call waits for.
Awaited(c) == IF call[c].op = "deleteId" THEN {call[c].row} \cap Rows
              ELSE RowsOf(call[c].inst)

Gone(c) ==
    /\ call[c].pc = "awaitGone" /\ Awaited(c) = {}
    /\ Answer(c)
    /\ CallOnly

GoneAwaited(c) ==
    /\ call[c].pc = "awaitGone"
    /\ Move(c, "force")
    /\ CallOnly

\* DELETE by row id.  A row that is gone by now counts as deleted; one that a group
\* names stays, and the request fails.
ForceDelete(c) ==
    LET S == {call[c].row} \cap Rows
    IN  /\ call[c].pc = "force"
        /\ IF S # {} /\ Deletable(S) THEN DeleteRows(S) /\ Recount(c)
           ELSE UNCHANGED <<tunnels, count>>
        /\ Answer(c)
        /\ RowsOnly

-----------------------------------------------------------------------------
(* ControlTunnel                                                           *)

Target(op) == IF op = "stop" THEN "stopped" ELSE "running"

ControlRemote(c, op, r) ==
    LET i == tunnels[r].inst
        q == IF op = "restart" THEN Push(jobs, "update", i, "stopped") ELSE jobs
    IN  /\ op \in Controls /\ r \in Rows /\ i # NoInst /\ Alive(i)
        /\ Begin(c, op, "awaitStatus", i, NoRow)
        /\ MasterSets(i, Target(op))
        /\ jobs' = Push(q, "update", i, Target(op))
        /\ RemoteOnly

\* The first status is seen, or its deadline passes; either way the call goes
\* on to its second look.
StatusAwaited(c) ==
    /\ call[c].pc = "awaitStatus"
    /\ Move(c, IF call[c].op = "restart" THEN "awaitRunning" ELSE "check")
    /\ CallOnly

HasStatus(c) ==
    \E r \in RowsOf(call[c].inst) : tunnels[r].status = Target(call[c].op)

StatusSeen(c) ==
    /\ call[c].pc \in {"awaitRunning", "check"} /\ HasStatus(c)
    /\ Answer(c)
    /\ CallOnly

\* The status is not there: at once in the final check of a start or a stop,
\* at the deadline of a restart.
StatusMissing(c) ==
    /\ \/ call[c].pc = "check" /\ ~HasStatus(c)
       \/ call[c].pc = "awaitRunning"
    /\ Move(c, "setStatus")
    /\ CallOnly

\* UpdateTunnelStatus
UpdateStatus(c) ==
    /\ call[c].pc = "setStatus"
    /\ SetStatus(RowsOf(call[c].inst), Target(call[c].op))
    /\ Answer(c)
    /\ UNCHANGED count /\ RowsOnly

-----------------------------------------------------------------------------
(* refreshTunnels                                                          *)

\* GetInstances: the answer the transaction will use.
Listed == [i \in Instances |-> IF Alive(i) THEN master[i] ELSE "absent"]

RefreshList(c) ==
    /\ call[c].pc = "idle" /\ count[c].pc = "none" /\ "refresh" \in Ops
    /\ call' = [call EXCEPT ![c] = [NoCall EXCEPT !.op = "refresh", !.pc = "commit",
                                                  !.listed = Listed]]
    /\ CallOnly

\* Mutant: rows that no instance of the list has are kept.
UnlistedKept(list) ==
    {r \in Rows : tunnels[r].inst # NoInst /\ tunnels[r].inst \notin DOMAIN list}

\* Rows of instances that the list does not have.
Unlisted(list) == {r \in Rows : tunnels[r].inst # NoInst /\ list[tunnels[r].inst] = "absent"}

Missing(list) == {i \in Instances : list[i] # "absent" /\ RowsOf(i) = {}}

\* The rows after the transaction; new gives the missing instances their ids.
Mirrored(list, new) ==
    [r \in RowIds |->
        IF r \in Unlisted(list) THEN NoRow
        ELSE IF r \in Rows
        THEN IF tunnels[r].inst = NoInst THEN tunnels[r]
             ELSE [tunnels[r] EXCEPT !.status = list[tunnels[r].inst]]
        ELSE IF \E i \in Missing(list) : new[i] = r
        THEN LET i == CHOOSE j \in Missing(list) : new[j] = r
             IN  Ungrouped(i, list[i])
        ELSE NoRow]

RefreshCommits(c) ==
    LET list == call[c].listed
    IN  /\ call[c].pc = "commit" /\ Deletable(Unlisted(list))
        /\ \E new \in [Missing(list) -> FreeIds] :
            /\ \A i, j \in Missing(list) : new[i] = new[j] => i = j
            /\ tunnels' = Mirrored(list, new)
        /\ Recount(c) /\ Answer(c)
        /\ RowsOnly

RefreshFails(c) ==
    /\ call[c].pc = "commit"
    /\ Answer(c)
    /\ CallOnly

-----------------------------------------------------------------------------
(* AssignGroupToTunnel, BatchAssignTunnelsToGroup and the deletion of a    *)
(* group change which rows a group names.                                  *)

Regroup(r) ==
    /\ "regroup" \in Ops /\ r \in Rows
    /\ tunnels' = [tunnels EXCEPT ![r].grouped = ~@]
    /\ UNCHANGED <<master, streamVars, jobs, worker, countVars, call>>

-----------------------------------------------------------------------------

\* The requests.
Request(c) ==
    \/ \E op \in Creations, i \in Instances : CreateRemote(c, op, i)
    \/ \E r \in RowIds : DeleteById(c, r) \/ DeleteByInst(c, r)
    \/ \E op \in Controls, r \in RowIds : ControlRemote(c, op, r)
    \/ RefreshList(c)

\* The rest of a call.
CallStep(c) ==
    \/ RowFound(c) \/ RowAwaited(c) \/ RowMissing(c)
    \/ OwnConflict(c)
    \/ \E r \in FreeIds : InsertOwn(c, r)
    \/ ClearGroups(c) \/ DeleteRemote(c) \/ DeleteUnknown(c) \/ DeleteRefused(c)
    \/ Gone(c) \/ GoneAwaited(c) \/ ForceDelete(c)
    \/ StatusAwaited(c) \/ StatusSeen(c) \/ StatusMissing(c) \/ UpdateStatus(c)
    \/ RefreshCommits(c) \/ RefreshFails(c)

EventStep ==
    /\ \/ StreamStep
       \/ \E w \in Workers : WorkerStep(w, FreeIds)
       \/ \E c \in Counters : CountBegins(c) \/ CountEnds(c)
    /\ UNCHANGED call

Next ==
    \/ EventStep
    \/ \E c \in Calls : Request(c) \/ CallStep(c)
    \/ \E r \in RowIds : Regroup(r)

Spec == Init /\ [][Next]_vars

(***************************************************************************)
(* Fairness.  Goroutines run when they can: workers, recounts, calls (whose*)
(* deadlines pass), and the second statement of a status change.  A master *)
(* sends the initial events of a new stream, and its periodic reports do   *)
(* not find the queue full every time.                                     *)
(***************************************************************************)
FairSpec ==
    /\ Spec
    /\ \A w \in Workers : WF_vars(WorkerStep(w, FreeIds) /\ UNCHANGED call)
    /\ \A c \in Counters : WF_vars((CountBegins(c) \/ CountEnds(c)) /\ UNCHANGED call)
    /\ \A c \in Calls : WF_vars(CallStep(c))
    /\ WF_vars(MarkOffline /\ UNCHANGED call)
    /\ \A i \in Instances : /\ WF_vars(SendInitial(i) /\ UNCHANGED call)
                            /\ SF_vars(Report(i) /\ UNCHANGED call)

-----------------------------------------------------------------------------
(* Properties                                                              *)

\* No recount is forgotten.  While no two recounts have overlapped, a count that
\* differs from the number of rows is about to be corrected: some goroutine has
\* a recount to run or in hand.  (Two that overlap may end in the wrong order,
\* and nobody counts again until the next change.)
CountCovered ==
    \/ tunnelCount = Cardinality(Rows)
    \/ \E c \in Counters : count[c].pc # "none"
    \/ overlapped

\* All calls that could still change a row are over, refreshes excepted.
Quiet == \A c \in Calls : call[c].op \in {"none", "refresh"}

\* The handlers take the events of an instance in any order, calls force a
\* status when they have waited for too long, and a stream that ends marks every
\* row offline, in part by a statement that may come late; yet while the stream
\* stays and the instance keeps a status, its rows end up with that status.
StatusFollows ==
    \A i \in Instances, s \in Status :
        <>[](stream /\ master[i] = s /\ Quiet)
            => <>[](\A r \in RowsOf(i) : tunnels[r].status = s)

\* A row for each instance, and for no other (rows without an instance apart).
InStep ==
    \A i \in Instances : (RowsOf(i) # {}) <=> Alive(i)

\* Events that are lost or handled late leave an instance without its row, or a
\* row without its instance; refreshes that succeed again and again put that
\* right for good, lists they took too early included, provided that no group
\* holds a row.
RefreshHeals ==
    /\ <>[][FALSE]_master
    /\ <>[](Quiet /\ \A r \in Rows : ~tunnels[r].grouped)
    /\ []<><<\E c \in Calls : RefreshCommits(c)>>_vars
    => <>[]InStep
=============================================================================
