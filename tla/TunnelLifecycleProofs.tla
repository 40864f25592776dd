----------------------- MODULE TunnelLifecycleProofs -----------------------
(***************************************************************************)
(* Theorems about TunnelLifecycle: its types, and that no recount of the   *)
(* tunnels is forgotten.                                                   *)
(***************************************************************************)
EXTENDS TunnelLifecycle, TLAPS, FiniteSetTheorems

-----------------------------------------------------------------------------
(* Helpers                                                                 *)

\* A push keeps the queue a queue of events, no longer than its capacity.
LEMMA PushType ==
    ASSUME NEW q \in Seq(Event), Len(q) <= QueueSize,
           NEW t \in {"initial", "create", "update", "delete", "shutdown"},
           NEW i \in Instances \cup {NoInst}, NEW s \in Status
    PROVE  Push(q, t, i, s) \in Seq(Event) /\ Len(Push(q, t, i, s)) <= QueueSize
<1> DEFINE e == [type |-> t, inst |-> i, status |-> s]
<1>1. e \in Event
  BY DEF Event
<1>2. Append(q, e) \in Seq(Event) /\ Len(Append(q, e)) = Len(q) + 1
  BY <1>1
<1> QED
  BY <1>2, QueueAssumption DEF Push

\* A new row is a row.
LEMMA UngroupedType ==
    ASSUME NEW i \in Instances \cup {NoInst}, NEW s \in RowStatus
    PROVE  Ungrouped(i, s) \in Row /\ Ungrouped(i, s) # NoRow
<1>1. Ungrouped(i, s) \in Row
  BY DEF Ungrouped, Row
<1> QED
  BY <1>1, RowsAssumption

\* An update of statuses keeps the rows rows, and no row comes or goes.
LEMMA SetStatusType ==
    ASSUME tunnels \in [RowIds -> Row \cup {NoRow}],
           NEW S, S \subseteq Rows, NEW s \in RowStatus, SetStatus(S, s)
    PROVE  tunnels' \in [RowIds -> Row \cup {NoRow}] /\ Rows' = Rows
<1>1. \A r \in S : tunnels[r] \in Row /\ [tunnels[r] EXCEPT !.status = s] \in Row
  BY DEF Rows, Row
<1>2. \A r \in S : [tunnels[r] EXCEPT !.status = s] # NoRow
  BY <1>1, RowsAssumption
<1> QED
  BY <1>1, <1>2 DEF SetStatus, Rows

\* The rows of an instance are rows.
LEMMA RowsOfRows == \A i : RowsOf(i) \subseteq Rows
BY DEF RowsOf, Rows

\* The number of rows is a number.
LEMMA RowsCounted == Cardinality(Rows) \in Nat
BY RowsAssumption, FS_Subset, FS_CardinalityType DEF Rows

-----------------------------------------------------------------------------
(* Types                                                                   *)

RowsType == tunnels \in [RowIds -> Row \cup {NoRow}]
JobsType == jobs \in Seq(Event) /\ Len(jobs) <= QueueSize

\* The steps of the master and of the stream.
LEMMA StreamTypes == EventsTypeOK /\ StreamStep => EventsTypeOK'
<1> SUFFICES ASSUME EventsTypeOK, StreamStep PROVE EventsTypeOK'
  OBVIOUS
<1> USE DEF EventsTypeOK
<1> "running" \in Status /\ "stopped" \in Status /\ "offline" \in RowStatus
  BY DEF Status, RowStatus
<1>1. ASSUME NEW i \in Instances, InstanceStarts(i) PROVE EventsTypeOK'
  <2>1. jobs' \in Seq(Event) /\ Len(jobs') <= QueueSize
    BY <1>1, PushType DEF InstanceStarts
  <2> QED
    BY <1>1, <2>1 DEF InstanceStarts, MasterSets, MasterOnly, streamVars, countVars, Status
<1>2. ASSUME NEW i \in Instances, NEW s \in Status, InstanceReports(i, s) PROVE EventsTypeOK'
  <2>1. jobs' \in Seq(Event) /\ Len(jobs') <= QueueSize
    BY <1>2, PushType DEF InstanceReports
  <2> QED
    BY <1>2, <2>1 DEF InstanceReports, MasterSets, MasterOnly, streamVars, countVars
<1>3. ASSUME NEW i \in Instances, InstanceDeleted(i) PROVE EventsTypeOK'
  <2>1. jobs' \in Seq(Event) /\ Len(jobs') <= QueueSize
    BY <1>3, PushType DEF InstanceDeleted
  <2> QED
    BY <1>3, <2>1 DEF InstanceDeleted, MasterSets, MasterOnly, streamVars, countVars
<1>4. ASSUME NEW i \in Instances, SendInitial(i) PROVE EventsTypeOK'
  <2>1. jobs' \in Seq(Event) /\ Len(jobs') <= QueueSize
    BY <1>4, PushType DEF SendInitial, Alive
  <2> QED
    BY <1>4, <2>1 DEF SendInitial, countVars
<1>5. CASE StreamEnds
  <2>1. jobs' \in Seq(Event) /\ Len(jobs') <= QueueSize
    <3>1. CASE jobs' = jobs
      BY <3>1
    <3>2. CASE jobs' = Push(jobs, "shutdown", NoInst, "stopped")
      BY <3>2, PushType
    <3> QED
      BY <1>5, <3>1, <3>2 DEF StreamEnds
  <2> QED
    BY <1>5, <2>1 DEF StreamEnds, countVars
<1>6. CASE StreamBegins
  BY <1>6 DEF StreamBegins, countVars
<1>7. CASE MarkOffline
  <2>1. tunnels' \in [RowIds -> Row \cup {NoRow}]
    BY <1>7, SetStatusType DEF MarkOffline
  <2> QED
    BY <1>7, <2>1 DEF MarkOffline, countVars
<1> QED
  BY <1>1, <1>2, <1>3, <1>4, <1>5, <1>6, <1>7 DEF StreamStep

\* The recounts.
LEMMA CountTypes ==
    ASSUME EventsTypeOK, NEW c \in Counters, CountBegins(c) \/ CountEnds(c)
    PROVE  EventsTypeOK'
<1>1. CASE CountBegins(c)
  BY <1>1, RowsCounted DEF EventsTypeOK, CountBegins, streamVars
<1>2. CASE CountEnds(c)
  BY <1>2 DEF EventsTypeOK, CountEnds, NotCounting, streamVars
<1> QED
  BY <1>1, <1>2

\* A recount that is due.
LEMMA RecountType ==
    ASSUME EventsTypeOK, NEW c, Recount(c)
    PROVE  count' \in [Counters -> [pc : {"none", "due", "running"}, seen : Nat]]
BY DEF EventsTypeOK, Recount, Due

\* A goroutine of workerLoop that goes on, or takes no event any more.
LEMMA WorkerTypes ==
    ASSUME EventsTypeOK, NEW w \in Workers, WorkerOnly,
           Finish(w) \/ (\E l \in WorkerPc : Goto(w, l)),
           tunnels' \in [RowIds -> Row \cup {NoRow}],
           (UNCHANGED count) \/ Recount(w)
    PROVE  EventsTypeOK'
<1>1. NoEvent \in Event
  BY DEF NoEvent, Event, Status
<1>2. worker' \in [Workers -> [pc : WorkerPc, event : Event]]
  <2>1. CASE Finish(w)
    BY <1>1, <2>1 DEF EventsTypeOK, Finish, WorkerPc
  <2>2. ASSUME NEW l \in WorkerPc, Goto(w, l)
        PROVE  worker' \in [Workers -> [pc : WorkerPc, event : Event]]
    BY <2>2 DEF EventsTypeOK, Goto
  <2> QED
    BY <2>1, <2>2
<1>3. count' \in [Counters -> [pc : {"none", "due", "running"}, seen : Nat]]
  BY RecountType DEF EventsTypeOK
<1> QED
  BY <1>2, <1>3 DEF EventsTypeOK, WorkerOnly, streamVars

\* What a step of a goroutine of workerLoop does to the rows and the recounts.
LEMMA WorkerRows ==
    ASSUME EventsTypeOK, NEW w \in Workers, WorkerStep(w, FreeIds)
    PROVE  /\ EventsTypeOK'
           /\ Recount(w) \/ (UNCHANGED count /\ Rows' = Rows)
           /\ UNCHANGED <<tunnelCount, overlapped>>
<1> DEFINE e == worker[w].event
<1> e \in Event /\ e.inst \in Instances \cup {NoInst} /\ e.status \in RowStatus
  BY DEF EventsTypeOK, Event, RowStatus
<1> RowsType
  BY DEF RowsType, EventsTypeOK
<1>1. CASE Take(w)
  <2>1. Head(jobs) \in Event /\ Tail(jobs) \in Seq(Event) /\ Len(Tail(jobs)) <= QueueSize
    BY <1>1, QueueAssumption DEF Take, EventsTypeOK
  <2>2. FirstStep(Head(jobs).type) \in WorkerPc
    BY <2>1 DEF FirstStep, WorkerPc, Event
  <2>3. EventsTypeOK'
    BY <1>1, <2>1, <2>2 DEF Take, EventsTypeOK, streamVars, countVars
  <2> QED
    BY <1>1, <2>3 DEF Take, Rows, countVars
<1>2. CASE Lookup(w)
  <2>1. Finish(w) \/ \E l \in WorkerPc : Goto(w, l)
    BY <1>2 DEF Lookup, WorkerPc
  <2>2. UNCHANGED <<tunnels, count>> /\ WorkerOnly
    BY <1>2 DEF Lookup
  <2> QED
    BY <2>1, <2>2, WorkerTypes DEF RowsType, Rows, WorkerOnly
<1>3. CASE Write(w)
  <2>1. tunnels' \in [RowIds -> Row \cup {NoRow}] /\ Rows' = Rows
    BY <1>3, SetStatusType, RowsOfRows DEF Write, RowsType
  <2>2. Finish(w) /\ UNCHANGED count /\ WorkerOnly
    BY <1>3 DEF Write
  <2> QED
    BY <2>1, <2>2, WorkerTypes DEF WorkerOnly
<1>4. CASE Find(w)
  <2>1. Finish(w) \/ \E l \in WorkerPc : Goto(w, l)
    BY <1>4 DEF Find, WorkerPc
  <2>2. UNCHANGED <<tunnels, count>> /\ WorkerOnly
    BY <1>4 DEF Find
  <2> QED
    BY <2>1, <2>2, WorkerTypes DEF RowsType, Rows, WorkerOnly
<1>5. CASE Delete(w)
  <2>1. (DeleteRows(RowsOf(e.inst)) /\ Recount(w)) \/ UNCHANGED <<tunnels, count>>
    BY <1>5 DEF Delete
  <2>2. tunnels' \in [RowIds -> Row \cup {NoRow}]
    BY <2>1 DEF DeleteRows, RowsType
  <2>3. Finish(w) /\ WorkerOnly
    BY <1>5 DEF Delete
  <2> QED
    BY <2>1, <2>2, <2>3, WorkerTypes DEF WorkerOnly, Rows
<1>6. CASE Offline(w)
  <2>1. tunnels' \in [RowIds -> Row \cup {NoRow}] /\ Rows' = Rows
    BY <1>6, SetStatusType DEF Offline, RowsType, RowStatus
  <2>2. Finish(w) /\ UNCHANGED count /\ WorkerOnly
    BY <1>6 DEF Offline
  <2> QED
    BY <2>1, <2>2, WorkerTypes DEF WorkerOnly
<1>7. CASE Conflict(w)
  <2>1. UNCHANGED tunnels /\ Finish(w) /\ WorkerOnly /\ (Recount(w) \/ UNCHANGED count)
    BY <1>7 DEF Conflict
  <2> QED
    BY <2>1, WorkerTypes DEF RowsType, Rows, WorkerOnly
<1>8. ASSUME NEW r \in FreeIds, Insert(w, r)
      PROVE  /\ EventsTypeOK'
             /\ Recount(w) /\ UNCHANGED <<tunnelCount, overlapped>>
  <2>1. Ungrouped(e.inst, e.status) \in Row
    BY UngroupedType
  <2>2. tunnels' \in [RowIds -> Row \cup {NoRow}]
    BY <1>8, <2>1 DEF Insert, RowsType
  <2>3. Finish(w) /\ WorkerOnly /\ Recount(w)
    BY <1>8 DEF Insert
  <2> QED
    BY <2>2, <2>3, WorkerTypes DEF WorkerOnly
<1> QED
  BY <1>1, <1>2, <1>3, <1>4, <1>5, <1>6, <1>7, <1>8 DEF WorkerStep

\* The rows stay, or the goroutine has them counted again.
Kept(c) ==
    /\ Recount(c) \/ (UNCHANGED count /\ Rows' = Rows)
    /\ UNCHANGED <<tunnelCount, overlapped>>

\* The steps of the master and the stream leave the rows where they are.
LEMMA StreamRows ==
    ASSUME EventsTypeOK, StreamStep
    PROVE  UNCHANGED countVars /\ Rows' = Rows
<1>1. CASE MarkOffline
  <2>1. SetStatus(Rows, "offline") /\ UNCHANGED countVars
    BY <1>1 DEF MarkOffline
  <2> QED
    BY <2>1, SetStatusType DEF EventsTypeOK, RowStatus
<1>2. CASE StreamEnds \/ StreamBegins
  BY <1>2 DEF StreamEnds, StreamBegins, Rows
<1>3. ASSUME NEW i \in Instances,
             InstanceStarts(i) \/ InstanceDeleted(i) \/ SendInitial(i)
                \/ \E s \in Status : InstanceReports(i, s)
      PROVE  UNCHANGED countVars /\ Rows' = Rows
  BY <1>3 DEF InstanceStarts, InstanceDeleted, SendInitial, InstanceReports, MasterOnly, Rows
<1> QED
  BY <1>1, <1>2, <1>3 DEF StreamStep

-----------------------------------------------------------------------------
(* The calls                                                               *)

CallType == [op : Ops \cup {"none"}, pc : CallPc, inst : Instances \cup {NoInst},
             row : RowIds \cup {NoRow}, listed : Listing]

\* No call, and the empty list, have the types of a call and of a list.
LEMMA NoCallType == NothingListed \in Listing /\ NoCall \in CallType
BY DEF NothingListed, Listing, NoCall, CallType, CallPc

\* A call begins, goes on or answers.
LEMMA CallTypes ==
    ASSUME TypeOK, NEW c \in Calls,
           \/ Answer(c)
           \/ \E l \in CallPc : Move(c, l)
           \/ \E op \in Ops, l \in CallPc, i \in Instances \cup {NoInst},
                 r \in RowIds \cup {NoRow} : Begin(c, op, l, i, r)
    PROVE  call' \in [Calls -> CallType]
<1> call \in [Calls -> CallType]
  BY DEF TypeOK, CallType
<1>1. CASE Answer(c)
  BY <1>1, NoCallType DEF Answer
<1>2. ASSUME NEW l \in CallPc, Move(c, l) PROVE call' \in [Calls -> CallType]
  <2>1. call[c] \in CallType
    OBVIOUS
  <2>2. [call[c] EXCEPT !.pc = l] \in CallType
    BY <2>1 DEF CallType
  <2>3. call' = [call EXCEPT ![c] = [call[c] EXCEPT !.pc = l]]
    BY <1>2 DEF Move
  <2> QED
    BY <2>2, <2>3
<1>3. ASSUME NEW op \in Ops, NEW l \in CallPc, NEW i \in Instances \cup {NoInst},
             NEW r \in RowIds \cup {NoRow}, Begin(c, op, l, i, r)
      PROVE  call' \in [Calls -> CallType]
  <2>1. [NoCall EXCEPT !.op = op, !.pc = l, !.inst = i, !.row = r] \in CallType
    BY NoCallType DEF CallType
  <2> QED
    BY <1>3, <2>1 DEF Begin
<1> QED
  BY <1>1, <1>2, <1>3

\* A call that acts on the rows only.
LEMMA RowsTypes ==
    ASSUME EventsTypeOK, NEW c \in Calls, RowsOnly,
           tunnels' \in [RowIds -> Row \cup {NoRow}],
           (UNCHANGED count) \/ Recount(c)
    PROVE  EventsTypeOK'
<1>1. count' \in [Counters -> [pc : {"none", "due", "running"}, seen : Nat]]
  BY RecountType DEF EventsTypeOK
<1> QED
  BY <1>1 DEF EventsTypeOK, RowsOnly, streamVars

\* A call that acts on the master only.
LEMMA RemoteTypes ==
    ASSUME EventsTypeOK, RemoteOnly,
           NEW i, NEW s \in Status \cup {"unborn", "gone"}, MasterSets(i, s),
           jobs' \in Seq(Event), Len(jobs') <= QueueSize
    PROVE  EventsTypeOK' /\ UNCHANGED countVars /\ Rows' = Rows
BY DEF EventsTypeOK, RemoteOnly, MasterSets, streamVars, countVars, Rows

\* A call that acts on nothing yet.
LEMMA CallOnlyTypes ==
    ASSUME EventsTypeOK, CallOnly
    PROVE  EventsTypeOK' /\ UNCHANGED countVars /\ Rows' = Rows
BY DEF EventsTypeOK, CallOnly, eventVars, streamVars, countVars, Rows

\* The requests.
LEMMA RequestTypes ==
    ASSUME TypeOK, NEW c \in Calls, Request(c)
    PROVE  TypeOK' /\ UNCHANGED countVars /\ Rows' = Rows
<1> EventsTypeOK /\ "running" \in Status /\ "stopped" \in Status
  BY DEF TypeOK, Status
<1> jobs \in Seq(Event) /\ Len(jobs) <= QueueSize /\ RowsType
  BY DEF EventsTypeOK, RowsType
<1>1. ASSUME NEW op \in Creations, NEW i \in Instances, CreateRemote(c, op, i)
      PROVE  TypeOK' /\ UNCHANGED countVars /\ Rows' = Rows
  <2>1. jobs' \in Seq(Event) /\ Len(jobs') <= QueueSize
    BY <1>1, PushType DEF CreateRemote
  <2>2. EventsTypeOK' /\ UNCHANGED countVars /\ Rows' = Rows
    BY <1>1, <2>1, RemoteTypes DEF CreateRemote
  <2>3. op \in Ops /\ "awaitRow" \in CallPc
    BY <1>1 DEF CreateRemote, Begin, CallPc
  <2>4. call' \in [Calls -> CallType]
    BY <1>1, <2>3, CallTypes DEF CreateRemote
  <2> QED
    BY <2>2, <2>4 DEF TypeOK, CallType
<1>2. ASSUME NEW r \in RowIds, DeleteById(c, r) \/ DeleteByInst(c, r)
      PROVE  TypeOK' /\ UNCHANGED countVars /\ Rows' = Rows
  <2>1. tunnels[r].inst \in Instances \cup {NoInst}
    BY <1>2 DEF DeleteById, DeleteByInst, Rows, RowsType, Row
  <2>2. \E op \in Ops, l \in CallPc, i \in Instances \cup {NoInst}, d \in RowIds \cup {NoRow} :
            Begin(c, op, l, i, d)
    <3>1. CASE DeleteById(c, r)
      <4>1. Begin(c, "deleteId", "clear", tunnels[r].inst, r)
        BY <3>1 DEF DeleteById
      <4> QED
        BY <2>1, <4>1 DEF Begin, CallPc
    <3>2. CASE DeleteByInst(c, r)
      <4>1. Begin(c, "deleteInst", "remote", tunnels[r].inst, r)
        BY <3>2 DEF DeleteByInst
      <4> QED
        BY <2>1, <4>1 DEF Begin, CallPc
    <3> QED
      BY <1>2, <3>1, <3>2
  <2>3. call' \in [Calls -> CallType]
    BY <2>2, CallTypes
  <2>4. CallOnly
    BY <1>2 DEF DeleteById, DeleteByInst
  <2> QED
    BY <2>3, <2>4, CallOnlyTypes DEF TypeOK, CallType
<1>3. ASSUME NEW op \in Controls, NEW r \in RowIds, ControlRemote(c, op, r)
      PROVE  TypeOK' /\ UNCHANGED countVars /\ Rows' = Rows
  <2> DEFINE i == tunnels[r].inst
             q == IF op = "restart" THEN Push(jobs, "update", i, "stopped") ELSE jobs
  <2>1. i \in Instances /\ Target(op) \in Status
    BY <1>3 DEF ControlRemote, Rows, RowsType, Row, Target
  <2>2. q \in Seq(Event) /\ Len(q) <= QueueSize
    BY <2>1, PushType
  <2>3. jobs' = Push(q, "update", i, Target(op))
    BY <1>3 DEF ControlRemote
  <2>4. jobs' \in Seq(Event) /\ Len(jobs') <= QueueSize
    <3> HIDE DEF q, i
    <3> QED
      BY <2>1, <2>2, <2>3, PushType
  <2>5. MasterSets(i, Target(op)) /\ RemoteOnly /\ Begin(c, op, "awaitStatus", i, NoRow)
    BY <1>3 DEF ControlRemote
  <2>6. EventsTypeOK' /\ UNCHANGED countVars /\ Rows' = Rows
    BY <2>1, <2>4, <2>5, RemoteTypes
  <2>7. op \in Ops /\ "awaitStatus" \in CallPc
    BY <2>5 DEF Begin, CallPc
  <2>8. call' \in [Calls -> CallType]
    BY <2>1, <2>5, <2>7, CallTypes
  <2> QED
    BY <2>6, <2>8 DEF TypeOK, CallType
<1>4. CASE RefreshList(c)
  <2>1. Listed \in Listing
    BY DEF Listed, Listing, Alive
  <2>2. "refresh" \in Ops /\ "commit" \in CallPc
    BY <1>4 DEF RefreshList, CallPc
  <2>3. [NoCall EXCEPT !.op = "refresh", !.pc = "commit", !.listed = Listed] \in CallType
    BY <2>1, <2>2, NoCallType DEF CallType
  <2>4. call' \in [Calls -> CallType]
    BY <1>4, <2>3 DEF RefreshList, TypeOK, CallType
  <2>5. CallOnly
    BY <1>4 DEF RefreshList
  <2> QED
    BY <2>4, <2>5, CallOnlyTypes DEF TypeOK, CallType
<1> QED
  BY <1>1, <1>2, <1>3, <1>4 DEF Request

\* The rows after a refresh are rows.
LEMMA MirroredType ==
    ASSUME EventsTypeOK, NEW list \in Listing, NEW new \in [Missing(list) -> FreeIds]
    PROVE  Mirrored(list, new) \in [RowIds -> Row \cup {NoRow}]
<1> RowsType
  BY DEF EventsTypeOK, RowsType
<1>1. ASSUME NEW r \in RowIds, r \in Rows, r \notin Unlisted(list), tunnels[r].inst # NoInst
      PROVE  [tunnels[r] EXCEPT !.status = list[tunnels[r].inst]] \in Row
  <2>1. tunnels[r] \in Row
    BY <1>1 DEF RowsType, Rows
  <2>2. tunnels[r].inst \in Instances /\ list[tunnels[r].inst] # "absent"
    BY <1>1, <2>1 DEF Unlisted, Row
  <2>3. list[tunnels[r].inst] \in RowStatus
    BY <2>2 DEF Listing, RowStatus
  <2> QED
    BY <2>1, <2>3 DEF Row
<1>2. ASSUME NEW r \in RowIds, \E i \in Missing(list) : new[i] = r
      PROVE  LET i == CHOOSE j \in Missing(list) : new[j] = r
             IN  Ungrouped(i, list[i]) \in Row
  <2> DEFINE i == CHOOSE j \in Missing(list) : new[j] = r
  <2>1. i \in Missing(list)
    BY <1>2
  <2>2. i \in Instances /\ list[i] \in RowStatus
    BY <2>1 DEF Missing, Listing, RowStatus
  <2> QED
    BY <2>2, UngroupedType
<1>3. ASSUME NEW r \in RowIds PROVE Mirrored(list, new)[r] \in Row \cup {NoRow}
  BY <1>1, <1>2 DEF Mirrored, RowsType
<1> QED
  BY <1>3 DEF Mirrored

\* The rest of a call.
LEMMA CallStepTypes ==
    ASSUME TypeOK, NEW c \in Calls, CallStep(c)
    PROVE  TypeOK' /\ Kept(c)
<1> EventsTypeOK /\ "stopped" \in Status /\ "running" \in RowStatus /\ "stopped" \in RowStatus
  BY DEF TypeOK, Status, RowStatus
<1> call[c] \in CallType /\ call[c].inst \in Instances \cup {NoInst} /\ call[c].listed \in Listing
  BY DEF TypeOK, CallType
<1> RowsType /\ jobs \in Seq(Event) /\ Len(jobs) <= QueueSize
  BY DEF EventsTypeOK, RowsType
<1>1. ASSUME CallOnly, Answer(c) \/ \E l \in CallPc : Move(c, l)
      PROVE  TypeOK' /\ Kept(c)
  <2>1. call' \in [Calls -> CallType]
    BY <1>1, CallTypes
  <2> QED
    BY <1>1, <2>1, CallOnlyTypes DEF TypeOK, CallType, Kept, countVars
<1>2. ASSUME RowsOnly, Answer(c), tunnels' \in [RowIds -> Row \cup {NoRow}],
             Recount(c) \/ (UNCHANGED count /\ Rows' = Rows)
      PROVE  TypeOK' /\ Kept(c)
  <2>1. call' \in [Calls -> CallType]
    BY <1>2, CallTypes
  <2>2. EventsTypeOK'
    BY <1>2, RowsTypes
  <2> QED
    BY <1>2, <2>1, <2>2 DEF TypeOK, CallType, Kept, RowsOnly
<1>3. CASE \/ RowAwaited(c) \/ RowMissing(c) \/ OwnConflict(c) \/ ClearGroups(c)
           \/ DeleteUnknown(c) \/ DeleteRefused(c) \/ Gone(c) \/ GoneAwaited(c)
  BY <1>1, <1>3 DEF RowAwaited, RowMissing, OwnConflict, ClearGroups, DeleteUnknown,
                    DeleteRefused, Gone, GoneAwaited, CallPc
<1>4. CASE \/ StatusAwaited(c) \/ StatusSeen(c) \/ StatusMissing(c) \/ RefreshFails(c)
  BY <1>1, <1>4 DEF StatusAwaited, StatusSeen, StatusMissing, RefreshFails, CallPc
<1>5. CASE RowFound(c)
  <2>1. UNCHANGED tunnels /\ RowsOnly /\ Recount(c) /\ Answer(c)
    BY <1>5 DEF RowFound
  <2> QED
    BY <2>1, <1>2 DEF RowsType
<1>6. ASSUME NEW r \in FreeIds, InsertOwn(c, r) PROVE TypeOK' /\ Kept(c)
  <2>1. OwnRow(c) \in Row
    BY UngroupedType DEF OwnRow
  <2>2. tunnels' \in [RowIds -> Row \cup {NoRow}]
    BY <1>6, <2>1 DEF InsertOwn, RowsType
  <2>3. RowsOnly /\ Recount(c) /\ Answer(c)
    BY <1>6 DEF InsertOwn
  <2> QED
    BY <2>2, <2>3, <1>2
<1>7. CASE DeleteRemote(c)
  <2>1. jobs' \in Seq(Event) /\ Len(jobs') <= QueueSize
    BY <1>7, PushType DEF DeleteRemote
  <2>2. RemoteOnly /\ MasterSets(call[c].inst, "gone")
    BY <1>7 DEF DeleteRemote
  <2>3. EventsTypeOK' /\ UNCHANGED countVars /\ Rows' = Rows
    BY <2>1, <2>2, RemoteTypes
  <2>4. \E l \in CallPc : Move(c, l)
    BY <1>7 DEF DeleteRemote, CallPc
  <2>5. call' \in [Calls -> CallType]
    BY <2>4, CallTypes
  <2> QED
    BY <2>3, <2>5 DEF TypeOK, CallType, Kept, countVars
<1>8. CASE ForceDelete(c)
  <2>1. RowsOnly /\ Answer(c)
    BY <1>8 DEF ForceDelete
  <2>2. (DeleteRows({call[c].row} \cap Rows) /\ Recount(c)) \/ UNCHANGED <<tunnels, count>>
    BY <1>8 DEF ForceDelete
  <2>3. tunnels' \in [RowIds -> Row \cup {NoRow}]
    BY <2>2 DEF DeleteRows, RowsType
  <2>4. Recount(c) \/ (UNCHANGED count /\ Rows' = Rows)
    BY <2>2 DEF Rows
  <2> QED
    BY <2>1, <2>3, <2>4, <1>2
<1>9. CASE UpdateStatus(c)
  <2>1. SetStatus(RowsOf(call[c].inst), Target(call[c].op)) /\ Answer(c)
        /\ UNCHANGED count /\ RowsOnly
    BY <1>9 DEF UpdateStatus
  <2>2. tunnels' \in [RowIds -> Row \cup {NoRow}] /\ Rows' = Rows
    BY <2>1, SetStatusType, RowsOfRows DEF RowsType, Target
  <2> QED
    BY <2>1, <2>2, <1>2
<1>10. CASE RefreshCommits(c)
  <2>1. PICK new \in [Missing(call[c].listed) -> FreeIds] :
            tunnels' = Mirrored(call[c].listed, new)
    BY <1>10 DEF RefreshCommits
  <2>2. tunnels' \in [RowIds -> Row \cup {NoRow}]
    BY <2>1, MirroredType
  <2>3. RowsOnly /\ Recount(c) /\ Answer(c)
    BY <1>10 DEF RefreshCommits
  <2> QED
    BY <2>2, <2>3, <1>2
<1> QED
  BY <1>3, <1>4, <1>5, <1>6, <1>7, <1>8, <1>9, <1>10 DEF CallStep

-----------------------------------------------------------------------------
(* Theorems                                                                *)

\* Every step keeps the types.
LEMMA StepTypes == TypeOK /\ [Next]_vars => TypeOK'
<1> SUFFICES ASSUME TypeOK, [Next]_vars PROVE TypeOK'
  OBVIOUS
<1> EventsTypeOK
  BY DEF TypeOK
<1>1. ASSUME EventStep PROVE TypeOK'
  <2>1. EventsTypeOK'
    BY <1>1, StreamTypes, WorkerRows, CountTypes DEF EventStep
  <2>2. UNCHANGED call
    BY <1>1 DEF EventStep
  <2> QED
    BY <2>1, <2>2 DEF TypeOK
<1>2. ASSUME NEW c \in Calls, Request(c) \/ CallStep(c) PROVE TypeOK'
  BY <1>2, RequestTypes, CallStepTypes
<1>3. ASSUME NEW r \in RowIds, Regroup(r) PROVE TypeOK'
  <2>1. tunnels[r] \in Row /\ tunnels' = [tunnels EXCEPT ![r].grouped = ~@]
    BY <1>3 DEF Regroup, EventsTypeOK, Rows
  <2>2. [tunnels[r] EXCEPT !.grouped = ~@] \in Row
    BY <2>1 DEF Row
  <2>3. tunnels' \in [RowIds -> Row \cup {NoRow}]
    BY <2>1, <2>2 DEF EventsTypeOK
  <2> QED
    BY <1>3, <2>3 DEF Regroup, TypeOK, EventsTypeOK, streamVars, countVars
<1>4. CASE UNCHANGED vars
  BY <1>4 DEF vars, eventVars, streamVars, countVars, TypeOK, EventsTypeOK
<1> QED
  BY <1>1, <1>2, <1>3, <1>4 DEF Next

\* The first state has the types.
LEMMA InitTypes == Init => TypeOK
<1> SUFFICES ASSUME Init PROVE TypeOK
  OBVIOUS
<1>1. EventsTypeOK
  <2>1. NoEvent \in Event /\ NotCounting \in [pc : {"none", "due", "running"}, seen : Nat]
    BY DEF NoEvent, Event, Status, NotCounting
  <2>2. /\ worker \in [Workers -> [pc : WorkerPc, event : Event]]
        /\ count \in [Counters -> [pc : {"none", "due", "running"}, seen : Nat]]
    BY <2>1 DEF Init, EventsInit, WorkerPc
  <2>3. jobs \in Seq(Event) /\ Len(jobs) <= QueueSize
    BY QueueAssumption DEF Init, EventsInit
  <2> QED
    BY <2>2, <2>3 DEF Init, EventsInit, EventsTypeOK
<1>2. call \in [Calls -> CallType]
  BY NoCallType DEF Init
<1> QED
  BY <1>1, <1>2 DEF TypeOK, CallType

\* The rows, events, recounts and calls keep their types, however many there are.
THEOREM TypeCorrect == Spec => []TypeOK
BY InitTypes, StepTypes, PTL DEF Spec

\* While no two recounts have overlapped, at most one runs, and a recount is due, or
\* the one that runs has seen the rows as they are, or the count is right.
Settled ==
    /\ \A c, d \in Counters : count[c].pc = "running" /\ count[d].pc = "running" => c = d
    /\ \/ \E c \in Counters : count[c].pc = "due"
       \/ \E c \in Counters : count[c].pc = "running" /\ count[c].seen = Cardinality(Rows)
       \/ /\ \A c \in Counters : count[c].pc = "none"
          /\ tunnelCount = Cardinality(Rows)

IInv == TypeOK /\ (overlapped \/ Settled)

\* A goroutine that has a recount due settles whatever it did to the rows.
LEMMA RecountSettles ==
    ASSUME Recounting = TRUE, EventsTypeOK, Settled, NEW c \in Counters, Recount(c)
    PROVE  Settled'
<1>1. count' = [count EXCEPT ![c] = Due]
  BY DEF Recount
<1>2. count'[c].pc = "due" /\ \A d \in Counters : d # c => count'[d] = count[d]
  BY <1>1 DEF EventsTypeOK, Due
<1>3. \A d, e \in Counters : count'[d].pc = "running" /\ count'[e].pc = "running" => d = e
  BY <1>2 DEF Settled
<1> QED
  BY <1>2, <1>3 DEF Settled

\* Steps that keep the rows, or have them counted, keep the invariant.
LEMMA KeptSettled ==
    ASSUME Recounting = TRUE, EventsTypeOK, overlapped \/ Settled,
           NEW c \in Counters, Kept(c)
    PROVE  overlapped' \/ Settled'
BY RecountSettles DEF Kept, Settled

LEMMA SameSettled ==
    ASSUME overlapped \/ Settled, UNCHANGED countVars, Rows' = Rows
    PROVE  overlapped' \/ Settled'
BY DEF countVars, Settled

\* A recount that begins sees the rows as they are, and is alone or overlaps.
LEMMA BeginSettles ==
    ASSUME EventsTypeOK, overlapped \/ Settled, NEW c \in Counters, CountBegins(c)
    PROVE  overlapped' \/ Settled'
<1> SUFFICES ASSUME ~overlapped', Settled PROVE Settled'
  BY DEF CountBegins
<1>1. \A d \in Counters : count[d].pc # "running"
  BY DEF CountBegins
<1>2. Rows' = Rows
  BY DEF CountBegins, Rows
<1>3. count'[c].pc = "running" /\ count'[c].seen = Cardinality(Rows)
  BY DEF CountBegins, EventsTypeOK
<1>4. \A d \in Counters : d # c => count'[d] = count[d]
  BY DEF CountBegins, EventsTypeOK
<1> QED
  BY <1>1, <1>2, <1>3, <1>4 DEF Settled

\* A recount that ends was alone: it stores what it has seen, or another is due.
LEMMA EndSettles ==
    ASSUME EventsTypeOK, overlapped \/ Settled, NEW c \in Counters, CountEnds(c)
    PROVE  overlapped' \/ Settled'
<1> SUFFICES ASSUME Settled PROVE Settled'
  BY DEF CountEnds
<1>1. Rows' = Rows
  BY DEF CountEnds, Rows
<1>2. count[c].pc = "running" /\ tunnelCount' = count[c].seen
  BY DEF CountEnds
<1>3. count'[c].pc = "none" /\ \A d \in Counters : d # c => count'[d] = count[d]
  BY DEF CountEnds, EventsTypeOK, NotCounting
<1>4. \A d \in Counters : count'[d].pc # "running"
  BY <1>2, <1>3 DEF Settled
<1>5. CASE \E d \in Counters : count[d].pc = "due"
  <2>1. \E d \in Counters : count'[d].pc = "due"
    BY <1>2, <1>3, <1>5
  <2> QED
    BY <1>4, <2>1 DEF Settled
<1>6. CASE \A d \in Counters : count[d].pc # "due"
  <2>1. count[c].seen = Cardinality(Rows)
    BY <1>2, <1>6 DEF Settled
  <2>2. \A d \in Counters : count'[d].pc = "none"
    BY <1>3, <1>4, <1>6 DEF EventsTypeOK
  <2> QED
    BY <1>1, <1>2, <2>1, <2>2, <1>4 DEF Settled
<1> QED
  BY <1>5, <1>6

\* The invariant is inductive.
LEMMA StepSettled ==
    ASSUME Recounting = TRUE, IInv, [Next]_vars
    PROVE  IInv'
<1> TypeOK /\ EventsTypeOK /\ (overlapped \/ Settled)
  BY DEF IInv, TypeOK
<1>1. TypeOK'
  BY StepTypes
<1>2. ASSUME EventStep PROVE overlapped' \/ Settled'
  <2>1. CASE StreamStep
    BY <2>1, StreamRows, SameSettled
  <2>2. ASSUME NEW w \in Workers, WorkerStep(w, FreeIds) PROVE overlapped' \/ Settled'
    <3>1. Kept(w) /\ w \in Counters
      BY <2>2, WorkerRows DEF Kept, Counters
    <3> QED
      BY <3>1, KeptSettled
  <2>3. ASSUME NEW c \in Counters, CountBegins(c) \/ CountEnds(c)
        PROVE  overlapped' \/ Settled'
    BY <2>3, BeginSettles, EndSettles
  <2> QED
    BY <1>2, <2>1, <2>2, <2>3 DEF EventStep
<1>3. ASSUME NEW c \in Calls, Request(c) PROVE overlapped' \/ Settled'
  BY <1>3, RequestTypes, SameSettled
<1>4. ASSUME NEW c \in Calls, CallStep(c) PROVE overlapped' \/ Settled'
  <2>1. Kept(c) /\ c \in Counters
    BY <1>4, CallStepTypes DEF Counters
  <2> QED
    BY <2>1, KeptSettled
<1>5. ASSUME NEW r \in RowIds, Regroup(r) PROVE overlapped' \/ Settled'
  <2>1. tunnels[r] \in Row /\ tunnels' = [tunnels EXCEPT ![r].grouped = ~@]
    BY <1>5 DEF Regroup, EventsTypeOK, Rows
  <2>2. [tunnels[r] EXCEPT !.grouped = ~@] \in Row
    BY <2>1 DEF Row
  <2>3. tunnels'[r] # NoRow
    BY <2>1, <2>2, RowsAssumption DEF EventsTypeOK
  <2>4. Rows' = Rows
    BY <2>1, <2>3, RowsAssumption DEF Rows, EventsTypeOK
  <2>5. UNCHANGED countVars
    BY <1>5 DEF Regroup
  <2> QED
    BY <2>4, <2>5, SameSettled
<1>6. ASSUME UNCHANGED vars PROVE overlapped' \/ Settled'
  <2>1. Rows' = Rows /\ UNCHANGED countVars
    BY <1>6 DEF vars, eventVars, Rows
  <2> QED
    BY <2>1, SameSettled
<1>7. overlapped' \/ Settled'
  BY <1>2, <1>3, <1>4, <1>5, <1>6 DEF Next
<1> QED
  BY <1>1, <1>7 DEF IInv

\* No recount of the tunnels is forgotten, whatever the number of workers, requests,
\* rows and instances: handlers and calls that add or remove rows leave a recount
\* behind that will see them.
THEOREM CountIsCovered ==
    ASSUME Recounting = TRUE
    PROVE  Spec => []CountCovered
<1>1. Init => IInv
  <2> SUFFICES ASSUME Init PROVE IInv
    OBVIOUS
  <2>1. Rows = {}
    BY DEF Init, EventsInit, Rows
  <2>2. tunnelCount = Cardinality(Rows) /\ \A c \in Counters : count[c].pc = "none"
    BY <2>1, FS_EmptySet DEF Init, EventsInit, NotCounting
  <2> QED
    BY <2>2, InitTypes DEF IInv, Settled
<1>2. IInv /\ [Next]_vars => IInv'
  BY StepSettled
<1>3. IInv => CountCovered
  BY DEF IInv, Settled, CountCovered
<1> QED
  BY <1>1, <1>2, <1>3, PTL DEF Spec
=============================================================================
