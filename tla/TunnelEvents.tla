---------------------------- MODULE TunnelEvents ----------------------------
(***************************************************************************)
(* The rows of table tunnels of one endpoint, and the events that keep them*)
(* in step with the instances of the master (internal/sse/service.go).  The*)
(* stream of the master fills Manager.jobs, and the goroutines of          *)
(* Manager.workerLoop each take one event and handle it to the end, so two *)
(* events may be handled in either order, or at the same time.             *)
(*                                                                         *)
(* A statement sent to the database is a step of its own.  The recount of  *)
(* endpoints.tunnel_count is one statement and yet two steps: PostgreSQL   *)
(* reads its subquery in a snapshot taken when the statement begins, and   *)
(* the statement may then wait for another one that writes the same row of *)
(* endpoints.                                                              *)
(*                                                                         *)
(* Abstracted: a row is its instance, its status and whether a row of      *)
(* tunnel_groups refers to it; names, URLs, traffic and operation logs are *)
(* left out (TunnelOperationLog has no foreign key), and so are the rows of*)
(* services and the log event, which writes no row.  No statement fails but*)
(* for a constraint.  Row ids are given again only when nothing holds them,*)
(* where the database never gives one again.  Bounds: QueueSize (30000 in  *)
(* the code), and the row ids.                                             *)
(***************************************************************************)
EXTENDS Naturals, Sequences, FiniteSets

CONSTANTS
    Instances,  \* instances of the master
    NoInst,     \* instance_id NULL
    RowIds,     \* ids of rows of tunnels
    NoRow,      \* no such row
    Workers,    \* goroutines of Manager.workerLoop
    Calls,      \* other goroutines that recount the tunnels
    QueueSize,  \* capacity of Manager.jobs
    Recounting, \* bound: FALSE leaves out the recounts, whose result nobody reads
    Stimuli     \* bound: what the master does unasked, whether streams end, and
                \* whether that marks the tunnels offline

Status == {"running", "stopped"}
RowStatus == Status \cup {"offline"}
Row == [inst : Instances \cup {NoInst}, status : RowStatus, grouped : BOOLEAN]
Counters == Workers \cup Calls

ASSUME RowsAssumption == IsFiniteSet(RowIds) /\ NoRow \notin Row
ASSUME InstanceAssumption == NoInst \notin Instances
ASSUME StimuliAssumption ==
    Stimuli \subseteq {"start", "change", "delete", "report", "end", "offline"}
ASSUME RecountingAssumption == Recounting \in BOOLEAN
ASSUME QueueAssumption == QueueSize \in Nat \ {0}

VARIABLES
    master,      \* the state of each instance on the master
    stream,      \* the event stream of the endpoint is up
    burst,       \* instances whose initial event the new stream has yet to send
    marking,     \* markEndpointFail or markEndpointDisconnect is half done
    jobs,        \* Manager.jobs
    worker,      \* each goroutine of workerLoop
    tunnels,     \* the rows of tunnels
    count,       \* the recount each goroutine is to run, or runs
    tunnelCount, \* endpoints.tunnel_count
    overlapped   \* history: two recounts have run at the same time

streamVars == <<stream, burst, marking>>
countVars == <<count, tunnelCount, overlapped>>
eventVars == <<master, streamVars, jobs, worker, tunnels, countVars>>

Event == [type : {"initial", "create", "update", "delete", "shutdown"},
          inst : Instances \cup {NoInst}, status : Status]

WorkerPc == {"idle", "lookup", "write", "insert", "upsert", "find", "delete",
             "offline"}

NoEvent == [type |-> "shutdown", inst |-> NoInst, status |-> "stopped"]

EventsTypeOK ==
    /\ master \in [Instances -> Status \cup {"unborn", "gone"}]
    /\ stream \in BOOLEAN /\ marking \in BOOLEAN
    /\ burst \subseteq Instances
    /\ jobs \in Seq(Event) /\ Len(jobs) <= QueueSize
    /\ worker \in [Workers -> [pc : WorkerPc, event : Event]]
    /\ tunnels \in [RowIds -> Row \cup {NoRow}]
    /\ count \in [Counters -> [pc : {"none", "due", "running"}, seen : Nat]]
    /\ tunnelCount \in Nat
    /\ overlapped \in BOOLEAN

NotCounting == [pc |-> "none", seen |-> 0]
Due == [pc |-> "due", seen |-> 0]

EventsInit ==
    /\ master = [i \in Instances |-> "unborn"]
    /\ stream = TRUE /\ burst = {} /\ marking = FALSE
    /\ jobs = <<>>
    /\ worker = [w \in Workers |-> [pc |-> "idle", event |-> NoEvent]]
    /\ tunnels = [r \in RowIds |-> NoRow]
    /\ count = [c \in Counters |-> NotCounting]
    /\ tunnelCount = 0
    /\ overlapped = FALSE

-----------------------------------------------------------------------------
(* The rows                                                                *)

RowsOf(i) == {r \in RowIds : tunnels[r] # NoRow /\ tunnels[r].inst = i}
Rows == {r \in RowIds : tunnels[r] # NoRow}

Ungrouped(i, s) == [inst |-> i, status |-> s, grouped |-> FALSE]

\* UPDATE tunnels SET status = s for the rows in S.
SetStatus(S, s) ==
    tunnels' = [r \in RowIds |-> IF r \in S THEN [tunnels[r] EXCEPT !.status = s]
                                 ELSE tunnels[r]]

\* tunnel_groups.tunnel_id is a foreign key: a row it names cannot be deleted.
Deletable(S) == \A r \in S : ~tunnels[r].grouped

DeleteRows(S) == tunnels' = [r \in RowIds |-> IF r \in S THEN NoRow ELSE tunnels[r]]

-----------------------------------------------------------------------------
(* The recount, in a worker or in a goroutine of its own                   *)

Recount(c) == count' = IF Recounting THEN [count EXCEPT ![c] = Due] ELSE count

CountBegins(c) ==
    /\ count[c].pc = "due"
    /\ count' = [count EXCEPT ![c] = [pc |-> "running", seen |-> Cardinality(Rows)]]
    /\ overlapped' = (overlapped \/ \E d \in Counters : count[d].pc = "running")
    /\ UNCHANGED <<master, streamVars, jobs, worker, tunnels, tunnelCount>>

CountEnds(c) ==
    /\ count[c].pc = "running"
    /\ tunnelCount' = count[c].seen
    /\ count' = [count EXCEPT ![c] = NotCounting]
    /\ UNCHANGED <<master, streamVars, jobs, worker, tunnels, overlapped>>

-----------------------------------------------------------------------------
(* The master and its stream.  An event that finds the queue full, or the  *)
(* stream down, is lost.                                                   *)

Alive(i) == master[i] \in Status

Push(q, t, i, s) ==
    IF stream /\ Len(q) < QueueSize
    THEN Append(q, [type |-> t, inst |-> i, status |-> s]) ELSE q

MasterSets(i, s) == master' = [master EXCEPT ![i] = s]

\* What the master does of itself, or for somebody else, changes its own state
\* and sends an event.
MasterOnly == UNCHANGED <<streamVars, worker, tunnels, countVars>>

InstanceStarts(i) ==
    /\ "start" \in Stimuli /\ master[i] = "unborn"
    /\ MasterSets(i, "running")
    /\ jobs' = Push(jobs, "create", i, "running")
    /\ MasterOnly

\* An instance reports its status, a new one or that of before.
InstanceReports(i, s) ==
    /\ (IF s = master[i] THEN "report" ELSE "change") \in Stimuli
    /\ Alive(i)
    /\ MasterSets(i, s)
    /\ jobs' = Push(jobs, "update", i, s)
    /\ MasterOnly

\* The periodic report of an instance that has not changed.
Report(i) == \E s \in Status : s = master[i] /\ InstanceReports(i, s)

InstanceDeleted(i) ==
    /\ "delete" \in Stimuli /\ Alive(i)
    /\ MasterSets(i, "gone")
    /\ jobs' = Push(jobs, "delete", i, "stopped")
    /\ MasterOnly

\* The stream ends, with the shutdown event or without.  If the status of the
\* endpoint changes, its tunnels are marked offline by a second statement.
StreamEnds ==
    /\ "end" \in Stimuli /\ stream
    /\ stream' = FALSE /\ burst' = {}
    /\ \/ UNCHANGED <<marking, jobs>>
       \/ /\ "offline" \in Stimuli
          /\ marking' \in {marking, TRUE}
          /\ jobs' \in {jobs, Push(jobs, "shutdown", NoInst, "stopped")}
    /\ UNCHANGED <<master, worker, tunnels, countVars>>

MarkOffline ==
    /\ marking
    /\ marking' = FALSE
    /\ SetStatus(Rows, "offline")
    /\ UNCHANGED <<master, stream, burst, jobs, worker, countVars>>

\* A new stream begins with an initial event for each instance.
StreamBegins ==
    /\ ~stream
    /\ stream' = TRUE
    /\ burst' = {i \in Instances : Alive(i)}
    /\ UNCHANGED <<master, marking, jobs, worker, tunnels, countVars>>

SendInitial(i) ==
    /\ i \in burst
    /\ burst' = burst \ {i}
    /\ jobs' = IF Alive(i) THEN Push(jobs, "initial", i, master[i]) ELSE jobs
    /\ UNCHANGED <<master, stream, marking, worker, tunnels, countVars>>

-----------------------------------------------------------------------------
(* workerLoop, processPayload and Service.ProcessEvent                     *)

Goto(w, l) == worker' = [worker EXCEPT ![w].pc = l]
Finish(w) == worker' = [worker EXCEPT ![w] = [pc |-> "idle", event |-> NoEvent]]
WorkerOnly == UNCHANGED <<master, streamVars, jobs, tunnelCount, overlapped>>

FirstStep(t) == CASE t = "initial" -> "lookup"
                  [] t = "update" -> "lookup"
                  [] t = "create" -> "upsert"
                  [] t = "delete" -> "find"
                  [] t = "shutdown" -> "offline"

Take(w) ==
    /\ worker[w].pc = "idle" /\ count[w].pc = "none"
    /\ jobs # <<>>
    /\ jobs' = Tail(jobs)
    /\ worker' = [worker EXCEPT ![w] = [pc |-> FirstStep(Head(jobs).type),
                                        event |-> Head(jobs)]]
    /\ UNCHANGED <<master, streamVars, tunnels, countVars>>

\* Mutant: an update of a row that is offline is passed over.
LookupOnline(w) ==
    /\ worker[w].pc = "lookup"
    /\ LET e == worker[w].event
       IN  IF \E r \in RowsOf(e.inst) : e.type = "initial" \/ tunnels[r].status # "offline"
           THEN Goto(w, "write")
           ELSE IF e.type = "initial" THEN Goto(w, "insert") ELSE Finish(w)
    /\ UNCHANGED <<tunnels, count>> /\ WorkerOnly

\* handleInitialEvent and handleUpdateEvent: is there a row?
Lookup(w) ==
    /\ worker[w].pc = "lookup"
    /\ LET e == worker[w].event
       IN  IF RowsOf(e.inst) # {} THEN Goto(w, "write")
           ELSE IF e.type = "initial" THEN Goto(w, "insert") ELSE Finish(w)
    /\ UNCHANGED <<tunnels, count>> /\ WorkerOnly

\* updateTunnelRuntimeInfo
Write(w) ==
    /\ worker[w].pc = "write"
    /\ SetStatus(RowsOf(worker[w].event.inst), worker[w].event.status)
    /\ Finish(w)
    /\ UNCHANGED count /\ WorkerOnly

\* Mutant: the new row is not counted.
InsertUncounted(w, r) ==
    LET e == worker[w].event
    IN  /\ worker[w].pc \in {"insert", "upsert"}
        /\ RowsOf(e.inst) = {} /\ tunnels[r] = NoRow
        /\ tunnels' = [tunnels EXCEPT ![r] = Ungrouped(e.inst, e.status)]
        /\ UNCHANGED count
        /\ Finish(w)
        /\ WorkerOnly

\* handleInitialEvent inserts the row it did not find, handleCreateEvent one that
\* may or may not be there.
Insert(w, r) ==
    LET e == worker[w].event
    IN  /\ worker[w].pc \in {"insert", "upsert"}
        /\ RowsOf(e.inst) = {} /\ tunnels[r] = NoRow
        /\ tunnels' = [tunnels EXCEPT ![r] = Ungrouped(e.inst, e.status)]
        /\ Recount(w)
        /\ Finish(w)
        /\ WorkerOnly

\* The row is there by now.  The unique index refuses the insertion of an initial
\* event; that of a create event has ON CONFLICT DO UPDATE, which does not set the
\* status, and the tunnels are counted.
Conflict(w) ==
    /\ worker[w].pc \in {"insert", "upsert"}
    /\ RowsOf(worker[w].event.inst) # {}
    /\ IF worker[w].pc = "upsert" THEN Recount(w) ELSE UNCHANGED count
    /\ Finish(w)
    /\ UNCHANGED tunnels /\ WorkerOnly

\* handleDeleteEvent: is there a row?
Find(w) ==
    /\ worker[w].pc = "find"
    /\ IF RowsOf(worker[w].event.inst) # {} THEN Goto(w, "delete") ELSE Finish(w)
    /\ UNCHANGED <<tunnels, count>> /\ WorkerOnly

\* A row that a group names stays, with an error in the log.
Delete(w) ==
    LET S == RowsOf(worker[w].event.inst)
    IN  /\ worker[w].pc = "delete"
        /\ IF Deletable(S) THEN DeleteRows(S) /\ Recount(w)
           ELSE UNCHANGED <<tunnels, count>>
        /\ Finish(w)
        /\ WorkerOnly

\* handleShutdownEvent
Offline(w) ==
    /\ worker[w].pc = "offline"
    /\ SetStatus(Rows, "offline")
    /\ Finish(w)
    /\ UNCHANGED count /\ WorkerOnly

\* The steps of a goroutine of workerLoop; an insertion takes an id from Free.
WorkerStep(w, Free) ==
    \/ Take(w) \/ Lookup(w) \/ Write(w) \/ Find(w) \/ Delete(w) \/ Offline(w)
    \/ Conflict(w)
    \/ \E r \in Free : Insert(w, r)

\* The steps of the master, its stream and the goroutine that listens to it.
StreamStep ==
    \/ \E i \in Instances :
        \/ InstanceStarts(i) \/ InstanceDeleted(i) \/ SendInitial(i)
        \/ \E s \in Status : InstanceReports(i, s)
    \/ StreamEnds \/ StreamBegins \/ MarkOffline
=============================================================================
