---------------------------- MODULE HistoryWorker ----------------------------
(***************************************************************************)
(* The worker that turns the monitoring data of "update" events into rows  *)
(* of service_history (internal/sse/history_worker.go), with the           *)
(* goroutines that call it: ProcessEvent runs in every goroutine of        *)
(* Manager.workerLoop, and these are never stopped.                        *)
(*                                                                         *)
(* A ServiceCurrentStatus is an object: the data processor keeps a pointer *)
(* to it from its lookup to its append, and meanwhile the map entry may be *)
(* removed.  Boxes is the pool of such objects; one that nothing can reach *)
(* is empty and is used again, and the points in it are lost, as in the    *)
(* code.                                                                   *)
(*                                                                         *)
(* Abstracted: a data point is its instance and a number that is given     *)
(* once; the traffic in it, and with it the arithmetic of aggregateAndWrite*)
(* is left out, and a batch is the sequence of its points.  How long an    *)
(* entry has been idle is left open.  Bounds: MaxPoints points are         *)
(* dispatched; the channel holds Capacity points (15000 in the code) and a *)
(* batch BatchSize (12).                                                   *)
(***************************************************************************)
EXTENDS Naturals, Sequences, FiniteSets

CONSTANTS
    Instances,  \* keys "endpointID_instanceID"
    Masters,    \* for each endpoint the set of its instances
    Workers,    \* goroutines of Manager.workerLoop
    Boxes,      \* ServiceCurrentStatus objects
    NoBox,      \* nil: no such object
    NoPoint,    \* no data point in hand
    BatchSize,  \* _CurrentStatusSize
    Capacity,   \* of dataInputChan
    MaxPoints   \* bound: data points dispatched

ASSUME BatchAssumption == BatchSize \in Nat \ {0}
ASSUME BoundsAssumption == Capacity \in Nat /\ MaxPoints \in Nat
ASSUME MastersAssumption == Masters \subseteq SUBSET Instances

Point == [inst : Instances, n : 1..MaxPoints]

ASSUME NilsAssumption == NoBox \notin Boxes /\ NoPoint \notin Point

VARIABLES
    status,     \* serviceCurrentStatusData
    result,     \* the field Result of each object
    input,      \* dataInputChan
    inputOpen,  \* dataInputChan has not been closed
    dispatch,   \* Dispatch: the point a goroutine is about to send
    processor,  \* dataProcessWorker
    cleaner,    \* idleCleanupWorker: it has not returned
    writing,    \* batches with a goroutine of aggregateAndWrite
    rows,       \* batches stored in service_history
    closer,     \* HistoryWorker.Close
    created,    \* data points so far
    crashed     \* the process has ended with a panic

mapVars == <<status, result>>
inputVars == <<input, inputOpen, dispatch, created>>
vars == <<status, result, input, inputOpen, dispatch, processor, cleaner,
          writing, rows, closer, created, crashed>>

ProcessorState ==
    [pc : {"select", "lookup", "create", "append", "trigger", "stopped"},
     point : Point \cup {NoPoint}, box : Boxes \cup {NoBox}]

TypeOK ==
    /\ status \in [Instances -> Boxes \cup {NoBox}]
    /\ result \in [Boxes -> Seq(Point)]
    /\ input \in Seq(Point) /\ Len(input) <= Capacity
    /\ inputOpen \in BOOLEAN
    /\ dispatch \in [Workers -> Point \cup {NoPoint}]
    /\ processor \in ProcessorState
    /\ cleaner \in BOOLEAN
    /\ writing \subseteq Seq(Point)
    /\ rows \subseteq Seq(Point)
    /\ closer \in {"open", "waiting", "closed"}
    /\ created \in 0..MaxPoints
    /\ crashed \in BOOLEAN

Init ==
    /\ status = [i \in Instances |-> NoBox]
    /\ result = [b \in Boxes |-> <<>>]
    /\ input = <<>> /\ inputOpen = TRUE
    /\ dispatch = [w \in Workers |-> NoPoint]
    /\ processor = [pc |-> "select", point |-> NoPoint, box |-> NoBox]
    /\ cleaner = TRUE
    /\ writing = {} /\ rows = {}
    /\ closer = "open"
    /\ created = 0
    /\ crashed = FALSE

-----------------------------------------------------------------------------
(* ProcessEvent, in a goroutine of workerLoop                              *)

\* Dispatch up to the unlock of closeMu.  Close keeps that mutex until it
\* returns, so the check succeeds only before it.
DispatchCheck(w) ==
    /\ dispatch[w] = NoPoint /\ closer = "open"
    /\ created < MaxPoints
    /\ created' = created + 1
    /\ \E i \in Instances :
        dispatch' = [dispatch EXCEPT ![w] = [inst |-> i, n |-> created']]
    /\ UNCHANGED <<mapVars, input, inputOpen, processor, cleaner, writing, rows,
                   closer, crashed>>

\* The non-blocking send.  On a closed channel it panics, and nothing that could
\* still run takes a step.
DispatchSend(w) ==
    /\ dispatch[w] # NoPoint /\ ~crashed
    /\ dispatch' = [dispatch EXCEPT ![w] = NoPoint]
    /\ crashed' = ~inputOpen
    /\ input' = IF inputOpen /\ Len(input) < Capacity
                THEN Append(input, dispatch[w]) ELSE input
    /\ UNCHANGED <<mapVars, inputOpen, processor, cleaner, writing, rows,
                   closer, created>>

\* The objects that can still be reached keep the points of res.
Reached(res) ==
    result' = [b \in Boxes |->
                IF (\E i \in Instances : status'[i] = b) \/ processor'.box = b
                THEN res[b] ELSE <<>>]

\* Delete the entries of S, under HistoryWorker.mu.
Remove(S) ==
    /\ ~crashed
    /\ status' = [i \in Instances |-> IF i \in S THEN NoBox ELSE status[i]]
    /\ UNCHANGED <<inputVars, processor, cleaner, writing, rows, closer, crashed>>
    /\ Reached(result)

\* RemoveInstance, at the end of handleDeleteEvent.
RemoveInstance(i) == status[i] # NoBox /\ Remove({i})

\* RemoveEndpoint, in handleShutdownEvent.
RemoveEndpoint(m) == (\E i \in m : status[i] # NoBox) /\ Remove(m)

-----------------------------------------------------------------------------
(* dataProcessWorker                                                       *)

Processor(l, p, b) == processor' = [pc |-> l, point |-> p, box |-> b]

Unwritten == UNCHANGED <<writing, rows>>

Receive ==
    /\ processor.pc = "select" /\ input # <<>>
    /\ Processor("lookup", Head(input), NoBox)
    /\ input' = Tail(input)
    /\ UNCHANGED <<mapVars, inputOpen, dispatch, created, cleaner, closer, crashed>>
    /\ Unwritten

\* case <-stopChan; when both channels are ready, either case may be taken.
Stop ==
    /\ processor.pc = "select" /\ closer # "open"
    /\ Processor("stopped", NoPoint, NoBox)
    /\ UNCHANGED <<mapVars, inputVars, cleaner, closer, crashed>>
    /\ Unwritten

\* processMonitoringData: the lookup under the read lock.
Lookup ==
    /\ processor.pc = "lookup"
    /\ LET p == processor.point
       IN  IF status[p.inst] # NoBox
           THEN Processor("append", p, status[p.inst])
           ELSE \E b \in Boxes : /\ \A i \in Instances : status[i] # b
                                 /\ Processor("create", p, b)
    /\ UNCHANGED <<mapVars, inputVars, cleaner, closer, crashed>>
    /\ Unwritten

\* The new object is stored, under the write lock.
Create ==
    /\ processor.pc = "create"
    /\ status' = [status EXCEPT ![processor.point.inst] = processor.box]
    /\ Processor("append", processor.point, processor.box)
    /\ Reached(result)
    /\ UNCHANGED <<inputVars, cleaner, closer, crashed>>
    /\ Unwritten

\* Mutant: the comparison is strict.
FullLate(s) == Len(s) > BatchSize

\* The threshold, tested before triggerBatchWrite and again in it.  No other
\* goroutine shortens the array, so the second test agrees with the first.
Full(s) == Len(s) >= BatchSize

\* The point is appended, under the lock of the object.
AppendPoint ==
    /\ processor.pc = "append"
    /\ LET b == processor.box
           res == [result EXCEPT ![b] = Append(@, processor.point)]
       IN  /\ IF Full(res[b])
              THEN Processor("trigger", NoPoint, b)
              ELSE Processor("select", NoPoint, NoBox)
           /\ UNCHANGED status
           /\ Reached(res)
    /\ UNCHANGED <<inputVars, cleaner, closer, crashed>>
    /\ Unwritten

\* Mutant: the batch is copied but the array is not emptied.
TriggerKeepsPoints ==
    /\ processor.pc = "trigger"
    /\ writing' = writing \cup {result[processor.box]}
    /\ Processor("select", NoPoint, NoBox)
    /\ UNCHANGED <<status, inputVars, cleaner, rows, closer, crashed>>
    /\ Reached(result)

\* triggerBatchWrite: copy, empty the array, start aggregateAndWrite.
Trigger ==
    /\ processor.pc = "trigger"
    /\ Full(result[processor.box])
    /\ writing' = writing \cup {result[processor.box]}
    /\ Processor("select", NoPoint, NoBox)
    /\ UNCHANGED <<status, inputVars, cleaner, rows, closer, crashed>>
    /\ Reached([result EXCEPT ![processor.box] = <<>>])

\* aggregateAndWrite stores the batch, or the insert fails and it is lost.
Write ==
    /\ ~crashed
    /\ \E s \in writing :
        /\ writing' = writing \ {s}
        /\ rows' = rows \cup {s} \/ rows' = rows
    /\ UNCHANGED <<mapVars, inputVars, processor, cleaner, closer, crashed>>

-----------------------------------------------------------------------------
(* idleCleanupWorker                                                       *)

Cleanup ==
    /\ cleaner
    /\ \E S \in (SUBSET {i \in Instances : status[i] # NoBox}) \ {{}} : Remove(S)

\* Mutant: idleCleanupWorker does not listen to stopChan.
CleanerDeaf == FALSE

CleanerStop ==
    /\ cleaner /\ closer # "open"
    /\ cleaner' = FALSE
    /\ UNCHANGED <<mapVars, inputVars, processor, writing, rows, closer, crashed>>

-----------------------------------------------------------------------------
(* HistoryWorker.Close                                                     *)

\* closed is set and stopChan closed.
CloseStart ==
    /\ closer = "open"
    /\ closer' = "waiting"
    /\ UNCHANGED <<mapVars, inputVars, processor, cleaner, writing, rows, crashed>>

\* Mutant: Close does not wait for the goroutines.
NobodyJoined == TRUE

\* wg.Wait() returns: both goroutines it counts have ended.
Joined == processor.pc = "stopped" /\ ~cleaner

\* The last select: receive a point that is left, or close the channel.
CloseInput ==
    /\ closer = "waiting" /\ Joined
    /\ closer' = "closed"
    /\ IF input # <<>> THEN input' = Tail(input) /\ UNCHANGED inputOpen
                       ELSE inputOpen' = FALSE /\ UNCHANGED input
    /\ UNCHANGED <<mapVars, dispatch, created, processor, cleaner, writing, rows,
                   crashed>>

-----------------------------------------------------------------------------
Process == \/ Receive \/ Stop \/ Lookup \/ Create \/ AppendPoint \/ Trigger

Events == \/ \E w \in Workers : DispatchCheck(w) \/ DispatchSend(w)
          \/ \E i \in Instances : RemoveInstance(i)
          \/ \E m \in Masters : RemoveEndpoint(m)

Next == \/ Events \/ Process \/ Write
        \/ Cleanup \/ CleanerStop \/ CloseStart \/ CloseInput

Spec == Init /\ [][Next]_vars

\* The goroutines run when they can; wg.Wait() returns when it may.
Fairness == WF_vars(Process) /\ WF_vars(CleanerStop) /\ WF_vars(CloseInput)

FairSpec == Spec /\ Fairness
-----------------------------------------------------------------------------
(* What the worker promises                                                *)

\* Every place that holds points, with the points in it.
Held ==
    {<<"input", input>>, <<"hand", <<processor.point>>>>}
        \cup {<<w, <<dispatch[w]>>>> : w \in Workers}
        \cup {<<b, result[b]>> : b \in Boxes}
        \cup {<<"batch", s>> : s \in writing \cup rows}

\* A data point is counted at most once: it is in one place only on its way from
\* the event to the row of service_history, whatever entries are removed and
\* created while the processor is between its lookup and its append.
PointOnce ==
    \A x, y \in Held : \A j \in DOMAIN x[2], k \in DOMAIN y[2] :
        x[2][j] = y[2][k] /\ x[2][j] # NoPoint => x = y /\ j = k

\* All points of s are of instance i.
Of(s, i) == \A k \in DOMAIN s : s[k].inst = i

\* Instances are counted apart and a batch has exactly _CurrentStatusSize points:
\* an entry holds points of its own instance, fewer than a batch unless the
\* processor is about to write them, also when the entry has been removed from
\* the map in the meantime.
BatchesExact ==
    /\ \A s \in writing \cup rows :
        Len(s) = BatchSize /\ \E i \in Instances : Of(s, i)
    /\ \A i \in Instances : status[i] # NoBox => Of(result[status[i]], i)
    /\ \A b \in Boxes : \/ Len(result[b]) < BatchSize
                        \/ processor.pc = "trigger" /\ processor.box = b
                           /\ Len(result[b]) = BatchSize

\* Once Close has returned nothing is added to the map and no batch is started.
ClosedIsQuiet ==
    [][closer = "closed" =>
        /\ writing' \subseteq writing
        /\ \A i \in Instances : status'[i] \in {status[i], NoBox}]_vars

\* Close returns: the goroutines it waits for end although events keep coming.
CloseTerminates == closer = "waiting" ~> closer = "closed"

\* "Close the data channel safely": no goroutine sends on the closed channel.
NeverPanics == ~crashed
=============================================================================
