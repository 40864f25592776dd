------------------------ MODULE HistoryWorkerProofs ------------------------
(***************************************************************************)
(* Proofs about the history worker of HistoryWorker, for any instances,    *)
(* workers, objects, batch size, capacity and number of points.            *)
(*                                                                         *)
(* BatchesExact is not inductive: what the processor is about to append to *)
(* an object it looked up earlier depends on who has used the object since.*)
(* Hands says what it knows at each program point, Apart that no object is *)
(* the entry of two instances, and Forgotten that an object nobody can     *)
(* reach holds no points, so that an instance starts with an empty array.  *)
(*                                                                         *)
(* PointOnce needs more than the rows it is about: Placed says that every  *)
(* point is in one place only on its way from the channel to the rows, and *)
(* that it was created.                                                    *)
(***************************************************************************)
EXTENDS HistoryWorker, TLAPS

\* What the processor holds at each of its program points.
Hands ==
    /\ processor.pc \in {"select", "stopped", "lookup"} => processor.box = NoBox
    /\ processor.pc \in {"lookup", "create", "append"} => processor.point \in Point
    /\ processor.pc \in {"create", "append", "trigger"} => processor.box \in Boxes
    /\ processor.pc = "create" =>
        /\ result[processor.box] = <<>>
        /\ \A i \in Instances : status[i] # processor.box
    /\ processor.pc = "append" =>
        /\ Of(result[processor.box], processor.point.inst)
        /\ \A i \in Instances : status[i] = processor.box => i = processor.point.inst
    /\ processor.pc = "trigger" =>
        /\ Len(result[processor.box]) = BatchSize
        /\ \E i \in Instances : Of(result[processor.box], i)

\* Two instances never share an object.
Apart ==
    \A i, j \in Instances : status[i] # NoBox /\ status[i] = status[j] => i = j

\* The points of an object nobody can reach are lost.
Forgotten ==
    \A b \in Boxes :
        (\A i \in Instances : status[i] # b) /\ processor.box # b => result[b] = <<>>

\* When Close has returned both goroutines it waited for have ended.
Quiet == closer = "closed" => processor.pc = "stopped" /\ ~cleaner

Inv == TypeOK /\ Hands /\ Apart /\ Forgotten /\ BatchesExact /\ Quiet

-----------------------------------------------------------------------------
(* Arrays of points                                                        *)

\* An empty array holds points of any instance, and is shorter than a batch.
LEMMA NoPoints ==
    /\ \A i : Of(<<>>, i)
    /\ Len(<<>>) < BatchSize
  BY BatchAssumption DEF Of

\* Appending a point of the instance of all others.
LEMMA OneMore ==
    ASSUME NEW s \in Seq(Point), NEW p \in Point, Of(s, p.inst)
    PROVE  /\ Append(s, p) \in Seq(Point)
           /\ Of(Append(s, p), p.inst)
           /\ Len(Append(s, p)) = Len(s) + 1
  BY DEF Of

\* What is left of the arrays when some can no longer be reached.
LEMMA ReachedTypes ==
    ASSUME NEW res \in [Boxes -> Seq(Point)], Reached(res)
    PROVE  /\ result' \in [Boxes -> Seq(Point)]
           /\ \A b \in Boxes : result'[b] \in {res[b], <<>>}
           /\ \A i \in Instances, b \in Boxes : status'[i] = b => result'[b] = res[b]
           /\ \A b \in Boxes : processor'.box = b => result'[b] = res[b]
           /\ Forgotten'
  BY DEF Reached, Forgotten

-----------------------------------------------------------------------------
(* The invariant                                                           *)

\* It holds before the first event.
LEMMA InitInv == Init => Inv
<1> SUFFICES ASSUME Init PROVE Inv
  OBVIOUS
<1>1. TypeOK
  <2>1. <<>> \in Seq(Point) /\ Len(<<>>) <= Capacity
    BY BoundsAssumption
  <2>2. result \in [Boxes -> Seq(Point)]
    BY <2>1 DEF Init
  <2>3. created \in 0..MaxPoints
    BY BoundsAssumption DEF Init
  <2>4. processor \in ProcessorState
    BY DEF Init, ProcessorState
  <2>5. status \in [Instances -> Boxes \cup {NoBox}]
    BY DEF Init
  <2>6. dispatch \in [Workers -> Point \cup {NoPoint}]
    BY DEF Init
  <2> QED
    BY <2>1, <2>2, <2>3, <2>4, <2>5, <2>6 DEF Init, TypeOK
<1>2. Hands /\ Apart /\ Forgotten /\ Quiet
  BY DEF Init, Hands, Apart, Forgotten, Quiet
<1>3. BatchesExact
  BY NoPoints, NilsAssumption DEF Init, BatchesExact
<1> QED
  BY <1>1, <1>2, <1>3 DEF Inv

\* A step that leaves entries, objects, processor and batches alone.
LEMMA Aside ==
    ASSUME Inv, TypeOK', UNCHANGED <<mapVars, processor, writing, rows>>, Quiet'
    PROVE  Inv'
  BY DEF Inv, mapVars, Hands, Apart, Forgotten, BatchesExact, Of

\* Dispatch and the channel.
LEMMA DispatchInv ==
    ASSUME Inv, NEW w \in Workers, DispatchCheck(w) \/ DispatchSend(w)
    PROVE  Inv'
<1>1. TypeOK'
  <2>1. CASE DispatchCheck(w)
    <3>1. created + 1 \in 1..MaxPoints
      BY <2>1, BoundsAssumption DEF DispatchCheck, Inv, TypeOK
    <3>2. PICK i \in Instances :
            dispatch' = [dispatch EXCEPT ![w] = [inst |-> i, n |-> created']]
      BY <2>1 DEF DispatchCheck
    <3>3. [inst |-> i, n |-> created'] \in Point
      BY <2>1, <3>1 DEF DispatchCheck, Point
    <3>4. dispatch' \in [Workers -> Point \cup {NoPoint}]
      BY <3>2, <3>3 DEF Inv, TypeOK
    <3>5. created' \in 0..MaxPoints
      BY <2>1, <3>1, BoundsAssumption DEF DispatchCheck
    <3> QED
      BY <2>1, <3>4, <3>5 DEF DispatchCheck, Inv, TypeOK, mapVars
  <2>2. CASE DispatchSend(w)
    <3>1. dispatch[w] \in Point
      BY <2>2 DEF DispatchSend, Inv, TypeOK
    <3>2. input' \in Seq(Point) /\ Len(input') <= Capacity
      BY <2>2, <3>1, BoundsAssumption DEF DispatchSend, Inv, TypeOK
    <3> QED
      BY <2>2, <3>1, <3>2 DEF DispatchSend, Inv, TypeOK, mapVars
  <2> QED
    BY <2>1, <2>2
<1>2. UNCHANGED <<mapVars, processor, writing, rows>> /\ UNCHANGED <<closer, cleaner>>
  BY DEF DispatchCheck, DispatchSend
<1> QED
  BY <1>1, <1>2, Aside DEF Inv, Quiet

\* RemoveInstance, RemoveEndpoint and the cleaner: an object the processor holds keeps
\* its points.
LEMMA RemoveInv ==
    ASSUME Inv, NEW S, Remove(S)
    PROVE  Inv'
<1>1. UNCHANGED <<inputVars, processor, cleaner, writing, rows, closer, crashed>>
  BY DEF Remove
<1>2. \A i \in Instances : status'[i] \in {status[i], NoBox}
  BY DEF Remove
<1>3. status' \in [Instances -> Boxes \cup {NoBox}]
  BY DEF Remove, Inv, TypeOK
<1>4. /\ result' \in [Boxes -> Seq(Point)]
      /\ \A b \in Boxes : result'[b] \in {result[b], <<>>}
      /\ \A i \in Instances, b \in Boxes : status'[i] = b => result'[b] = result[b]
      /\ \A b \in Boxes : processor'.box = b => result'[b] = result[b]
      /\ Forgotten'
  BY ReachedTypes DEF Remove, Inv, TypeOK
<1>5. TypeOK'
  BY <1>1, <1>3, <1>4 DEF Inv, TypeOK, inputVars
<1>6. Hands'
  <2>1. processor.box \in Boxes => result'[processor.box] = result[processor.box]
    BY <1>1, <1>4
  <2>2. ASSUME NEW i \in Instances, processor.box \in Boxes, status'[i] = processor.box
        PROVE  status[i] = processor.box
    BY <1>2, <2>2, NilsAssumption
  <2>3. processor.pc = "create" =>
          /\ result'[processor.box] = <<>>
          /\ \A i \in Instances : status'[i] # processor.box
    BY <2>1, <2>2 DEF Inv, Hands
  <2>4. processor.pc = "append" =>
          /\ Of(result'[processor.box], processor.point.inst)
          /\ \A i \in Instances :
                status'[i] = processor.box => i = processor.point.inst
    BY <2>1, <2>2 DEF Inv, Hands
  <2>5. processor.pc = "trigger" =>
          /\ Len(result'[processor.box]) = BatchSize
          /\ \E i \in Instances : Of(result'[processor.box], i)
    BY <2>1 DEF Inv, Hands
  <2> QED
    BY <1>1, <2>3, <2>4, <2>5 DEF Inv, Hands, Of
<1>7. Apart'
  BY <1>2 DEF Inv, Apart
<1>8. BatchesExact'
  <2>1. \A i \in Instances : status'[i] # NoBox => Of(result'[status'[i]], i)
    <3> SUFFICES ASSUME NEW i \in Instances, status'[i] # NoBox
                 PROVE  Of(result'[status'[i]], i)
      OBVIOUS
    <3>1. status'[i] = status[i] /\ status[i] \in Boxes
      BY <1>2 DEF Inv, TypeOK
    <3>2. result'[status'[i]] = result[status[i]]
      BY <1>4, <3>1
    <3>3. Of(result[status[i]], i)
      BY <3>1 DEF Inv, BatchesExact
    <3> QED
      BY <3>2, <3>3
  <2>2. \A b \in Boxes : \/ Len(result'[b]) < BatchSize
                         \/ processor'.pc = "trigger" /\ processor'.box = b
                            /\ Len(result'[b]) = BatchSize
    BY <1>1, <1>4, NoPoints DEF Inv, BatchesExact
  <2> QED
    BY <1>1, <2>1, <2>2 DEF Inv, BatchesExact, Of
<1> QED
  BY <1>1, <1>4, <1>5, <1>6, <1>7, <1>8 DEF Inv, Quiet

-----------------------------------------------------------------------------
(* dataProcessWorker                                                       *)

\* The processor takes a point from the channel, or ends.
LEMMA ReceiveInv ==
    ASSUME Inv, Receive \/ Stop
    PROVE  Inv'
<1>1. UNCHANGED <<mapVars, writing, rows>>
  BY DEF Receive, Stop, Unwritten
<1>2. processor.box = NoBox /\ processor'.box = NoBox
  BY DEF Receive, Stop, Processor, Inv, Hands
<1>3. processor.pc = "select" /\ processor'.pc \in {"lookup", "stopped"}
  BY DEF Receive, Stop, Processor
<1>4. processor'.pc = "lookup" => processor'.point \in Point
  BY DEF Receive, Stop, Processor, Inv, TypeOK
<1>5. TypeOK'
  <2>1. CASE Receive
    <3>1. input' \in Seq(Point) /\ Len(input') <= Capacity /\ Head(input) \in Point
      BY <2>1, BoundsAssumption DEF Receive, Inv, TypeOK
    <3> QED
      BY <1>1, <2>1, <3>1 DEF Receive, Processor, Inv, TypeOK, ProcessorState, mapVars
  <2>2. CASE Stop
    BY <1>1, <2>2 DEF Stop, Processor, Inv, TypeOK, ProcessorState, mapVars, inputVars
  <2> QED
    BY <2>1, <2>2
<1>6. Hands'
  BY <1>2, <1>3, <1>4 DEF Hands
<1>7. Apart' /\ Forgotten'
  BY <1>1, <1>2 DEF Inv, Apart, Forgotten, mapVars
<1>8. BatchesExact'
  BY <1>1, <1>3 DEF Inv, BatchesExact, mapVars, Of
<1>9. Quiet'
  BY <1>3 DEF Receive, Stop, Inv, Quiet
<1> QED
  BY <1>5, <1>6, <1>7, <1>8, <1>9 DEF Inv

\* The processor finds the entry of the instance, or makes an object nobody holds.
LEMMA LookupInv ==
    ASSUME Inv, Lookup
    PROVE  Inv'
<1> DEFINE p == processor.point
<1>1. UNCHANGED <<mapVars, inputVars, cleaner, closer, crashed, writing, rows>>
  BY DEF Lookup, Unwritten
<1>2. processor.pc = "lookup" /\ p \in Point /\ processor.box = NoBox
  BY DEF Lookup, Inv, Hands
<1>3. p.inst \in Instances
  BY <1>2 DEF Point
<1>4. CASE status[p.inst] # NoBox
  <2>1. processor' = [pc |-> "append", point |-> p, box |-> status[p.inst]]
    BY <1>4 DEF Lookup, Processor
  <2>2. status[p.inst] \in Boxes
    BY <1>3, <1>4 DEF Inv, TypeOK
  <2>3. TypeOK'
    BY <1>1, <1>2, <2>1, <2>2 DEF Inv, TypeOK, ProcessorState, mapVars, inputVars
  <2>4. Of(result[status[p.inst]], p.inst)
    BY <1>3, <1>4 DEF Inv, BatchesExact
  <2>5. \A i \in Instances : status[i] = status[p.inst] => i = p.inst
    BY <1>3, <1>4 DEF Inv, Apart
  <2>6. Hands'
    BY <1>1, <1>2, <2>1, <2>2, <2>4, <2>5 DEF Hands, mapVars
  <2>7. Apart' /\ Forgotten'
    <3>1. status' = status /\ result' = result
      BY <1>1 DEF mapVars
    <3>2. Apart'
      BY <3>1 DEF Inv, Apart
    <3>3. \A x \in Boxes : (\A i \in Instances : status[i] # x) => result[x] = <<>>
      BY <1>2, NilsAssumption DEF Inv, Forgotten
    <3>4. Forgotten'
      BY <3>1, <3>3 DEF Forgotten
    <3> QED
      BY <3>2, <3>4
  <2>8. BatchesExact'
    BY <1>1, <1>2, <2>1 DEF Inv, BatchesExact, mapVars, Of
  <2>9. Quiet'
    BY <1>1, <1>2 DEF Inv, Quiet
  <2> QED
    BY <2>3, <2>6, <2>7, <2>8, <2>9 DEF Inv
<1>5. CASE status[p.inst] = NoBox
  <2>1. PICK b \in Boxes :
          /\ \A i \in Instances : status[i] # b
          /\ processor' = [pc |-> "create", point |-> p, box |-> b]
    BY <1>5 DEF Lookup, Processor
  <2>2. result[b] = <<>>
    BY <1>2, <2>1, NilsAssumption DEF Inv, Forgotten
  <2>3. TypeOK'
    BY <1>1, <1>2, <2>1 DEF Inv, TypeOK, ProcessorState, mapVars, inputVars
  <2>4. Hands'
    BY <1>1, <1>2, <2>1, <2>2 DEF Hands, mapVars
  <2>5. Apart' /\ Forgotten'
    <3>1. status' = status /\ result' = result
      BY <1>1 DEF mapVars
    <3>2. Apart'
      BY <3>1 DEF Inv, Apart
    <3>3. \A x \in Boxes : (\A i \in Instances : status[i] # x) => result[x] = <<>>
      BY <1>2, NilsAssumption DEF Inv, Forgotten
    <3>4. ASSUME NEW x \in Boxes, \A i \in Instances : status'[i] # x
          PROVE  result'[x] = <<>>
      BY <3>1, <3>3, <3>4
    <3>5. Forgotten'
      BY <3>4 DEF Forgotten
    <3> QED
      BY <3>2, <3>5
  <2>6. BatchesExact'
    BY <1>1, <1>2, <2>1 DEF Inv, BatchesExact, mapVars, Of
  <2>7. Quiet'
    BY <1>1, <1>2 DEF Inv, Quiet
  <2> QED
    BY <2>3, <2>4, <2>5, <2>6, <2>7 DEF Inv
<1> QED
  BY <1>4, <1>5

\* The new object becomes the entry of the instance; the object of an entry that was
\* stored there meanwhile cannot exist, and the points of one replaced are lost.
LEMMA CreateInv ==
    ASSUME Inv, Create
    PROVE  Inv'
<1> DEFINE p == processor.point
           b == processor.box
<1>1. UNCHANGED <<inputVars, cleaner, closer, crashed, writing, rows>>
  BY DEF Create, Unwritten
<1>2. /\ processor.pc = "create" /\ p \in Point /\ b \in Boxes
      /\ result[b] = <<>>
      /\ \A i \in Instances : status[i] # b
  BY DEF Create, Inv, Hands
<1>3. p.inst \in Instances
  BY <1>2 DEF Point
<1>4. /\ status' = [status EXCEPT ![p.inst] = b]
      /\ processor' = [pc |-> "append", point |-> p, box |-> b]
  BY DEF Create, Processor
<1>5. /\ result' \in [Boxes -> Seq(Point)]
      /\ \A x \in Boxes : result'[x] \in {result[x], <<>>}
      /\ \A i \in Instances, x \in Boxes : status'[i] = x => result'[x] = result[x]
      /\ \A x \in Boxes : processor'.box = x => result'[x] = result[x]
      /\ Forgotten'
  BY ReachedTypes DEF Create, Inv, TypeOK
<1>6. TypeOK'
  BY <1>1, <1>2, <1>3, <1>4, <1>5 DEF Inv, TypeOK, ProcessorState, inputVars
<1>7. result'[b] = <<>>
  BY <1>2, <1>5
<1>8. \A i \in Instances : i # p.inst => status'[i] = status[i]
  BY <1>4 DEF Inv, TypeOK
<1>9. status'[p.inst] = b
  BY <1>3, <1>4 DEF Inv, TypeOK
<1>10. Hands'
  BY <1>2, <1>4, <1>7, <1>8, NoPoints DEF Hands
<1>11. Apart'
  BY <1>2, <1>8, <1>9 DEF Inv, Apart
<1>12. BatchesExact'
  <2>1. \A i \in Instances : status'[i] # NoBox => Of(result'[status'[i]], i)
    <3> SUFFICES ASSUME NEW i \in Instances, status'[i] # NoBox
                 PROVE  Of(result'[status'[i]], i)
      OBVIOUS
    <3>1. CASE i = p.inst
      BY <3>1, <1>7, <1>9, NoPoints
    <3>2. CASE i # p.inst
      <4>1. status[i] \in Boxes /\ status'[i] = status[i]
        BY <3>2, <1>8 DEF Inv, TypeOK
      <4>2. result'[status'[i]] = result[status[i]]
        BY <1>5, <4>1
      <4>3. Of(result[status[i]], i)
        BY <4>1, NilsAssumption DEF Inv, BatchesExact
      <4> QED
        BY <4>2, <4>3
    <3> QED
      BY <3>1, <3>2
  <2>2. \A x \in Boxes : Len(result'[x]) < BatchSize
    BY <1>2, <1>5, NoPoints DEF Inv, BatchesExact
  <2> QED
    BY <1>1, <2>1, <2>2 DEF Inv, BatchesExact, Of
<1>13. Quiet'
  BY <1>1, <1>2 DEF Inv, Quiet
<1> QED
  BY <1>5, <1>6, <1>10, <1>11, <1>12, <1>13 DEF Inv

\* The point goes to the object, which is full now or still short of a batch.
LEMMA AppendInv ==
    ASSUME Inv, AppendPoint
    PROVE  Inv'
<1> DEFINE p == processor.point
           b == processor.box
           s == Append(result[b], p)
           res == [result EXCEPT ![b] = s]
<1>1. UNCHANGED <<status, inputVars, cleaner, closer, crashed, writing, rows>>
  BY DEF AppendPoint, Unwritten
<1>2. /\ processor.pc = "append" /\ p \in Point /\ b \in Boxes
      /\ Of(result[b], p.inst)
      /\ \A i \in Instances : status[i] = b => i = p.inst
  BY DEF AppendPoint, Inv, Hands
<1>3. p.inst \in Instances /\ result[b] \in Seq(Point)
  BY <1>2 DEF Point, Inv, TypeOK
<1>4. s \in Seq(Point) /\ Of(s, p.inst) /\ Len(s) = Len(result[b]) + 1
  BY <1>2, <1>3, OneMore
<1>5. Len(result[b]) < BatchSize /\ Len(result[b]) \in Nat
  BY <1>2, <1>3 DEF Inv, BatchesExact
<1>6. Len(s) <= BatchSize /\ Len(s) \in Nat /\ BatchSize \in Nat
  BY <1>4, <1>5, BatchAssumption
<1>7. res \in [Boxes -> Seq(Point)] /\ res[b] = s
      /\ \A x \in Boxes : x # b => res[x] = result[x]
  BY <1>2, <1>4 DEF Inv, TypeOK
<1>8. Reached(res) /\ processor' = IF Full(s)
                                   THEN [pc |-> "trigger", point |-> NoPoint, box |-> b]
                                   ELSE [pc |-> "select", point |-> NoPoint, box |-> NoBox]
  BY <1>7 DEF AppendPoint, Processor
<1> HIDE DEF s, res
<1>9. /\ result' \in [Boxes -> Seq(Point)]
      /\ \A x \in Boxes : result'[x] \in {res[x], <<>>}
      /\ \A i \in Instances, x \in Boxes : status'[i] = x => result'[x] = res[x]
      /\ \A x \in Boxes : processor'.box = x => result'[x] = res[x]
      /\ Forgotten'
  BY <1>7, <1>8, ReachedTypes
<1>10. TypeOK'
  <2>1. processor' \in ProcessorState
    BY <1>2, <1>8 DEF ProcessorState
  <2> QED
    BY <1>1, <1>9, <2>1 DEF Inv, TypeOK, inputVars
<1>11. Full(s) => Len(s) = BatchSize
  BY <1>6 DEF Full
<1>12. ~Full(s) => Len(s) < BatchSize
  BY <1>6 DEF Full
<1>13. Hands'
  BY <1>2, <1>3, <1>4, <1>7, <1>8, <1>9, <1>11 DEF Hands
<1>14. Apart'
  BY <1>1 DEF Inv, Apart
<1>15. BatchesExact'
  <2>1. \A i \in Instances : status'[i] # NoBox => Of(result'[status'[i]], i)
    <3> SUFFICES ASSUME NEW i \in Instances, status'[i] # NoBox
                 PROVE  Of(result'[status'[i]], i)
      OBVIOUS
    <3>1. status'[i] = status[i] /\ status[i] \in Boxes
      BY <1>1 DEF Inv, TypeOK
    <3>2. result'[status'[i]] = res[status[i]]
      BY <1>9, <3>1
    <3>3. CASE status[i] = b
      BY <1>2, <1>4, <1>7, <3>2, <3>3
    <3>4. CASE status[i] # b
      <4>1. Of(result[status[i]], i)
        BY <3>1, NilsAssumption DEF Inv, BatchesExact
      <4> QED
        BY <1>7, <3>1, <3>2, <3>4, <4>1
    <3> QED
      BY <3>3, <3>4
  <2>2. ASSUME NEW x \in Boxes
        PROVE  \/ Len(result'[x]) < BatchSize
               \/ processor'.pc = "trigger" /\ processor'.box = x
                  /\ Len(result'[x]) = BatchSize
    <3>1. CASE x = b
      BY <3>1, <1>7, <1>8, <1>9, <1>11, <1>12, NoPoints
    <3>2. CASE x # b
      <4>1. Len(result[x]) < BatchSize
        BY <1>2 DEF Inv, BatchesExact
      <4> QED
        BY <1>7, <1>9, <3>2, <4>1, NoPoints
    <3> QED
      BY <3>1, <3>2
  <2> QED
    BY <1>1, <2>1, <2>2 DEF Inv, BatchesExact, Of
<1>16. Quiet'
  BY <1>1, <1>2 DEF Inv, Quiet
<1> QED
  BY <1>9, <1>10, <1>13, <1>14, <1>15, <1>16 DEF Inv

\* A full array becomes a batch and is emptied.
LEMMA TriggerInv ==
    ASSUME Inv, Trigger
    PROVE  Inv'
<1> DEFINE b == processor.box
           res == [result EXCEPT ![b] = <<>>]
<1>1. UNCHANGED <<status, inputVars, cleaner, closer, crashed, rows>>
  BY DEF Trigger
<1>2. /\ processor.pc = "trigger" /\ b \in Boxes
      /\ Len(result[b]) = BatchSize
      /\ \E i \in Instances : Of(result[b], i)
  BY DEF Trigger, Inv, Hands
<1>3. /\ processor' = [pc |-> "select", point |-> NoPoint, box |-> NoBox]
      /\ writing' = writing \cup {result[b]}
      /\ Reached(res)
  BY DEF Trigger, Processor
<1>4. res \in [Boxes -> Seq(Point)] /\ res[b] = <<>>
      /\ \A x \in Boxes : x # b => res[x] = result[x]
  BY <1>2 DEF Inv, TypeOK
<1> HIDE DEF res
<1>5. /\ result' \in [Boxes -> Seq(Point)]
      /\ \A x \in Boxes : result'[x] \in {res[x], <<>>}
      /\ \A i \in Instances, x \in Boxes : status'[i] = x => result'[x] = res[x]
      /\ Forgotten'
  BY <1>3, <1>4, ReachedTypes
<1>6. TypeOK'
  <2>1. processor' \in ProcessorState
    BY <1>3 DEF ProcessorState
  <2>2. writing' \subseteq Seq(Point)
    BY <1>2, <1>3 DEF Inv, TypeOK
  <2> QED
    BY <1>1, <1>5, <2>1, <2>2 DEF Inv, TypeOK, inputVars
<1>7. Hands' /\ Apart'
  BY <1>1, <1>3 DEF Inv, Hands, Apart
<1>8. BatchesExact'
  <2>1. \A i \in Instances : status'[i] # NoBox => Of(result'[status'[i]], i)
    <3> SUFFICES ASSUME NEW i \in Instances, status'[i] # NoBox
                 PROVE  Of(result'[status'[i]], i)
      OBVIOUS
    <3>1. status'[i] = status[i] /\ status[i] \in Boxes
      BY <1>1 DEF Inv, TypeOK
    <3>2. Of(result[status[i]], i)
      BY <3>1, NilsAssumption DEF Inv, BatchesExact
    <3> QED
      BY <1>4, <1>5, <3>1, <3>2, NoPoints
  <2>2. \A x \in Boxes : Len(result'[x]) < BatchSize
    <3> SUFFICES ASSUME NEW x \in Boxes
                 PROVE  Len(result'[x]) < BatchSize
      OBVIOUS
    <3>1. x # b => Len(result[x]) < BatchSize
      BY DEF Inv, BatchesExact
    <3> QED
      BY <1>4, <1>5, <3>1, NoPoints
  <2>3. \A x \in writing' \cup rows' :
          Len(x) = BatchSize /\ \E i \in Instances : Of(x, i)
    BY <1>1, <1>2, <1>3 DEF Inv, BatchesExact
  <2> QED
    BY <2>1, <2>2, <2>3 DEF BatchesExact, Of
<1>9. Quiet'
  BY <1>1, <1>2 DEF Inv, Quiet
<1> QED
  BY <1>5, <1>6, <1>7, <1>8, <1>9 DEF Inv

-----------------------------------------------------------------------------
(* The writers, Close, and all steps together                              *)

\* A batch is stored or lost.
LEMMA WriteInv ==
    ASSUME Inv, Write
    PROVE  Inv'
<1>1. UNCHANGED <<mapVars, inputVars, processor, cleaner, closer, crashed>>
  BY DEF Write
<1>2. writing' \subseteq writing /\ rows' \subseteq writing \cup rows
  BY DEF Write
<1>3. TypeOK'
  BY <1>1, <1>2 DEF Inv, TypeOK, mapVars, inputVars
<1>4. BatchesExact'
  BY <1>1, <1>2 DEF Inv, BatchesExact, mapVars, Of
<1> QED
  BY <1>1, <1>3, <1>4 DEF Inv, Hands, Apart, Forgotten, Quiet, mapVars, Of

\* Close waits for both goroutines.
LEMMA CloseInv ==
    ASSUME Inv, CloseStart \/ CloseInput \/ CleanerStop
    PROVE  Inv'
<1>1. UNCHANGED <<mapVars, processor, writing, rows>>
  BY DEF CloseStart, CloseInput, CleanerStop
<1>2. Quiet'
  BY DEF CloseStart, CloseInput, CleanerStop, Joined, Inv, Quiet
<1>3. TypeOK'
  <2>1. input' = input \/ (input # <<>> /\ input' = Tail(input))
    BY DEF CloseStart, CloseInput, CleanerStop, inputVars
  <2>2. input' \in Seq(Point) /\ Len(input') <= Capacity
    <3>1. CASE input' = input
      BY <3>1 DEF Inv, TypeOK
    <3>2. CASE input # <<>> /\ input' = Tail(input)
      BY <3>2, BoundsAssumption DEF Inv, TypeOK
    <3> QED
      BY <2>1, <3>1, <3>2
  <2> QED
    BY <1>1, <2>2 DEF CloseStart, CloseInput, CleanerStop, inputVars, mapVars, Inv, TypeOK
<1> QED
  BY <1>1, <1>2, <1>3, Aside

\* Every step of the worker and its callers keeps the inductive invariant.
LEMMA StepInv == Inv /\ [Next]_vars => Inv'
<1> SUFFICES ASSUME Inv, [Next]_vars PROVE Inv'
  OBVIOUS
<1>1. CASE Events
  BY <1>1, DispatchInv, RemoveInv DEF Events, RemoveInstance, RemoveEndpoint
<1>2. CASE Process
  BY <1>2, ReceiveInv, LookupInv, CreateInv, AppendInv, TriggerInv DEF Process
<1>3. CASE Write
  BY <1>3, WriteInv
<1>4. CASE Cleanup
  BY <1>4, RemoveInv DEF Cleanup
<1>5. CASE CleanerStop \/ CloseStart \/ CloseInput
  BY <1>5, CloseInv
<1>6. CASE UNCHANGED vars
  <2>1. TypeOK'
    BY <1>6 DEF vars, Inv, TypeOK
  <2>2. Quiet'
    BY <1>6 DEF vars, Inv, Quiet
  <2> QED
    BY <1>6, <2>1, <2>2, Aside DEF vars, mapVars
<1> QED
  BY <1>1, <1>2, <1>3, <1>4, <1>5, <1>6 DEF Next

\* Type correctness: among the rest, processMonitoringData never appends to a nil object
\* and the channel never exceeds its capacity.
THEOREM TypeCorrect == Spec => []TypeOK
<1>1. Inv => TypeOK
  BY DEF Inv
<1> QED
  BY <1>1, InitInv, StepInv, PTL DEF Spec

\* Every batch given to aggregateAndWrite has exactly the threshold's number of points,
\* all of one instance, whatever RemoveInstance, RemoveEndpoint and the cleaner do
\* between the lookup and the append of the processor.
THEOREM BatchesExactAlways == Spec => []BatchesExact
<1>1. Inv => BatchesExact
  BY DEF Inv
<1> QED
  BY <1>1, InitInv, StepInv, PTL DEF Spec

\* Once HistoryWorker.Close has returned no entry is added and no batch is started,
\* although events keep reaching Dispatch.
THEOREM ClosedIsQuietAlways == Spec => ClosedIsQuiet
<1>1. ASSUME Inv, Next, closer = "closed"
      PROVE  /\ writing' \subseteq writing
             /\ \A i \in Instances : status'[i] \in {status[i], NoBox}
  <2>1. processor.pc = "stopped" /\ ~cleaner
    BY <1>1 DEF Inv, Quiet
  <2>2. ~Process
    BY <2>1 DEF Process, Receive, Stop, Lookup, Create, AppendPoint, Trigger
  <2>3. CASE Events
    BY <2>3 DEF Events, DispatchCheck, DispatchSend, RemoveInstance, RemoveEndpoint,
         Remove, mapVars
  <2>4. CASE Write
    BY <2>4 DEF Write, mapVars
  <2>5. CASE Cleanup \/ CleanerStop \/ CloseStart \/ CloseInput
    BY <1>1, <2>1, <2>5 DEF Cleanup, CleanerStop, CloseStart, CloseInput
  <2> QED
    BY <1>1, <2>2, <2>3, <2>4, <2>5 DEF Next
<1>2. Inv /\ [Next]_vars =>
        [closer = "closed" =>
            /\ writing' \subseteq writing
            /\ \A i \in Instances : status'[i] \in {status[i], NoBox}]_vars
  BY <1>1
<1> QED
  BY <1>2, InitInv, StepInv, PTL DEF Spec, ClosedIsQuiet

-----------------------------------------------------------------------------
(* A point is in one place                                                 *)

Has(s, p) == \E k \in DOMAIN s : s[k] = p

\* No point twice in one array.
Once(s) == \A j, k \in DOMAIN s : s[j] = s[k] => j = k

\* The places of a point besides the channel and the hand of the processor.
Sent(p) == \E w \in Workers : dispatch[w] = p
Boxed(p) == \E b \in Boxes : Has(result[b], p)
Batched(p) == \E s \in writing \cup rows : Has(s, p)

\* Each kind of place holds a point once.
OnceOfAKind ==
    /\ Once(input)
    /\ \A b \in Boxes : Once(result[b])
    /\ \A s \in writing \cup rows : Once(s)
    /\ \A v, w \in Workers : dispatch[v] = dispatch[w] /\ dispatch[v] # NoPoint => v = w
    /\ \A p \in Point : \A a, b \in Boxes :
        Has(result[a], p) /\ Has(result[b], p) => a = b
    /\ \A p \in Point : \A s, t \in writing \cup rows : Has(s, p) /\ Has(t, p) => s = t

\* No two kinds of places hold the same point, and the next point is in none.
OneKind ==
    \A p \in Point :
        /\ Has(input, p) => processor.point # p /\ ~Sent(p) /\ ~Boxed(p) /\ ~Batched(p)
        /\ processor.point = p => ~Sent(p) /\ ~Boxed(p) /\ ~Batched(p)
        /\ Sent(p) => ~Boxed(p) /\ ~Batched(p)
        /\ Boxed(p) => ~Batched(p)
        /\ (Has(input, p) \/ processor.point = p \/ Sent(p) \/ Boxed(p) \/ Batched(p))
             => p.n <= created

Placed == OnceOfAKind /\ OneKind

\* What the operations on arrays do to the points in them.
LEMMA AppendHas ==
    ASSUME NEW s \in Seq(Point), NEW p \in Point
    PROVE  /\ \A q : Has(Append(s, p), q) <=> Has(s, q) \/ q = p
           /\ Once(s) /\ ~Has(s, p) => Once(Append(s, p))
  BY DEF Has, Once

LEMMA TailHas ==
    ASSUME NEW s \in Seq(Point), s # <<>>
    PROVE  /\ Has(s, Head(s))
           /\ \A q : Has(Tail(s), q) => Has(s, q)
           /\ Once(s) => Once(Tail(s)) /\ ~Has(Tail(s), Head(s))
  BY DEF Has, Once

LEMMA EmptyHas == Once(<<>>) /\ \A p : ~Has(<<>>, p)
  BY DEF Has, Once

LEMMA PlacedInit == Init => Placed
<1> SUFFICES ASSUME Init PROVE Placed
  OBVIOUS
<1>1. \A p \in Point : ~Has(input, p) /\ processor.point # p /\ ~Sent(p) /\ ~Boxed(p)
                       /\ ~Batched(p)
  BY EmptyHas, NilsAssumption DEF Init, Sent, Boxed, Batched
<1>2. OnceOfAKind
  BY EmptyHas DEF Init, OnceOfAKind
<1> QED
  BY <1>1, <1>2 DEF Placed, OneKind

\* A step that only takes points away.
LEMMA Fewer ==
    ASSUME Placed,
           Once(input'), \A p \in Point : Has(input', p) => Has(input, p),
           processor'.point \in {processor.point, NoPoint},
           UNCHANGED <<dispatch, created>>,
           \A b \in Boxes : result'[b] \in {result[b], <<>>},
           writing' \cup rows' \subseteq writing \cup rows
    PROVE  Placed'
<1>1. \A b \in Boxes, p \in Point : Has(result'[b], p) => Has(result[b], p)
  BY EmptyHas
<1>2. \A b \in Boxes : Once(result'[b])
  BY EmptyHas DEF Placed, OnceOfAKind
<1>3. \A p \in Point : (Boxed(p)' => Boxed(p)) /\ (Batched(p)' => Batched(p))
  BY <1>1 DEF Boxed, Batched
<1>4. \A p \in Point : (Sent(p)' <=> Sent(p))
  BY DEF Sent
<1>5. \A p \in Point : processor'.point = p => processor.point = p
  BY NilsAssumption
<1>6. OnceOfAKind'
  BY <1>1, <1>2 DEF Placed, OnceOfAKind
<1>7. OneKind'
  BY <1>3, <1>4, <1>5 DEF Placed, OneKind
<1> QED
  BY <1>6, <1>7 DEF Placed

\* A goroutine takes a new point in hand, or drops it into the channel.
LEMMA DispatchPlaced ==
    ASSUME Inv, Placed, NEW w \in Workers, DispatchCheck(w) \/ DispatchSend(w)
    PROVE  Placed'
<1>1. UNCHANGED <<processor, result, writing, rows>>
  BY DEF DispatchCheck, DispatchSend, mapVars
<1>2. \A p \in Point : (Boxed(p)' <=> Boxed(p)) /\ (Batched(p)' <=> Batched(p))
  BY <1>1 DEF Boxed, Batched
<1>3. created \in Nat /\ \A p \in Point : p.n \in Nat
  BY BoundsAssumption DEF Inv, TypeOK, Point
<1>4. CASE DispatchCheck(w)
  <2>1. PICK i \in Instances :
          dispatch' = [dispatch EXCEPT ![w] = [inst |-> i, n |-> created']]
    BY <1>4 DEF DispatchCheck
  <2> DEFINE p == [inst |-> i, n |-> created + 1]
  <2>2. created' = created + 1 /\ input' = input /\ p \in Point /\ p.n = created + 1
    BY <1>3, <1>4, BoundsAssumption DEF DispatchCheck, Point
  <2>3. dispatch' = [dispatch EXCEPT ![w] = p]
    BY <2>1, <2>2
  <2>4. \A v \in Workers : dispatch'[v] = IF v = w THEN p ELSE dispatch[v]
    BY <2>3 DEF Inv, TypeOK
  <2>5. \A q \in Point : Sent(q)' => Sent(q) \/ q = p
    BY <2>4 DEF Sent
  <2>6. ~Has(input, p) /\ processor.point # p /\ ~Sent(p) /\ ~Boxed(p) /\ ~Batched(p)
    BY <1>3, <2>2 DEF Placed, OneKind
  <2>7. \A v, u \in Workers :
          dispatch'[v] = dispatch'[u] /\ dispatch'[v] # NoPoint => v = u
    BY <2>4, <2>6 DEF Sent, Placed, OnceOfAKind
  <2>8. OnceOfAKind'
    BY <1>1, <2>2, <2>7 DEF Placed, OnceOfAKind
  <2>9. OneKind'
    <3> SUFFICES ASSUME NEW q \in Point
                 PROVE  /\ Has(input, q) => /\ processor.point # q /\ ~Sent(q)'
                                            /\ ~Boxed(q) /\ ~Batched(q)
                        /\ processor.point = q => ~Sent(q)' /\ ~Boxed(q) /\ ~Batched(q)
                        /\ Sent(q)' => ~Boxed(q) /\ ~Batched(q)
                        /\ Boxed(q) => ~Batched(q)
                        /\ (Has(input, q) \/ processor.point = q \/ Sent(q)' \/ Boxed(q)
                              \/ Batched(q)) => q.n <= created + 1
      BY <1>1, <1>2, <2>2 DEF OneKind
    <3>1. CASE q = p
      BY <1>3, <2>2, <2>6, <3>1
    <3>2. CASE q # p
      BY <1>3, <2>5, <3>2 DEF Placed, OneKind
    <3> QED
      BY <3>1, <3>2
  <2> QED
    BY <2>8, <2>9 DEF Placed
<1>5. CASE DispatchSend(w)
  <2> DEFINE p == dispatch[w]
  <2>1. p \in Point /\ created' = created
    BY <1>5 DEF DispatchSend, Inv, TypeOK
  <2>2. \A v \in Workers : dispatch'[v] = IF v = w THEN NoPoint ELSE dispatch[v]
    BY <1>5 DEF DispatchSend, Inv, TypeOK
  <2>3. input' \in {input, Append(input, p)}
    BY <1>5 DEF DispatchSend
  <2>4. \A q \in Point : Has(input', q) => Has(input, q) \/ q = p
    BY <2>1, <2>3, AppendHas DEF Inv, TypeOK
  <2>5. Sent(p)
    BY DEF Sent
  <2>6. Once(input')
    BY <2>1, <2>3, <2>5, AppendHas DEF Placed, OnceOfAKind, OneKind, Inv, TypeOK
  <2>7. \A q \in Point : Sent(q)' => Sent(q) /\ q # p
    BY <2>1, <2>2, NilsAssumption DEF Sent, Placed, OnceOfAKind
  <2>8. OnceOfAKind'
    BY <1>1, <2>2, <2>6 DEF Placed, OnceOfAKind
  <2>9. OneKind'
    <3> SUFFICES ASSUME NEW q \in Point
                 PROVE  /\ Has(input', q) => /\ processor.point # q /\ ~Sent(q)'
                                             /\ ~Boxed(q) /\ ~Batched(q)
                        /\ processor.point = q => ~Sent(q)' /\ ~Boxed(q) /\ ~Batched(q)
                        /\ Sent(q)' => ~Boxed(q) /\ ~Batched(q)
                        /\ Boxed(q) => ~Batched(q)
                        /\ (Has(input', q) \/ processor.point = q \/ Sent(q)' \/ Boxed(q)
                              \/ Batched(q)) => q.n <= created
      BY <1>1, <1>2, <2>1 DEF OneKind
    <3>1. CASE q = p
      BY <2>5, <2>7, <3>1 DEF Placed, OneKind
    <3>2. CASE q # p
      BY <2>4, <2>7, <3>2 DEF Placed, OneKind
    <3> QED
      BY <3>1, <3>2
  <2> QED
    BY <2>8, <2>9 DEF Placed
<1> QED
  BY <1>4, <1>5

\* The processor takes the point at the head of the channel in hand.
LEMMA ReceivePlaced ==
    ASSUME Inv, Placed, Receive
    PROVE  Placed'
<1> DEFINE p == Head(input)
<1>1. UNCHANGED <<result, writing, rows, dispatch, created>>
  BY DEF Receive, Unwritten, mapVars
<1>2. processor'.point = p /\ p \in Point /\ input' = Tail(input)
  BY DEF Receive, Processor, Inv, TypeOK
<1>3. /\ Has(input, p) /\ ~Has(input', p) /\ Once(input')
      /\ \A q \in Point : Has(input', q) => Has(input, q)
  BY <1>2, TailHas DEF Receive, Inv, TypeOK, Placed, OnceOfAKind
<1>4. \A q \in Point : /\ (Sent(q)' <=> Sent(q)) /\ (Boxed(q)' <=> Boxed(q))
                       /\ (Batched(q)' <=> Batched(q))
  BY <1>1 DEF Sent, Boxed, Batched
<1>5. OnceOfAKind'
  BY <1>1, <1>3 DEF Placed, OnceOfAKind
<1>6. OneKind'
  BY <1>1, <1>2, <1>3, <1>4 DEF Placed, OneKind
<1> QED
  BY <1>5, <1>6 DEF Placed

\* The point in hand goes to the array of an object.
LEMMA AppendPlaced ==
    ASSUME Inv, Placed, AppendPoint
    PROVE  Placed'
<1> DEFINE p == processor.point
           b == processor.box
           res == [result EXCEPT ![b] = Append(@, p)]
<1>1. UNCHANGED <<input, dispatch, created, writing, rows>>
  BY DEF AppendPoint, inputVars, Unwritten
<1>2. p \in Point /\ b \in Boxes /\ processor'.point = NoPoint
  BY DEF AppendPoint, Processor, Inv, Hands
<1>3. res \in [Boxes -> Seq(Point)]
  BY <1>2 DEF Inv, TypeOK
<1>4. \A x \in Boxes : result'[x] \in {res[x], <<>>}
  BY <1>3, ReachedTypes DEF AppendPoint
<1>5. \A x \in Boxes : res[x] = IF x = b THEN Append(result[b], p) ELSE result[x]
  BY <1>2 DEF Inv, TypeOK
<1>6. ~Has(input, p) /\ ~Sent(p) /\ ~Boxed(p) /\ ~Batched(p)
  BY <1>2 DEF Placed, OneKind
<1>7. result[b] \in Seq(Point) /\ Once(result[b]) /\ ~Has(result[b], p)
  BY <1>2, <1>6 DEF Boxed, Inv, TypeOK, Placed, OnceOfAKind
<1>8. Once(res[b]) /\ \A q : Has(res[b], q) <=> Has(result[b], q) \/ q = p
  BY <1>2, <1>5, <1>7, AppendHas
<1>9. \A x \in Boxes : /\ Once(result'[x])
                       /\ \A q : Has(result'[x], q) =>
                            Has(result[x], q) \/ (x = b /\ q = p)
  <2> SUFFICES ASSUME NEW x \in Boxes
               PROVE  /\ Once(result'[x])
                      /\ \A q : Has(result'[x], q) => Has(result[x], q) \/ (x = b /\ q = p)
    OBVIOUS
  <2>1. CASE result'[x] = <<>>
    BY <2>1, EmptyHas
  <2>2. CASE result'[x] = res[x] /\ x = b
    BY <1>8, <2>2
  <2>3. CASE result'[x] = res[x] /\ x # b
    BY <1>5, <2>3 DEF Placed, OnceOfAKind
  <2> QED
    BY <1>4, <2>1, <2>2, <2>3
<1>10. \A q \in Point : \A x, y \in Boxes :
         Has(result'[x], q) /\ Has(result'[y], q) => x = y
  BY <1>6, <1>9 DEF Boxed, Placed, OnceOfAKind
<1>11. \A q \in Point : /\ Boxed(q)' => Boxed(q) \/ q = p
                        /\ (Sent(q)' <=> Sent(q)) /\ (Batched(q)' <=> Batched(q))
  BY <1>1, <1>9 DEF Sent, Boxed, Batched
<1>12. OnceOfAKind'
  BY <1>1, <1>9, <1>10 DEF Placed, OnceOfAKind
<1>13. OneKind'
  BY <1>1, <1>2, <1>6, <1>11, NilsAssumption DEF Placed, OneKind
<1> QED
  BY <1>12, <1>13 DEF Placed

\* The points of an array become a batch.
LEMMA TriggerPlaced ==
    ASSUME Inv, Placed, Trigger
    PROVE  Placed'
<1> DEFINE b == processor.box
           res == [result EXCEPT ![b] = <<>>]
<1>1. UNCHANGED <<input, dispatch, created>>
  BY DEF Trigger, inputVars
<1>2. b \in Boxes /\ processor'.point = NoPoint
  BY DEF Trigger, Processor, Inv, Hands
<1>3. writing' \cup rows' = writing \cup rows \cup {result[b]}
  BY DEF Trigger
<1>4. res \in [Boxes -> Seq(Point)]
  BY <1>2 DEF Inv, TypeOK
<1>5. \A x \in Boxes : result'[x] \in {res[x], <<>>}
  BY <1>4, ReachedTypes DEF Trigger
<1>6. \A x \in Boxes : res[x] = IF x = b THEN <<>> ELSE result[x]
  BY <1>2 DEF Inv, TypeOK
<1>7. \A x \in Boxes, q \in Point : Has(result'[x], q) => Has(result[x], q) /\ x # b
  BY <1>5, <1>6, EmptyHas
<1>8. \A x \in Boxes : Once(result'[x])
  BY <1>5, <1>6, EmptyHas DEF Placed, OnceOfAKind
<1>9. \A q \in Point : Has(result[b], q) => Boxed(q) /\ ~Batched(q)
  BY <1>2 DEF Boxed, Placed, OneKind
<1>10. \A q \in Point : \A s, t \in writing' \cup rows' : Has(s, q) /\ Has(t, q) => s = t
  BY <1>3, <1>9 DEF Batched, Placed, OnceOfAKind
<1>11. \A s \in writing' \cup rows' : Once(s)
  BY <1>2, <1>3 DEF Placed, OnceOfAKind
<1>12. \A q \in Point : /\ Boxed(q)' => Boxed(q) /\ ~Has(result[b], q)
                        /\ Batched(q)' => Batched(q) \/ Has(result[b], q)
                        /\ (Sent(q)' <=> Sent(q))
  <2> SUFFICES ASSUME NEW q \in Point
               PROVE  /\ Boxed(q)' => Boxed(q) /\ ~Has(result[b], q)
                      /\ Batched(q)' => Batched(q) \/ Has(result[b], q)
                      /\ (Sent(q)' <=> Sent(q))
    OBVIOUS
  <2>1. Boxed(q)' => Boxed(q) /\ ~Has(result[b], q)
    BY <1>2, <1>7 DEF Boxed, Placed, OnceOfAKind
  <2>2. Batched(q)' => Batched(q) \/ Has(result[b], q)
    BY <1>3 DEF Batched
  <2>3. Sent(q)' <=> Sent(q)
    BY <1>1 DEF Sent
  <2> QED
    BY <2>1, <2>2, <2>3
<1>13. OnceOfAKind'
  BY <1>1, <1>7, <1>8, <1>10, <1>11 DEF Placed, OnceOfAKind
<1>14. OneKind'
  BY <1>1, <1>2, <1>9, <1>12, NilsAssumption DEF Placed, OneKind
<1> QED
  BY <1>13, <1>14 DEF Placed

\* Every step of the worker and its callers keeps points apart.
LEMMA StepPlaced == Inv /\ Placed /\ [Next]_vars => Placed'
<1> SUFFICES ASSUME Inv, Placed, [Next]_vars PROVE Placed'
  OBVIOUS
<1>1. ASSUME NEW S, Remove(S) PROVE Placed'
  <2>1. \A b \in Boxes : result'[b] \in {result[b], <<>>}
    BY <1>1, ReachedTypes DEF Remove, Inv, TypeOK
  <2> QED
    BY <1>1, <2>1, Fewer DEF Remove, inputVars, Placed, OnceOfAKind
<1>2. CASE Events
  BY <1>1, <1>2, DispatchPlaced DEF Events, RemoveInstance, RemoveEndpoint
<1>3. CASE Receive
  BY <1>3, ReceivePlaced
<1>4. CASE Stop \/ Lookup
  <2>1. processor'.point \in {processor.point, NoPoint}
    BY <1>4 DEF Stop, Lookup, Processor
  <2>2. UNCHANGED <<input, dispatch, created, result, writing, rows>>
    BY <1>4 DEF Stop, Lookup, mapVars, inputVars, Unwritten
  <2> QED
    BY <2>1, <2>2, Fewer DEF Placed, OnceOfAKind
<1>5. CASE Create
  <2>1. \A b \in Boxes : result'[b] \in {result[b], <<>>}
    BY <1>5, ReachedTypes DEF Create, Inv, TypeOK
  <2>2. processor'.point = processor.point
    BY <1>5 DEF Create, Processor
  <2> QED
    BY <1>5, <2>1, <2>2, Fewer DEF Create, inputVars, Unwritten, Placed, OnceOfAKind
<1>6. CASE AppendPoint
  BY <1>6, AppendPlaced
<1>7. CASE Trigger
  BY <1>7, TriggerPlaced
<1>8. CASE Write
  BY <1>8, Fewer DEF Write, mapVars, inputVars, Placed, OnceOfAKind
<1>9. CASE Cleanup
  BY <1>1, <1>9 DEF Cleanup
<1>10. CASE CleanerStop \/ CloseStart
  BY <1>10, Fewer DEF CleanerStop, CloseStart, mapVars, inputVars, Placed, OnceOfAKind
<1>11. CASE CloseInput
  <2>1. Once(input') /\ \A p \in Point : Has(input', p) => Has(input, p)
    <3>1. input \in Seq(Point) /\ Once(input)
      BY DEF Inv, TypeOK, Placed, OnceOfAKind
    <3>2. input' = input \/ (input # <<>> /\ input' = Tail(input))
      BY <1>11 DEF CloseInput
    <3>3. CASE input' = input
      BY <3>1, <3>3
    <3>4. CASE input # <<>> /\ input' = Tail(input)
      BY <3>1, <3>4, TailHas
    <3> QED
      BY <3>2, <3>3, <3>4
  <2> QED
    BY <1>11, <2>1, Fewer DEF CloseInput, mapVars
<1>12. CASE UNCHANGED vars
  BY <1>12, Fewer DEF vars, Placed, OnceOfAKind
<1> QED
  BY <1>2, <1>3, <1>4, <1>5, <1>6, <1>7, <1>8, <1>9, <1>10, <1>11, <1>12 DEF Next, Process

\* What a member of Held is, and that each of its points has a place.
LEMMA HeldPlaces ==
    ASSUME Inv, NEW x \in Held, NEW j \in DOMAIN x[2], x[2][j] # NoPoint
    PROVE  LET p == x[2][j]
           IN  /\ p \in Point
               /\ \/ x = <<"input", input>> /\ Has(input, p)
                  \/ x = <<"hand", <<processor.point>>>> /\ processor.point = p /\ j = 1
                  \/ \E w \in Workers : x = <<w, <<dispatch[w]>>>> /\ dispatch[w] = p /\ j = 1
                  \/ \E b \in Boxes : x = <<b, result[b]>> /\ Has(result[b], p)
                  \/ \E s \in writing \cup rows : x = <<"batch", s>> /\ Has(s, p)
<1>1. CASE x = <<"input", input>>
  BY <1>1 DEF Inv, TypeOK, Has
<1>2. CASE x = <<"hand", <<processor.point>>>>
  <2>1. j = 1 /\ x[2][j] = processor.point
    BY <1>2
  <2>2. processor.point \in Point \cup {NoPoint}
    BY DEF Inv, TypeOK, ProcessorState
  <2> QED
    BY <1>2, <2>1, <2>2
<1>3. ASSUME NEW w \in Workers, x = <<w, <<dispatch[w]>>>>
      PROVE  x[2][j] \in Point /\ dispatch[w] = x[2][j] /\ j = 1
  BY <1>3 DEF Inv, TypeOK
<1>4. ASSUME NEW b \in Boxes, x = <<b, result[b]>>
      PROVE  x[2][j] \in Point /\ Has(result[b], x[2][j])
  BY <1>4 DEF Inv, TypeOK, Has
<1>5. ASSUME NEW s \in writing \cup rows, x = <<"batch", s>>
      PROVE  x[2][j] \in Point /\ Has(s, x[2][j])
  BY <1>5 DEF Inv, TypeOK, Has
<1> QED
  BY <1>1, <1>2, <1>3, <1>4, <1>5 DEF Held

\* A data point dispatched once is never stored twice: it is in one place on its way from
\* Dispatch through the channel, the hand of the processor and the array of an object to
\* its batch, whatever entries RemoveInstance, RemoveEndpoint and the cleaner remove and
\* the processor creates anew.
THEOREM PointOnceAlways == Spec => []PointOnce
<1>1. ASSUME Inv, Placed PROVE PointOnce
  <2> SUFFICES ASSUME NEW x \in Held, NEW y \in Held,
                      NEW j \in DOMAIN x[2], NEW k \in DOMAIN y[2],
                      x[2][j] = y[2][k], x[2][j] # NoPoint
               PROVE  x = y /\ j = k
    BY DEF PointOnce
  <2> DEFINE p == x[2][j]
  <2>1. /\ p \in Point
        /\ \/ x = <<"input", input>> /\ Has(input, p)
           \/ x = <<"hand", <<processor.point>>>> /\ processor.point = p /\ j = 1
           \/ \E w \in Workers : x = <<w, <<dispatch[w]>>>> /\ dispatch[w] = p /\ j = 1
           \/ \E b \in Boxes : x = <<b, result[b]>> /\ Has(result[b], p)
           \/ \E s \in writing \cup rows : x = <<"batch", s>> /\ Has(s, p)
    BY <1>1, HeldPlaces
  <2>2. \/ y = <<"input", input>> /\ Has(input, p)
        \/ y = <<"hand", <<processor.point>>>> /\ processor.point = p /\ k = 1
        \/ \E w \in Workers : y = <<w, <<dispatch[w]>>>> /\ dispatch[w] = p /\ k = 1
        \/ \E b \in Boxes : y = <<b, result[b]>> /\ Has(result[b], p)
        \/ \E s \in writing \cup rows : y = <<"batch", s>> /\ Has(s, p)
    BY <1>1, HeldPlaces
  <2>3. /\ Has(input, p) => processor.point # p /\ ~Sent(p) /\ ~Boxed(p) /\ ~Batched(p)
        /\ processor.point = p => ~Sent(p) /\ ~Boxed(p) /\ ~Batched(p)
        /\ Sent(p) => ~Boxed(p) /\ ~Batched(p)
        /\ Boxed(p) => ~Batched(p)
    BY <1>1, <2>1 DEF Placed, OneKind
  <2>4. CASE x = <<"input", input>> /\ Has(input, p)
    <3>1. y = x
      BY <2>2, <2>3, <2>4 DEF Sent, Boxed, Batched
    <3> QED
      BY <1>1, <2>4, <3>1 DEF Placed, OnceOfAKind, Once
  <2>5. CASE x = <<"hand", <<processor.point>>>> /\ processor.point = p /\ j = 1
    BY <2>2, <2>3, <2>5 DEF Sent, Boxed, Batched
  <2>6. ASSUME NEW w \in Workers, x = <<w, <<dispatch[w]>>>>, dispatch[w] = p, j = 1
        PROVE  x = y /\ j = k
    <3>1. PICK v \in Workers : y = <<v, <<dispatch[v]>>>> /\ dispatch[v] = p /\ k = 1
      BY <2>2, <2>3, <2>6 DEF Sent, Boxed, Batched
    <3>2. v = w
      BY <1>1, <2>6, <3>1 DEF Placed, OnceOfAKind
    <3> QED
      BY <2>6, <3>1, <3>2
  <2>7. ASSUME NEW b \in Boxes, x = <<b, result[b]>>, Has(result[b], p)
        PROVE  x = y /\ j = k
    <3>1. PICK a \in Boxes : y = <<a, result[a]>> /\ Has(result[a], p)
      BY <2>2, <2>3, <2>7 DEF Sent, Boxed, Batched
    <3>2. a = b
      BY <1>1, <2>1, <2>7, <3>1 DEF Placed, OnceOfAKind
    <3>3. Once(result[b])
      BY <1>1 DEF Placed, OnceOfAKind
    <3> QED
      BY <2>7, <3>1, <3>2, <3>3 DEF Once
  <2>8. ASSUME NEW s \in writing \cup rows, x = <<"batch", s>>, Has(s, p)
        PROVE  x = y /\ j = k
    <3>1. PICK t \in writing \cup rows : y = <<"batch", t>> /\ Has(t, p)
      BY <2>2, <2>3, <2>8 DEF Sent, Boxed, Batched
    <3>2. t = s
      BY <1>1, <2>1, <2>8, <3>1 DEF Placed, OnceOfAKind
    <3>3. Once(s)
      BY <1>1 DEF Placed, OnceOfAKind
    <3> QED
      BY <2>8, <3>1, <3>2, <3>3 DEF Once
  <2> QED
    BY <2>1, <2>4, <2>5, <2>6, <2>7, <2>8
<1>2. Inv /\ Placed => PointOnce
  BY <1>1
<1> QED
  BY <1>2, InitInv, StepInv, PlacedInit, StepPlaced, PTL DEF Spec
=============================================================================
