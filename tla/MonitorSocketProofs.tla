------------------------ MODULE MonitorSocketProofs ------------------------
(***************************************************************************)
(* Proofs about the panels of MonitorSocket, for any objects, sockets,     *)
(* times and lengths of the history.                                       *)
(*                                                                         *)
(* The hook is sound because of what Owned says: it has tried exactly when *)
(* it is given an object, and no socket but the one it holds is open or    *)
(* being opened.  So the handlers, which never ask whose socket they serve,*)
(* write the state of the right one, except when it closes.  OpenChart     *)
(* strengthens ChartOfOneStream: what is drawn under an open socket is     *)
(* that socket's, so a sample that arrives fits what is there.             *)
(***************************************************************************)
EXTENDS MonitorSocket, TLAPS

\* The hook and its sockets.
Owned ==
    /\ target # NoId <=> attempted
    /\ ~mounted => target = NoId
    /\ ref # NoSocket => attempted
    /\ Live \subseteq {ref}

Drawn == {base, rate.from, rate.to} \cup {history[k] : k \in 1..Len(history)}

\* Under an open socket its own samples are drawn.
OpenChart ==
    \A s \in Sockets : socket[s].state = "open" =>
        \A p \in Drawn \ {NoSample} : p.socket = s

Inv == TypeOK /\ Owned /\ ConnectedMeansOpen /\ OpenChart /\ ChartOfOneStream

-----------------------------------------------------------------------------
(* The parts of the invariant a step leaves alone                          *)

\* It holds before the panel appears.
LEMMA InitInv == Init => Inv
<1> SUFFICES ASSUME Init PROVE Inv
  OBVIOUS
<1>1. socket \in [Sockets -> SocketState] /\ rate \in [from : Samples, to : Samples]
      /\ history \in Seq(Sample) /\ Len(history) <= HistoryLimit
  BY LimitAssumption DEF Init, SocketState, Samples, NoRate
<1>2. TypeOK
  BY <1>1 DEF Init, TypeOK, Samples
<1>3. Owned /\ ConnectedMeansOpen /\ OpenChart
  BY DEF Init, Owned, ConnectedMeansOpen, OpenChart, Live
<1>4. Drawn = {NoSample}
  BY DEF Init, Drawn, NoRate
<1>5. ChartOfOneStream
  BY <1>4 DEF Init, ChartOfOneStream, Drawn
<1> QED
  BY <1>2, <1>3, <1>5 DEF Inv

\* A step that leaves the chart alone and opens no socket.
LEMMA ChartAside ==
    ASSUME Inv, UNCHANGED chart,
           \A s \in Sockets : socket'[s].state = "open" => socket[s].state = "open"
    PROVE  OpenChart' /\ ChartOfOneStream'
  BY DEF Inv, OpenChart, ChartOfOneStream, Drawn, chart

\* A chart that is empty is in order.
LEMMA ChartEmpty ==
    ASSUME ClearChart
    PROVE  /\ OpenChart' /\ ChartOfOneStream'
           /\ base' \in Samples /\ rate' \in [from : Samples, to : Samples]
           /\ history' \in Seq(Sample) /\ Len(history') <= HistoryLimit
<1>1. base' = NoSample /\ rate' = NoRate /\ history' = <<>>
  BY DEF ClearChart
<1>2. Drawn' = {NoSample}
  BY <1>1 DEF Drawn, NoRate
<1>3. OpenChart' /\ ChartOfOneStream'
  BY <1>1, <1>2 DEF OpenChart, ChartOfOneStream, Drawn
<1> QED
  BY <1>1, <1>3, LimitAssumption DEF Samples, NoRate

\* Closing a socket keeps the types of all.
LEMMA ClosingTypes ==
    ASSUME TypeOK, NEW s \in Sockets
    PROVE  /\ Closing(s) \in [Sockets -> SocketState]
           /\ \A t \in Sockets : Closing(s)[t].id = socket[t].id
           /\ \A t \in Sockets : t # s => Closing(s)[t] = socket[t]
           /\ Closing(s)[s].state \notin {"connecting", "open"}
  BY DEF TypeOK, SocketState, Closing

-----------------------------------------------------------------------------
(* What the effect does                                                    *)

\* Without an object everything is closed.
LEMMA DisconnectDoes ==
    ASSUME Inv, Disconnect
    PROVE  /\ socket' \in [Sockets -> SocketState] /\ Live' = {}
           /\ ref' = NoSocket /\ attempted' = FALSE
           /\ connected' = FALSE /\ connecting' = FALSE /\ failed' = FALSE
           /\ \A s \in Sockets : socket'[s].state = "open" => socket[s].state = "open"
<1>1. CASE ref = NoSocket
  <2>1. socket' = socket
    BY <1>1 DEF Disconnect
  <2>2. Live = {}
    BY <1>1, NilAssumption DEF Inv, Owned, Live
  <2> QED
    BY <2>1, <2>2 DEF Disconnect, Inv, TypeOK, Live
<1>2. CASE ref # NoSocket
  <2>1. ref \in Sockets /\ socket' = Closing(ref)
    BY <1>2 DEF Disconnect, Inv, TypeOK
  <2>2. Live' = {}
    BY <2>1, ClosingTypes DEF Inv, Owned, Live
  <2> QED
    BY <2>1, <2>2, ClosingTypes DEF Disconnect, Inv, Live
<1> QED
  BY <1>1, <1>2

\* A hook that has not tried yet opens one socket, or fails.
LEMMA ConnectDoes ==
    ASSUME Inv, NEW i \in Ids, ~attempted, Connect(i)
    PROVE  /\ socket' \in [Sockets -> SocketState]
           /\ attempted' = TRUE /\ connected' = FALSE
           /\ connecting' \in BOOLEAN /\ failed' \in BOOLEAN
           /\ \/ ref' = NoSocket /\ socket' = socket /\ Live' = {}
              \/ ref' \in Sockets /\ Live' = {ref'} /\ socket'[ref'].id = i
           /\ \A s \in Sockets : socket'[s].state = "open" => socket[s].state = "open"
<1>1. ref = NoSocket /\ Live = {} /\ connected = FALSE
  BY NilAssumption DEF Inv, Owned, Live, TypeOK, ConnectedMeansOpen
<1>2. CASE \E s \in {t \in Sockets : socket[t].state = "closed"} :
            /\ ref' = s
            /\ socket' = [socket EXCEPT ![s] = [state |-> "connecting", id |-> i]]
            /\ connecting' = TRUE /\ failed' = FALSE
  <2>1. PICK s \in Sockets :
            /\ ref' = s
            /\ socket' = [socket EXCEPT ![s] = [state |-> "connecting", id |-> i]]
            /\ connecting' = TRUE /\ failed' = FALSE
    BY <1>2
  <2>2. socket' \in [Sockets -> SocketState] /\ socket'[s].id = i
        /\ socket'[s].state = "connecting"
        /\ \A t \in Sockets : t # s => socket'[t] = socket[t]
    BY <2>1 DEF Inv, TypeOK, SocketState
  <2>3. Live' = {s}
    BY <1>1, <2>2 DEF Live
  <2> QED
    BY <1>1, <2>1, <2>2, <2>3 DEF Connect
<1>3. CASE /\ connecting' = FALSE /\ failed' = TRUE
           /\ UNCHANGED <<ref, socket>>
  BY <1>1, <1>3 DEF Connect, Inv, TypeOK, Live
<1> QED
  BY <1>2, <1>3 DEF Connect

\* The effect, for an object that is another than before.
LEMMA FollowInv ==
    ASSUME Inv, NEW i \in Ids \cup {NoId}, i # target \/ ~mounted,
           mounted' = TRUE, target' = i, FollowTarget(i), UNCHANGED chart
    PROVE  Inv'
<1>1. i = NoId => Disconnect
  BY DEF FollowTarget
<1>2. i # NoId /\ attempted => UNCHANGED <<hook, socket>>
  BY DEF FollowTarget
<1>3. i # NoId /\ ~attempted => Connect(i)
  BY DEF FollowTarget
<1>4. CASE i = NoId
  <2>1. OpenChart' /\ ChartOfOneStream'
    BY <1>1, <1>4, DisconnectDoes, ChartAside
  <2>2. TypeOK'
    BY <1>1, <1>4, DisconnectDoes DEF Inv, TypeOK, chart
  <2>3. Owned' /\ ConnectedMeansOpen'
    BY <1>1, <1>4, DisconnectDoes DEF Owned, ConnectedMeansOpen
  <2> QED
    BY <2>1, <2>2, <2>3 DEF Inv
<1>5. CASE i # NoId /\ attempted
  <2>1. UNCHANGED <<ref, attempted, connected, connecting, failed, socket>>
    BY <1>2, <1>5 DEF hook
  <2>2. OpenChart' /\ ChartOfOneStream'
    BY <2>1, ChartAside
  <2>3. TypeOK'
    BY <2>1 DEF Inv, TypeOK, chart
  <2>4. Owned' /\ ConnectedMeansOpen'
    BY <1>5, <2>1 DEF Inv, Owned, ConnectedMeansOpen, Live
  <2> QED
    BY <2>2, <2>3, <2>4 DEF Inv
<1>6. CASE i # NoId /\ ~attempted
  <2>1. i \in Ids
    BY <1>6
  <2>2. OpenChart' /\ ChartOfOneStream'
    BY <1>3, <1>6, <2>1, ConnectDoes, ChartAside
  <2>3. TypeOK'
    BY <1>3, <1>6, <2>1, ConnectDoes DEF Inv, TypeOK, chart
  <2>4. Owned' /\ ConnectedMeansOpen'
    BY <1>3, <1>6, <2>1, ConnectDoes DEF Owned, ConnectedMeansOpen
  <2> QED
    BY <2>2, <2>3, <2>4 DEF Inv
<1> QED
  BY <1>4, <1>5, <1>6

-----------------------------------------------------------------------------
(* One lemma per action                                                    *)

LEMMA MountInv ==
    ASSUME Inv, NEW i \in Ids \cup {NoId}, Mount(i)
    PROVE  Inv'
  BY FollowInv DEF Mount

LEMMA ChooseInv ==
    ASSUME Inv, NEW i \in Ids \cup {NoId}, Choose(i)
    PROVE  Inv'
<1>1. mounted
  BY DEF Choose
<1> QED
  BY <1>1, FollowInv DEF Choose

LEMMA UnmountInv ==
    ASSUME Inv, Unmount
    PROVE  Inv'
<1>1. /\ socket' \in [Sockets -> SocketState]
      /\ \A s \in Sockets :
            /\ s = ref \/ socket[s].state = "closing" => socket'[s].state = "closed"
            /\ s # ref /\ socket[s].state # "closing" => socket'[s] = socket[s]
  BY DEF Inv, TypeOK, SocketState, Unmount
<1>2. Live' = {}
  BY <1>1 DEF Inv, Owned, Live
<1>3. ClearChart
  BY DEF Unmount
<1>4. TypeOK'
  BY <1>1, <1>3, ChartEmpty DEF Unmount, TypeOK
<1>5. Owned' /\ ConnectedMeansOpen'
  BY <1>2 DEF Unmount, Owned, ConnectedMeansOpen
<1> QED
  BY <1>3, <1>4, <1>5, ChartEmpty DEF Inv

\* The socket that opens is the one the hook holds.
LEMMA OpenedInv ==
    ASSUME Inv, NEW s \in Sockets, Opened(s)
    PROVE  Inv'
<1>1. s = ref
  BY DEF Inv, Owned, Live, Opened
<1>2. socket' \in [Sockets -> SocketState] /\ socket'[s].state = "open"
      /\ \A t \in Sockets : t # s => socket'[t] = socket[t]
  BY DEF Inv, TypeOK, SocketState, Opened
<1>3. Live' \subseteq {ref}
  BY <1>1, <1>2 DEF Inv, Owned, Live
<1>4. ClearChart
  BY DEF Opened
<1>5. TypeOK'
  BY <1>2, <1>4, ChartEmpty DEF Opened, Inv, TypeOK
<1>6. Owned' /\ ConnectedMeansOpen'
  BY <1>1, <1>2, <1>3, NilAssumption DEF Opened, Inv, Owned, ConnectedMeansOpen
<1> QED
  BY <1>4, <1>5, <1>6, ChartEmpty DEF Inv

\* What Append and Tail do: nothing is in them that was not there, or was added.
LEMMA Appended ==
    ASSUME NEW q \in Seq(Sample), NEW x \in Sample
    PROVE  /\ Append(q, x) \in Seq(Sample) /\ Len(q) \in Nat /\ Len(Append(q, x)) = Len(q) + 1
           /\ \A k \in 1..Len(Append(q, x)) :
                Append(q, x)[k] = x \/ \E j \in 1..Len(q) : Append(q, x)[k] = q[j]
<1>1. /\ Append(q, x) \in Seq(Sample) /\ Len(q) \in Nat /\ Len(Append(q, x)) = Len(q) + 1
      /\ \A k \in 1..Len(q) : Append(q, x)[k] = q[k]
      /\ Append(q, x)[Len(q) + 1] = x
  OBVIOUS
<1>2. SUFFICES ASSUME NEW k \in 1..Len(Append(q, x))
               PROVE  Append(q, x)[k] = x \/ \E j \in 1..Len(q) : Append(q, x)[k] = q[j]
  BY <1>1
<1>3. k = Len(q) + 1 \/ k \in 1..Len(q)
  BY <1>1
<1> QED
  BY <1>1, <1>3

LEMMA Tailed ==
    ASSUME NEW q \in Seq(Sample), Len(q) # 0
    PROVE  /\ Tail(q) \in Seq(Sample) /\ Len(Tail(q)) = Len(q) - 1
           /\ \A k \in 1..Len(Tail(q)) : \E j \in 1..Len(q) : Tail(q)[k] = q[j]
<1>1. /\ Tail(q) \in Seq(Sample) /\ Len(Tail(q)) = Len(q) - 1
      /\ \A k \in 1..Len(Tail(q)) : Tail(q)[k] = q[k + 1] /\ k + 1 \in 1..Len(q)
  OBVIOUS
<1> QED
  BY <1>1

Grown(h, x) == IF Len(h) < HistoryLimit THEN Append(h, x) ELSE Append(Tail(h), x)

\* The history after one more sample, never longer than its limit.
LEMMA HistoryGrows ==
    ASSUME NEW h \in Seq(Sample), Len(h) <= HistoryLimit, NEW x \in Sample
    PROVE  /\ Grown(h, x) \in Seq(Sample) /\ Len(Grown(h, x)) <= HistoryLimit
           /\ \A k \in 1..Len(Grown(h, x)) :
                Grown(h, x)[k] = x \/ \E j \in 1..Len(h) : Grown(h, x)[k] = h[j]
<1>1. CASE Len(h) < HistoryLimit
  <2>1. Grown(h, x) = Append(h, x)
    BY <1>1 DEF Grown
  <2>2. Len(Append(h, x)) <= HistoryLimit
    BY <1>1, LimitAssumption, Appended
  <2> QED
    BY <2>1, <2>2, Appended
<1>2. CASE ~(Len(h) < HistoryLimit)
  <2>1. Len(h) # 0 /\ Len(h) = HistoryLimit
    BY <1>2, LimitAssumption
  <2>2. PICK t :
          /\ t = Tail(h) /\ t \in Seq(Sample) /\ Len(t) = Len(h) - 1
          /\ \A k \in 1..Len(t) : \E j \in 1..Len(h) : t[k] = h[j]
    <3>1. /\ Tail(h) \in Seq(Sample) /\ Len(Tail(h)) = Len(h) - 1
          /\ \A k \in 1..Len(Tail(h)) : \E j \in 1..Len(h) : Tail(h)[k] = h[j]
      BY <2>1, Tailed
    <3> QED
      BY <3>1, Zenon
  <2>3. Grown(h, x) = Append(t, x)
    BY <1>2, <2>2 DEF Grown
  <2>4. Append(t, x) \in Seq(Sample) /\ Len(Append(t, x)) <= HistoryLimit
    BY <2>1, <2>2, LimitAssumption, Appended
  <2>5. SUFFICES ASSUME NEW k \in 1..Len(Append(t, x)), Append(t, x)[k] # x
                 PROVE  \E j \in 1..Len(h) : Append(t, x)[k] = h[j]
    BY <2>3, <2>4
  <2>6. PICK i \in 1..Len(t) : Append(t, x)[k] = t[i]
    <3>1. \A n \in 1..Len(Append(t, x)) :
             Append(t, x)[n] = x \/ \E j \in 1..Len(t) : Append(t, x)[n] = t[j]
      <4>1. t \in Seq(Sample)
        BY <2>2
      <4> QED
        BY <4>1, Appended
    <3> QED
      BY <2>5, <3>1, Zenon
  <2>7. PICK j \in 1..Len(h) : t[i] = h[j]
    BY <2>2, <2>6
  <2> QED
    BY <2>6, <2>7
<1> QED
  BY <1>1, <1>2

\* A sample that arrives is of the socket whose samples are drawn.
LEMMA DataInv ==
    ASSUME Inv, NEW s \in Sockets, NEW time \in 1..MaxTime, Data(s, time)
    PROVE  Inv'
<1> DEFINE sample == [socket |-> s, time |-> time]
<1>1. sample \in Sample /\ sample # NoSample /\ sample.socket = s /\ sample.time = time
  BY NilAssumption DEF Sample
<1>2. /\ base' = sample
      /\ rate' = IF base # NoSample /\ time > base.time
                   THEN [from |-> base, to |-> sample] ELSE rate
      /\ history' = IF Len(history) < HistoryLimit THEN Append(history, sample)
                    ELSE Append(Tail(history), sample)
      /\ UNCHANGED <<mounted, target, hook, socket>>
      /\ socket[s].state = "open"
  BY DEF Data
<1>3. /\ history' \in Seq(Sample) /\ Len(history') <= HistoryLimit
      /\ \A k \in 1..Len(history') :
            history'[k] = sample \/ \E j \in 1..Len(history) : history'[k] = history[j]
  <2>1. history' = Grown(history, sample)
    BY <1>2 DEF Grown
  <2> HIDE DEF sample
  <2> QED
    BY <1>1, <2>1, HistoryGrows DEF Inv, TypeOK
<1>4. TypeOK'
  <2>1. base' \in Samples
    BY <1>1, <1>2 DEF Samples
  <2>2. rate' \in [from : Samples, to : Samples]
    BY <1>1, <1>2 DEF Inv, TypeOK, Samples
  <2> QED
    BY <1>2, <1>3, <2>1, <2>2 DEF Inv, TypeOK, hook
<1>5. Owned' /\ ConnectedMeansOpen'
  BY <1>2 DEF Inv, Owned, ConnectedMeansOpen, Live, hook
<1>6. Drawn' \subseteq Drawn \cup {sample}
  BY <1>2, <1>3 DEF Drawn
<1>7. \A p \in Drawn' \ {NoSample} : p.socket = s
  BY <1>1, <1>2, <1>6 DEF Inv, OpenChart
<1>8. OpenChart'
  <2>1. \A t \in Sockets : socket'[t].state = "open" => t = s
    BY <1>2 DEF Inv, Owned, Live
  <2> QED
    BY <1>7, <2>1 DEF OpenChart
<1>9. ChartOfOneStream'
  <2>1. \A p, q \in Drawn' \ {NoSample} : p.socket = q.socket
    BY <1>7
  <2>2. rate' # NoRate => rate'.from.time < rate'.to.time
    <3>1. CASE base # NoSample /\ time > base.time
      <4>1. base.time \in Nat
        BY <3>1, LimitAssumption DEF Inv, TypeOK, Samples, Sample
      <4> QED
        BY <1>1, <1>2, <3>1, <4>1
    <3>2. CASE ~(base # NoSample /\ time > base.time)
      BY <1>2, <3>2 DEF Inv, ChartOfOneStream
    <3> QED
      BY <3>1, <3>2
  <2> QED
    BY <2>1, <2>2 DEF ChartOfOneStream, Drawn
<1> QED
  BY <1>4, <1>5, <1>8, <1>9 DEF Inv

LEMMA ServerErrorInv ==
    ASSUME Inv, NEW s \in Sockets, ServerError(s)
    PROVE  Inv'
<1>1. UNCHANGED <<mounted, target, ref, attempted, socket, connected, connecting, chart>>
      /\ failed' \in BOOLEAN
  BY DEF ServerError, Shown
<1>2. TypeOK'
  BY <1>1 DEF Inv, TypeOK, chart
<1>3. Owned' /\ ConnectedMeansOpen'
  BY <1>1 DEF Inv, Owned, ConnectedMeansOpen, Live
<1> QED
  BY <1>1, <1>2, <1>3, ChartAside DEF Inv

LEMMA ClosedInv ==
    ASSUME Inv, NEW s \in Sockets, NEW clean \in BOOLEAN, Closed(s, clean)
    PROVE  Inv'
<1>1. /\ UNCHANGED <<mounted, target, ref, attempted, chart>>
      /\ connected' = FALSE /\ connecting' = FALSE /\ failed' \in BOOLEAN
  BY DEF Closed, Shown
<1>2. /\ socket' \in [Sockets -> SocketState] /\ socket'[s].state = "closed"
      /\ \A t \in Sockets : t # s => socket'[t] = socket[t]
  BY DEF Inv, TypeOK, SocketState, Closed
<1>3. TypeOK'
  BY <1>1, <1>2 DEF Inv, TypeOK, chart
<1>4. Owned' /\ ConnectedMeansOpen'
  BY <1>1, <1>2 DEF Inv, Owned, ConnectedMeansOpen, Live
<1>5. OpenChart' /\ ChartOfOneStream'
  BY <1>1, <1>2, ChartAside
<1> QED
  BY <1>3, <1>4, <1>5 DEF Inv

\* Every step of panel, hook and sockets keeps the invariant.
LEMMA StepInv == Inv /\ [Next]_vars => Inv'
<1> SUFFICES ASSUME Inv, [Next]_vars PROVE Inv'
  OBVIOUS
<1>1. ASSUME NEW i \in Ids \cup {NoId}, Mount(i) PROVE Inv'
  BY <1>1, MountInv
<1>2. ASSUME NEW i \in Ids \cup {NoId}, Choose(i) PROVE Inv'
  BY <1>2, ChooseInv
<1>3. ASSUME Unmount PROVE Inv'
  BY <1>3, UnmountInv
<1>4. ASSUME NEW s \in Sockets, SocketEvent(s) PROVE Inv'
  BY <1>4, OpenedInv, DataInv, ServerErrorInv, ClosedInv DEF SocketEvent
<1>5. ASSUME UNCHANGED vars PROVE Inv'
  <2>1. TypeOK'
    BY <1>5 DEF Inv, TypeOK, vars
  <2>2. Owned' /\ ConnectedMeansOpen'
    BY <1>5 DEF Inv, Owned, ConnectedMeansOpen, Live, vars
  <2>3. OpenChart' /\ ChartOfOneStream'
    BY <1>5, ChartAside DEF vars, chart
  <2> QED
    BY <2>1, <2>2, <2>3 DEF Inv
<1> QED
  BY <1>1, <1>2, <1>3, <1>4, <1>5 DEF Next

LEMMA Invariance == Spec => []Inv
  BY InitInv, StepInv, PTL DEF Spec

-----------------------------------------------------------------------------
(* Theorems                                                                *)

\* Whatever the panel is given and in whatever order the sockets' events come, every
\* state is well typed; the history never exceeds its limit.
THEOREM TypeCorrect == Spec => []TypeOK
<1>1. Inv => TypeOK
  BY DEF Inv
<1> QED
  BY <1>1, Invariance, PTL

\* isConnected is true only while the socket of websocketRef is open.
THEOREM ConnectedMeansOpenAlways == Spec => []ConnectedMeansOpen
<1>1. Inv => ConnectedMeansOpen
  BY DEF Inv
<1> QED
  BY <1>1, Invariance, PTL

\* No chart and no rate is ever made from the samples of two connections.
THEOREM ChartOfOneStreamAlways == Spec => []ChartOfOneStream
<1>1. Inv => ChartOfOneStream
  BY DEF Inv
<1> QED
  BY <1>1, Invariance, PTL

-----------------------------------------------------------------------------
(* Refinement                                                              *)

\* The effect begins a feed, leaves the one there is, or ends it.
LEMMA FollowFeeds ==
    ASSUME Inv, NEW i \in Ids \cup {NoId}, i # target \/ ~mounted,
           target' = i, FollowTarget(i)
    PROVE  [Feeds!FeedNext]_(Feeds!feedVars)
<1> DEFINE feeds == {[socket |-> s, id |-> socket[s].id] : s \in Live}
<1>1. CASE i = NoId
  <2>1. Live' = {}
    BY <1>1, DisconnectDoes DEF FollowTarget
  <2>2. feeds' = {}
    BY <2>1
  <2>3. Feeds!Hide
    BY <1>1, <2>2 DEF Feeds!Hide
  <2> QED
    BY <2>3 DEF Feeds!FeedNext
<1>2. CASE i # NoId /\ attempted
  <2>1. target # NoId /\ UNCHANGED socket /\ i \in Ids
    BY <1>2 DEF FollowTarget, Inv, Owned
  <2>2. feeds' = feeds
    BY <2>1 DEF Live
  <2>3. Feeds!Switch(i)
    BY <2>1, <2>2 DEF Feeds!Switch
  <2> QED
    BY <2>1, <2>3 DEF Feeds!FeedNext
<1>3. CASE i # NoId /\ ~attempted
  <2>1. i \in Ids /\ target = NoId /\ Connect(i)
    BY <1>3 DEF FollowTarget, Inv, Owned
  <2>2. CASE Live' = {}
    <3>1. feeds' = {}
      BY <2>2
    <3>2. Feeds!Show(i)
      BY <2>1, <3>1 DEF Feeds!Show
    <3> QED
      BY <2>1, <3>2 DEF Feeds!FeedNext
  <2>3. CASE ref' \in Sockets /\ Live' = {ref'} /\ socket'[ref'].id = i
    <3>1. feeds' = {[socket |-> ref', id |-> i]}
      BY <2>3
    <3>2. [socket |-> ref', id |-> i] \in {g \in Feeds!Feed : g.id = i}
      BY <2>1, <2>3 DEF Feeds!Feed
    <3>3. Feeds!Show(i)
      BY <2>1, <3>1, <3>2 DEF Feeds!Show
    <3> QED
      BY <2>1, <3>3 DEF Feeds!FeedNext
  <2> QED
    BY <1>3, <2>1, <2>2, <2>3, ConnectDoes
<1> QED
  BY <1>1, <1>2, <1>3

\* Every step of panel, hook and sockets is one MonitorFeed allows, or none of its.
LEMMA StepFeeds == Inv /\ [Next]_vars => [Feeds!FeedNext]_(Feeds!feedVars)
<1> SUFFICES ASSUME Inv, [Next]_vars PROVE [Feeds!FeedNext]_(Feeds!feedVars)
  OBVIOUS
<1> DEFINE feeds == {[socket |-> s, id |-> socket[s].id] : s \in Live}
<1>1. ASSUME NEW i \in Ids \cup {NoId}, Mount(i) \/ Choose(i)
      PROVE  [Feeds!FeedNext]_(Feeds!feedVars)
  BY <1>1, FollowFeeds DEF Mount, Choose
<1>2. CASE Unmount
  <2>1. \A s \in Sockets : s = ref => socket'[s].state = "closed"
    BY <1>2 DEF Inv, TypeOK, SocketState, Unmount
  <2>2. \A s \in Sockets : s # ref => socket'[s].state \notin {"connecting", "open"}
    BY <1>2 DEF Inv, TypeOK, SocketState, Owned, Live, Unmount
  <2>3. Live' = {}
    BY <2>1, <2>2 DEF Live
  <2>4. feeds' = {}
    BY <2>3
  <2> QED
    BY <1>2, <2>4 DEF Unmount, Feeds!Hide, Feeds!FeedNext
<1>3. ASSUME NEW s \in Sockets, Opened(s)
      PROVE  [Feeds!FeedNext]_(Feeds!feedVars)
  <2>1. /\ \A t \in Sockets : socket'[t].id = socket[t].id
        /\ \A t \in Sockets : socket'[t].state \in {"connecting", "open"}
                              <=> socket[t].state \in {"connecting", "open"}
    BY <1>3 DEF Inv, TypeOK, SocketState, Opened
  <2>2. Live' = Live
    BY <2>1 DEF Live
  <2>3. feeds' = feeds
    BY <2>1, <2>2 DEF Live
  <2> QED
    BY <1>3, <2>3 DEF Opened, Feeds!feedVars
<1>4. ASSUME NEW s \in Sockets, (\E time \in 1..MaxTime : Data(s, time)) \/ ServerError(s)
      PROVE  [Feeds!FeedNext]_(Feeds!feedVars)
  <2>1. UNCHANGED <<target, socket>>
    BY <1>4 DEF Data, ServerError
  <2>2. feeds' = feeds
    BY <2>1 DEF Live
  <2> QED
    BY <2>1, <2>2 DEF Feeds!feedVars
<1>5. ASSUME NEW s \in Sockets, NEW clean \in BOOLEAN, Closed(s, clean)
      PROVE  [Feeds!FeedNext]_(Feeds!feedVars)
  <2>1. /\ target' = target /\ socket'[s].state = "closed"
        /\ \A t \in Sockets : t # s => socket'[t] = socket[t]
    BY <1>5 DEF Inv, TypeOK, SocketState, Closed
  <2>2. CASE s \in Live
    <3>1. Live' = {}
      BY <2>1, <2>2 DEF Inv, Owned, Live
    <3>2. feeds' = {}
      BY <3>1
    <3> QED
      BY <2>1, <3>2 DEF Feeds!Lose, Feeds!FeedNext
  <2>3. CASE s \notin Live
    <3>1. Live' = Live
      BY <2>1, <2>3 DEF Live
    <3>2. \A t \in Live : socket'[t].id = socket[t].id
      BY <2>1, <2>3 DEF Live
    <3>3. feeds' = feeds
      BY <3>1, <3>2
    <3> QED
      BY <2>1, <3>3 DEF Feeds!feedVars
  <2> QED
    BY <2>2, <2>3
<1>6. CASE UNCHANGED vars
  <2>1. feeds' = feeds /\ target' = target
    BY <1>6 DEF vars, Live
  <2> QED
    BY <2>1 DEF Feeds!feedVars
<1> QED
  BY <1>1, <1>2, <1>3, <1>4, <1>5, <1>6 DEF Next, SocketEvent

\* The hook implements MonitorFeed: whatever happens to its sockets, a panel has at
\* most one feed, begun when it gets an object and ended when it loses it.
THEOREM KeepsItsFeed == Spec => KeepsFeed
<1>1. Init => Feeds!FeedInit
  BY DEF Init, Feeds!FeedInit, Live
<1> QED
  BY <1>1, StepFeeds, Invariance, PTL DEF Spec, KeepsFeed, Feeds!FeedSpec
=============================================================================
