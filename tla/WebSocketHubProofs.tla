------------------------- MODULE WebSocketHubProofs -------------------------
(***************************************************************************)
(* Proofs about the hub of WebSocketHub, for any topics, clients and       *)
(* channel sizes.                                                          *)
(*                                                                         *)
(* MembersOpen depends on the order in which a client passes through the   *)
(* channels: it is put into the register channel once, and its Send is     *)
(* closed only after it has been taken out again.  Fresh states this for   *)
(* the clients that are not in the channel yet and Waiting for those that  *)
(* are; Filed says that a client is registered under its own topic.        *)
(***************************************************************************)
EXTENDS WebSocketHub, TLAPS

Waits(c) == \E k \in DOMAIN register : register[k] = c

\* The handler of the client has not sent it to the hub yet.
Fresh ==
    \A c \in Clients : client[c].handler \in {"none", "register"} =>
        /\ client[c].sendOpen
        /\ ~Waits(c)
        /\ \A t \in Topics : c \notin members[t]

\* A client in the register channel is there once and not registered.
Waiting ==
    /\ \A j, k \in DOMAIN register : register[j] = register[k] => j = k
    /\ \A k \in DOMAIN register :
        /\ client[register[k]].sendOpen
        /\ \A t \in Topics : register[k] \notin members[t]

Filed == \A t \in Topics : \A c \in members[t] : client[c].topic = t

Inv == TypeOK /\ Fresh /\ Waiting /\ Filed /\ MembersOpen /\ NotForgotten

-----------------------------------------------------------------------------
(* Queues                                                                  *)

\* The elements of a queue after a send.
LEMMA Sent ==
    ASSUME NEW S, NEW s \in Seq(S), NEW x \in S
    PROVE  /\ Append(s, x) \in Seq(S)
           /\ Len(Append(s, x)) = Len(s) + 1
           /\ DOMAIN Append(s, x) = DOMAIN s \cup {Len(s) + 1}
           /\ \A k \in DOMAIN s : Append(s, x)[k] = s[k]
           /\ Append(s, x)[Len(s) + 1] = x
           /\ Len(s) + 1 \notin DOMAIN s
  OBVIOUS

\* The elements of a queue after a receive.
LEMMA Received ==
    ASSUME NEW S, NEW s \in Seq(S), s # <<>>
    PROVE  /\ Tail(s) \in Seq(S)
           /\ Len(Tail(s)) = Len(s) - 1
           /\ Head(s) = s[1] /\ Head(s) \in S /\ 1 \in DOMAIN s
           /\ \A k \in DOMAIN Tail(s) : Tail(s)[k] = s[k + 1] /\ k + 1 \in DOMAIN s
           /\ \A k \in DOMAIN s : k # 1 => k - 1 \in DOMAIN Tail(s)
  OBVIOUS

-----------------------------------------------------------------------------
(* The invariant                                                           *)

\* It holds before the first connection.
LEMMA InitInv == Init => Inv
<1> SUFFICES ASSUME Init PROVE Inv
  OBVIOUS
<1>1. \A c \in Clients : client[c] \in ClientState /\ client[c].handler = "none"
                         /\ client[c].sendOpen
  <2> SUFFICES ASSUME NEW c \in Clients
               PROVE  /\ client[c] \in ClientState /\ client[c].handler = "none"
                      /\ client[c].sendOpen
    OBVIOUS
  <2>1. PICK t \in Topics :
          client[c] = [topic |-> t, handler |-> "none", writing |-> FALSE,
                       open |-> TRUE, queued |-> 0, sendOpen |-> TRUE]
    BY DEF Init
  <2>2. 0 \in 0..SendSize
    BY SizesAssumption
  <2> QED
    BY <2>1, <2>2 DEF ClientState
<1>2. client \in [Clients -> ClientState]
  BY <1>1 DEF Init
<1>3. register \in Seq(Clients) /\ unregister \in Seq(Clients)
      /\ Len(register) <= QueueSize /\ Len(unregister) <= QueueSize
      /\ DOMAIN register = {}
  BY SizesAssumption DEF Init
<1>4. broadcast \in [Kinds -> Seq(Topics)]
      /\ \A k \in Kinds : Len(broadcast[k]) <= QueueSize
  BY SizesAssumption DEF Init
<1>5. members \in [Topics -> SUBSET Clients] /\ \A t \in Topics : members[t] = {}
  BY DEF Init
<1>6. TypeOK
  BY <1>2, <1>3, <1>4, <1>5 DEF Init, TypeOK, HubState, CheckerState, Kinds
<1>7. Fresh /\ Waiting /\ Filed /\ MembersOpen /\ NotForgotten
  BY <1>1, <1>3, <1>5 DEF Fresh, Waits, Waiting, Filed, MembersOpen, NotForgotten
<1> QED
  BY <1>6, <1>7 DEF Inv

\* A step that leaves members and register alone, and of a client at most where its
\* handler is, without sending it to the hub.
LEMMA Aside ==
    ASSUME Inv, TypeOK', UNCHANGED <<members, register>>,
           \A c \in Clients :
            /\ client'[c].topic = client[c].topic
            /\ client'[c].sendOpen = client[c].sendOpen
            /\ client'[c].handler \in {"none", "register"} =>
                    client[c].handler \in {"none", "register"}
            /\ client'[c].handler \in {"ensure", "reading"} =>
                    client[c].handler \in {"ensure", "reading"}
    PROVE  Inv'
<1>1. register \in Seq(Clients) /\ members \in [Topics -> SUBSET Clients]
  BY DEF Inv, TypeOK
<1>2. Fresh'
  BY DEF Inv, Fresh, Waits
<1>3. Waiting'
  BY <1>1 DEF Inv, Waiting
<1>4. Filed' /\ MembersOpen'
  BY <1>1 DEF Inv, Filed, MembersOpen
<1>5. NotForgotten'
  BY DEF Inv, NotForgotten
<1> QED
  BY <1>2, <1>3, <1>4, <1>5 DEF Inv

-----------------------------------------------------------------------------
(* Handlers and pumps                                                      *)

\* A field of one client changes.
LEMMA ClientTypes ==
    ASSUME TypeOK, NEW c \in Clients, NEW r \in ClientState
    PROVE  [client EXCEPT ![c] = r] \in [Clients -> ClientState]
  BY DEF TypeOK

\* The handler of a client moves on without the hub.
LEMMA HandlerInv ==
    ASSUME Inv, NEW c \in Clients,
           Connect(c) \/ HandlerEnsure(c) \/ Read(c)
    PROVE  Inv'
<1>1. UNCHANGED <<members, register, broadcast, hub, done, checker>>
  BY DEF Connect, HandlerEnsure, Read, ReadFails, ReadUnregister, channels, service
<1>2. /\ client \in [Clients -> ClientState] /\ client[c] \in ClientState
      /\ client[c].topic \in Topics
  BY DEF Inv, TypeOK, ClientState
<1>3. \E r \in ClientState :
        /\ client' = [client EXCEPT ![c] = r]
        /\ r.topic = client[c].topic /\ r.sendOpen = client[c].sendOpen
        /\ \/ client[c].handler = "none" /\ r.handler = "register"
           \/ client[c].handler = "ensure" /\ r.handler = "reading"
           \/ r.handler \in {"unregister", "gone"}
  <2>1. CASE Connect(c)
    <3>1. [client[c] EXCEPT !.handler = "register"] \in ClientState
      BY <1>2 DEF ClientState
    <3> QED
      BY <1>2, <2>1, <3>1 DEF Connect, Handler, ClientState
  <2>2. CASE HandlerEnsure(c)
    <3> DEFINE r == [client[c] EXCEPT !.handler = "reading", !.writing = TRUE]
    <3>1. r \in ClientState
      BY <1>2 DEF ClientState
    <3>2. client' = [client EXCEPT ![c] = r]
      BY <1>2, <2>2 DEF HandlerEnsure, ClientState
    <3>3. /\ r.topic = client[c].topic /\ r.sendOpen = client[c].sendOpen
          /\ r.handler = "reading" /\ client[c].handler = "ensure"
      BY <1>2, <2>2 DEF HandlerEnsure, ClientState
    <3> QED
      BY <3>1, <3>2, <3>3
  <2>3. CASE ReadFails(c)
    <3>1. [client[c] EXCEPT !.handler = "unregister"] \in ClientState
      BY <1>2 DEF ClientState
    <3> QED
      BY <1>2, <2>3, <3>1 DEF ReadFails, Handler, ClientState
  <2>4. CASE ReadUnregister(c)
    <3> DEFINE r == [client[c] EXCEPT !.handler = "gone", !.open = FALSE]
    <3>1. r \in ClientState
      BY <1>2 DEF ClientState
    <3>2. client' = [client EXCEPT ![c] = r]
      BY <1>2, <2>4 DEF ReadUnregister, ClientState
    <3>3. r.topic = client[c].topic /\ r.sendOpen = client[c].sendOpen
          /\ r.handler = "gone"
      BY <1>2 DEF ClientState
    <3> QED
      BY <3>1, <3>2, <3>3
  <2> QED
    BY <2>1, <2>2, <2>3, <2>4 DEF Read
<1>4. client' \in [Clients -> ClientState]
  BY <1>3, ClientTypes DEF Inv
<1>5. monitors' \subseteq Topics /\ queries' \subseteq Topics
  BY <1>2 DEF Connect, HandlerEnsure, Read, ReadFails, ReadUnregister, channels,
       service, Inv, TypeOK
<1>6. unregister' \in Seq(Clients) /\ Len(unregister') <= QueueSize
  <2>1. CASE ReadUnregister(c)
    <3>1. unregister' = Append(unregister, c) /\ Len(unregister) < QueueSize
      BY <2>1 DEF ReadUnregister
    <3>2. unregister \in Seq(Clients)
      BY DEF Inv, TypeOK
    <3> QED
      BY <3>1, <3>2, Sent, SizesAssumption
  <2>2. CASE ~ReadUnregister(c)
    BY <2>2 DEF Connect, HandlerEnsure, Read, ReadFails, channels, service, Inv, TypeOK
  <2> QED
    BY <2>1, <2>2
<1>7. TypeOK'
  BY <1>1, <1>4, <1>5, <1>6 DEF Inv, TypeOK
<1>8. \A d \in Clients :
        /\ client'[d].topic = client[d].topic
        /\ client'[d].sendOpen = client[d].sendOpen
        /\ client'[d].handler \in {"none", "register"} =>
                client[d].handler \in {"none", "register"}
        /\ client'[d].handler \in {"ensure", "reading"} =>
                client[d].handler \in {"ensure", "reading"}
  BY <1>2, <1>3
<1> QED
  BY <1>1, <1>7, <1>8, Aside

\* A pump writes, or the connection ends: the handler stays where it is.
LEMMA PumpInv ==
    ASSUME Inv, NEW c \in Clients,
           ConnectionLost(c) \/ WriteMessages(c) \/ WriteEnds(c)
    PROVE  Inv'
<1>1. UNCHANGED <<members, channels, hub, done, service>>
  BY DEF ConnectionLost, WriteMessages, WriteEnds
<1>2. /\ client \in [Clients -> ClientState] /\ client[c] \in ClientState
      /\ 0 \in 0..SendSize
  BY SizesAssumption DEF Inv, TypeOK
<1>3. \E r \in ClientState :
        /\ client' = [client EXCEPT ![c] = r]
        /\ r.topic = client[c].topic /\ r.sendOpen = client[c].sendOpen
        /\ r.handler = client[c].handler
  <2>1. CASE ConnectionLost(c)
    <3>1. [client[c] EXCEPT !.open = FALSE] \in ClientState
      BY <1>2 DEF ClientState
    <3> QED
      BY <1>2, <2>1, <3>1 DEF ConnectionLost, ClientState
  <2>2. CASE WriteMessages(c)
    <3>1. [client[c] EXCEPT !.queued = 0] \in ClientState
      BY <1>2 DEF ClientState
    <3> QED
      BY <1>2, <2>2, <3>1 DEF WriteMessages, ClientState
  <2>3. CASE WriteEnds(c)
    <3> DEFINE r == [client[c] EXCEPT !.writing = FALSE, !.open = FALSE]
    <3>1. r \in ClientState
      BY <1>2 DEF ClientState
    <3>2. client' = [client EXCEPT ![c] = r]
      BY <1>2, <2>3 DEF WriteEnds, ClientState
    <3>3. r.topic = client[c].topic /\ r.sendOpen = client[c].sendOpen
          /\ r.handler = client[c].handler
      BY <1>2 DEF ClientState
    <3> QED
      BY <3>1, <3>2, <3>3
  <2> QED
    BY <2>1, <2>2, <2>3
<1>4. client' \in [Clients -> ClientState]
  BY <1>3, ClientTypes DEF Inv
<1>5. TypeOK'
  BY <1>1, <1>4 DEF channels, service, Inv, TypeOK
<1>6. \A d \in Clients :
        /\ client'[d].topic = client[d].topic
        /\ client'[d].sendOpen = client[d].sendOpen
        /\ client'[d].handler = client[d].handler
  BY <1>2, <1>3
<1> QED
  BY <1>1, <1>5, <1>6, Aside DEF channels

\* hub.register <- client: a client that was fresh now waits.
LEMMA HandlerRegisterInv ==
    ASSUME Inv, NEW c \in Clients, HandlerRegister(c)
    PROVE  Inv'
<1>1. /\ UNCHANGED <<members, unregister, broadcast, hub, done, monitors, queries, checker>>
      /\ client[c].handler = "register" /\ Len(register) < QueueSize
      /\ register' = Append(register, c)
      /\ client' = [client EXCEPT ![c].handler = "ensure"]
  BY DEF HandlerRegister, Handler, service
<1>2. /\ client \in [Clients -> ClientState] /\ client[c] \in ClientState
      /\ register \in Seq(Clients) /\ members \in [Topics -> SUBSET Clients]
  BY DEF Inv, TypeOK
<1> DEFINE r == [client[c] EXCEPT !.handler = "ensure"]
<1>3. /\ r \in ClientState /\ client' = [client EXCEPT ![c] = r]
      /\ r.topic = client[c].topic /\ r.sendOpen = client[c].sendOpen
      /\ r.handler = "ensure"
  BY <1>1, <1>2 DEF ClientState
<1> HIDE DEF r
<1>4. /\ client' \in [Clients -> ClientState]
      /\ client'[c] = r /\ \A d \in Clients : d # c => client'[d] = client[d]
  BY <1>2, <1>3, ClientTypes DEF Inv
<1>5. /\ register' \in Seq(Clients) /\ Len(register') = Len(register) + 1
      /\ DOMAIN register' = DOMAIN register \cup {Len(register) + 1}
      /\ \A k \in DOMAIN register : register'[k] = register[k]
      /\ register'[Len(register) + 1] = c
      /\ Len(register) + 1 \notin DOMAIN register
  BY <1>1, <1>2, Sent
<1>6. TypeOK'
  <2>1. Len(register') <= QueueSize
    BY <1>1, <1>2, <1>5, SizesAssumption
  <2> QED
    BY <1>1, <1>4, <1>5, <2>1 DEF Inv, TypeOK
<1>7. client[c].sendOpen /\ ~Waits(c) /\ \A t \in Topics : c \notin members[t]
  BY <1>1 DEF Inv, Fresh
<1>8. \A d \in Clients : client'[d].topic = client[d].topic
                         /\ client'[d].sendOpen = client[d].sendOpen
  BY <1>3, <1>4
<1>9. Fresh'
  <2> SUFFICES ASSUME NEW d \in Clients, client'[d].handler \in {"none", "register"}
               PROVE  /\ client'[d].sendOpen /\ ~Waits(d)'
                      /\ \A t \in Topics : d \notin members'[t]
    BY DEF Fresh
  <2>1. d # c /\ client'[d] = client[d]
    BY <1>3, <1>4
  <2>2. ~Waits(d) /\ client[d].sendOpen /\ \A t \in Topics : d \notin members[t]
    BY <2>1 DEF Inv, Fresh
  <2>3. ~Waits(d)'
    BY <1>5, <2>1, <2>2 DEF Waits
  <2> QED
    BY <1>1, <2>1, <2>2, <2>3
<1>10. Waiting'
  <2>1. \A j, k \in DOMAIN register' : register'[j] = register'[k] => j = k
    BY <1>5, <1>7 DEF Inv, Waiting, Waits
  <2>2. \A k \in DOMAIN register' : /\ client'[register'[k]].sendOpen
                                    /\ \A t \in Topics : register'[k] \notin members'[t]
    <3> SUFFICES ASSUME NEW k \in DOMAIN register'
                 PROVE  /\ client'[register'[k]].sendOpen
                        /\ \A t \in Topics : register'[k] \notin members'[t]
      OBVIOUS
    <3>1. CASE k = Len(register) + 1
      BY <1>1, <1>5, <1>7, <1>8, <3>1
    <3>2. CASE k \in DOMAIN register
      <4>1. register[k] \in Clients
        BY <1>2, <3>2
      <4> QED
        BY <1>1, <1>5, <1>8, <3>2, <4>1 DEF Inv, Waiting
    <3> QED
      BY <1>5, <3>1, <3>2
  <2> QED
    BY <2>1, <2>2 DEF Waiting
<1>11. Filed' /\ MembersOpen'
  BY <1>1, <1>2, <1>8 DEF Inv, Filed, MembersOpen
<1>12. NotForgotten'
  <2> SUFFICES ASSUME NEW d \in Clients, client'[d].handler \in {"ensure", "reading"}
               PROVE  \/ \E k \in DOMAIN register' : register'[k] = d
                      \/ d \in members'[client'[d].topic]
                      \/ ~client'[d].sendOpen
    BY DEF NotForgotten
  <2>1. CASE d = c
    BY <1>5, <2>1
  <2>2. CASE d # c
    BY <1>1, <1>4, <1>5, <2>2 DEF Inv, NotForgotten
  <2> QED
    BY <2>1, <2>2
<1> QED
  BY <1>6, <1>9, <1>10, <1>11, <1>12 DEF Inv

-----------------------------------------------------------------------------
(* Hub.Run                                                                 *)

\* A client that waited becomes a member of its topic.
LEMMA HubRegisterInv == ASSUME Inv, HubRegister PROVE Inv'
<1> DEFINE c == Head(register)
<1>1. /\ UNCHANGED <<unregister, broadcast, hub, done, client, monitors, queries, checker>>
      /\ register # <<>> /\ register' = Tail(register)
      /\ members' = [members EXCEPT ![client[c].topic] = @ \cup {c}]
  BY DEF HubRegister, service
<1>2. /\ client \in [Clients -> ClientState] /\ register \in Seq(Clients)
      /\ members \in [Topics -> SUBSET Clients]
  BY DEF Inv, TypeOK
<1>3. /\ register' \in Seq(Clients) /\ Len(register') = Len(register) - 1
      /\ c = register[1] /\ c \in Clients /\ 1 \in DOMAIN register
      /\ \A k \in DOMAIN register' : register'[k] = register[k + 1]
                                     /\ k + 1 \in DOMAIN register
      /\ \A k \in DOMAIN register : k # 1 => k - 1 \in DOMAIN register'
  BY <1>1, <1>2, Received
<1> HIDE DEF c
<1>4. client[c].topic \in Topics
  BY <1>2, <1>3 DEF ClientState
<1>5. \A t \in Topics : members'[t] = IF t = client[c].topic THEN members[t] \cup {c}
                                      ELSE members[t]
  BY <1>1, <1>2
<1>6. /\ client[c].sendOpen /\ \A t \in Topics : c \notin members[t]
      /\ \A k \in DOMAIN register : register[k] = c => k = 1
      /\ client[c].handler \notin {"none", "register"}
  BY <1>3 DEF Inv, Waiting, Fresh, Waits
<1>7. DOMAIN register = 1..Len(register) /\ DOMAIN register' = 1..Len(register')
      /\ Len(register) \in Nat
  BY <1>2, <1>3
<1>8. TypeOK'
  <2>1. members' \in [Topics -> SUBSET Clients]
    BY <1>1, <1>2, <1>3
  <2>2. Len(register') <= QueueSize
    BY <1>3, <1>7, SizesAssumption DEF Inv, TypeOK
  <2> QED
    BY <1>1, <1>3, <2>1, <2>2 DEF Inv, TypeOK
<1>9. \A d \in Clients : Waits(d)' => Waits(d) /\ d # c
  <2> SUFFICES ASSUME NEW d \in Clients, NEW k \in DOMAIN register', register'[k] = d
               PROVE  Waits(d) /\ d # c
    BY DEF Waits
  <2>1. register[k + 1] = d /\ k + 1 \in DOMAIN register /\ k + 1 # 1
    BY <1>3, <1>7
  <2> QED
    BY <1>6, <2>1 DEF Waits
<1>10. Fresh'
  BY <1>1, <1>5, <1>6, <1>9 DEF Inv, Fresh
<1>11. Waiting'
  <2>1. ASSUME NEW j \in DOMAIN register', NEW k \in DOMAIN register',
               register'[j] = register'[k]
        PROVE  j = k
    <3>1. j + 1 = k + 1
      BY <1>3, <2>1 DEF Inv, Waiting
    <3> QED
      BY <1>7, <3>1
  <2>2. ASSUME NEW k \in DOMAIN register'
        PROVE  /\ client'[register'[k]].sendOpen
               /\ \A t \in Topics : register'[k] \notin members'[t]
    <3>1. register'[k] = register[k + 1] /\ k + 1 \in DOMAIN register /\ k + 1 # 1
      BY <1>3, <1>7
    <3>2. register[k + 1] # c
      BY <1>6, <3>1
    <3> QED
      BY <1>1, <1>5, <3>1, <3>2 DEF Inv, Waiting
  <2> QED
    BY <2>1, <2>2 DEF Waiting
<1>12. Filed' /\ MembersOpen'
  BY <1>1, <1>5, <1>6 DEF Inv, Filed, MembersOpen
<1>13. NotForgotten'
  <2> SUFFICES ASSUME NEW d \in Clients, client[d].handler \in {"ensure", "reading"},
                      client[d].sendOpen
               PROVE  Waits(d)' \/ d \in members'[client[d].topic]
    BY <1>1 DEF NotForgotten, Waits
  <2>1. client[d].topic \in Topics
    BY <1>2 DEF ClientState
  <2>2. CASE d = c
    BY <1>4, <1>5, <2>2
  <2>3. CASE d # c /\ d \in members[client[d].topic]
    BY <1>5, <2>1, <2>3
  <2>4. CASE d # c /\ Waits(d)
    <3>1. PICK k \in DOMAIN register : register[k] = d
      BY <2>4 DEF Waits
    <3>2. k # 1 /\ k \in Nat
      BY <1>3, <1>7, <2>4, <3>1
    <3>3. k - 1 \in DOMAIN register' /\ (k - 1) + 1 = k
      BY <1>3, <3>2
    <3> QED
      BY <1>3, <3>1, <3>3 DEF Waits
  <2> QED
    BY <2>2, <2>3, <2>4 DEF Inv, NotForgotten, Waits
<1> QED
  BY <1>8, <1>10, <1>11, <1>12, <1>13 DEF Inv

\* A member is dropped and its Send closed; a client that is no member is left
\* alone, so nothing that still waits is closed.
LEMMA HubUnregisterInv == ASSUME Inv, HubUnregister PROVE Inv'
<1> DEFINE c == Head(unregister)
<1>1. /\ UNCHANGED <<register, broadcast, hub, done, monitors, queries, checker>>
      /\ unregister # <<>> /\ unregister' = Tail(unregister)
      /\ \/ /\ c \in members[client[c].topic]
            /\ members' = [members EXCEPT ![client[c].topic] = @ \ {c}]
            /\ client' = [client EXCEPT ![c].sendOpen = FALSE]
         \/ UNCHANGED <<members, client>>
  BY DEF HubUnregister, service
<1>2. /\ client \in [Clients -> ClientState] /\ register \in Seq(Clients)
      /\ members \in [Topics -> SUBSET Clients] /\ unregister \in Seq(Clients)
  BY DEF Inv, TypeOK
<1>3. /\ unregister' \in Seq(Clients) /\ Len(unregister') = Len(unregister) - 1
      /\ c \in Clients
  BY <1>1, <1>2, Received
<1>4. Len(unregister') <= QueueSize
  BY <1>2, <1>3, SizesAssumption DEF Inv, TypeOK
<1> HIDE DEF c
<1>5. CASE UNCHANGED <<members, client>>
  <2>1. TypeOK'
    BY <1>1, <1>3, <1>4, <1>5 DEF Inv, TypeOK
  <2> QED
    BY <1>1, <1>5, <2>1, Aside
<1>6. CASE /\ c \in members[client[c].topic]
           /\ members' = [members EXCEPT ![client[c].topic] = @ \ {c}]
           /\ client' = [client EXCEPT ![c].sendOpen = FALSE]
  <2> DEFINE r == [client[c] EXCEPT !.sendOpen = FALSE]
  <2>1. /\ r \in ClientState /\ client' = [client EXCEPT ![c] = r]
        /\ r.topic = client[c].topic /\ r.handler = client[c].handler
        /\ client[c].topic \in Topics
    BY <1>2, <1>3, <1>6 DEF ClientState
  <2> HIDE DEF r
  <2>2. /\ client' \in [Clients -> ClientState]
        /\ client'[c] = r /\ \A d \in Clients : d # c => client'[d] = client[d]
    BY <1>2, <1>3, <2>1, ClientTypes DEF Inv
  <2>3. \A t \in Topics : members'[t] = IF t = client[c].topic THEN members[t] \ {c}
                                        ELSE members[t]
    BY <1>2, <1>6
  <2>4. \A t \in Topics : c \notin members'[t]
    BY <2>3 DEF Inv, Filed
  <2>5. client[c].handler \notin {"none", "register"} /\ ~Waits(c)
    BY <1>3, <1>6, <2>1 DEF Inv, Fresh, Waiting, Waits
  <2>6. TypeOK'
    <3>1. members' \in [Topics -> SUBSET Clients]
      BY <1>2, <1>6
    <3> QED
      BY <1>1, <1>3, <1>4, <2>2, <3>1 DEF Inv, TypeOK
  <2>7. Fresh'
    BY <1>1, <2>1, <2>2, <2>3, <2>5 DEF Inv, Fresh, Waits
  <2>8. Waiting'
    <3>1. \A k \in DOMAIN register : register[k] \in Clients /\ register[k] # c
      BY <1>2, <2>5 DEF Waits
    <3> QED
      BY <1>1, <2>2, <2>3, <3>1 DEF Inv, Waiting
  <2>9. Filed' /\ MembersOpen'
    <3> SUFFICES ASSUME NEW t \in Topics, NEW d \in members'[t]
                 PROVE  client'[d].topic = t /\ client'[d].sendOpen
      BY DEF Filed, MembersOpen
    <3>1. d \in members[t] /\ d \in Clients /\ d # c
      BY <1>2, <2>3, <2>4
    <3> QED
      BY <2>2, <3>1 DEF Inv, Filed, MembersOpen
  <2>10. NotForgotten'
    <3> SUFFICES ASSUME NEW d \in Clients, client'[d].handler \in {"ensure", "reading"},
                        client'[d].sendOpen
                 PROVE  Waits(d)' \/ d \in members'[client'[d].topic]
      BY DEF NotForgotten, Waits
    <3>1. CASE d = c
      <4>1. ~r.sendOpen
        BY <1>2, <1>3 DEF r, ClientState
      <4> QED
        BY <2>2, <3>1, <4>1
    <3>2. CASE d # c
      <4>1. client'[d] = client[d] /\ client[d].topic \in Topics
        BY <1>2, <2>2, <3>2 DEF ClientState
      <4>2. Waits(d) \/ d \in members[client[d].topic]
        BY <4>1 DEF Inv, NotForgotten, Waits
      <4> QED
        BY <1>1, <2>3, <3>2, <4>1, <4>2 DEF Waits
    <3> QED
      BY <3>1, <3>2
  <2> QED
    BY <2>6, <2>7, <2>8, <2>9, <2>10 DEF Inv
<1> QED
  BY <1>1, <1>5, <1>6

\* The start of a broadcast, and the end of the hub.
LEMMA HubTurnsInv ==
    ASSUME Inv, HubStops \/ \E k \in Kinds : HubBroadcast(k)
    PROVE  Inv'
<1>1. UNCHANGED <<members, register, unregister, client, done, monitors, queries, checker>>
  BY DEF HubStops, HubBroadcast, channels, service
<1>2. /\ members \in [Topics -> SUBSET Clients] /\ broadcast \in [Kinds -> Seq(Topics)]
      /\ hub \in HubState
  BY DEF Inv, TypeOK
<1>3. CASE HubStops
  <2>1. hub' \in HubState /\ broadcast' = broadcast
    BY <1>2, <1>3 DEF HubStops, HubState, channels
  <2> QED
    BY <1>1, <2>1, Aside DEF Inv, TypeOK
<1>4. ASSUME NEW k \in Kinds, HubBroadcast(k) PROVE Inv'
  <2>1. /\ broadcast[k] \in Seq(Topics) /\ broadcast[k] # <<>>
        /\ broadcast' = [broadcast EXCEPT ![k] = Tail(broadcast[k])]
        /\ hub' = [pc |-> "broadcasting", todo |-> members[Head(broadcast[k])]]
    BY <1>2, <1>4 DEF HubBroadcast
  <2>2. /\ Tail(broadcast[k]) \in Seq(Topics)
        /\ Len(Tail(broadcast[k])) = Len(broadcast[k]) - 1
        /\ Head(broadcast[k]) \in Topics
    BY <2>1, Received
  <2>3. hub' \in HubState
    BY <1>2, <2>1, <2>2 DEF HubState
  <2>4. Len(Tail(broadcast[k])) <= QueueSize
    BY <1>2, <2>1, <2>2, SizesAssumption DEF Inv, TypeOK
  <2>5. broadcast' \in [Kinds -> Seq(Topics)]
        /\ \A j \in Kinds : Len(broadcast'[j]) <= QueueSize
    BY <1>2, <2>1, <2>2, <2>4 DEF Inv, TypeOK
  <2>6. TypeOK'
    BY <1>1, <2>3, <2>5 DEF Inv, TypeOK
  <2> QED
    BY <1>1, <2>6, Aside
<1> QED
  BY <1>3, <1>4

\* One round of the loop of a broadcast.
LEMMA HubSendInv == ASSUME Inv, HubSend PROVE Inv'
<1>1. UNCHANGED <<members, register, broadcast, done, monitors, queries, checker>>
  BY DEF HubSend, service
<1>2. /\ client \in [Clients -> ClientState] /\ unregister \in Seq(Clients)
      /\ hub \in HubState /\ Len(unregister) <= QueueSize
  BY DEF Inv, TypeOK
<1>3. CASE hub' = [hub EXCEPT !.pc = "select"] /\ UNCHANGED <<unregister, client>>
  <2>1. hub' \in HubState
    BY <1>2, <1>3 DEF HubState
  <2>2. TypeOK'
    BY <1>1, <1>3, <2>1 DEF Inv, TypeOK
  <2> QED
    BY <1>1, <1>3, <2>2, Aside
<1>4. ASSUME NEW c \in hub.todo, hub' = [hub EXCEPT !.todo = @ \ {c}],
             client[c].queued < SendSize, UNCHANGED unregister,
             client' = [client EXCEPT ![c].queued = @ + 1]
      PROVE  Inv'
  <2>1. c \in Clients /\ hub' \in HubState
    BY <1>2, <1>4 DEF HubState
  <2> DEFINE r == [client[c] EXCEPT !.queued = @ + 1]
  <2>2. client[c] \in ClientState /\ client[c].queued + 1 \in 0..SendSize
    BY <1>2, <1>4, <2>1, SizesAssumption DEF ClientState
  <2>3. /\ r \in ClientState /\ r.topic = client[c].topic
        /\ r.sendOpen = client[c].sendOpen /\ r.handler = client[c].handler
    BY <2>2 DEF ClientState
  <2>4. client' = [client EXCEPT ![c] = r]
    BY <1>2, <1>4, <2>1 DEF ClientState
  <2> HIDE DEF r
  <2>5. client' \in [Clients -> ClientState]
    BY <2>1, <2>3, <2>4, ClientTypes DEF Inv
  <2>6. TypeOK'
    BY <1>1, <1>4, <2>1, <2>5 DEF Inv, TypeOK
  <2>7. \A d \in Clients : /\ client'[d].topic = client[d].topic
                           /\ client'[d].sendOpen = client[d].sendOpen
                           /\ client'[d].handler = client[d].handler
    BY <1>2, <2>3, <2>4
  <2> QED
    BY <1>1, <2>6, <2>7, Aside
<1>5. ASSUME NEW c \in hub.todo, hub' = [hub EXCEPT !.todo = @ \ {c}],
             Len(unregister) < QueueSize, UNCHANGED client,
             unregister' = Append(unregister, c)
      PROVE  Inv'
  <2>1. c \in Clients /\ hub' \in HubState
    BY <1>2, <1>5 DEF HubState
  <2>2. unregister' \in Seq(Clients) /\ Len(unregister') = Len(unregister) + 1
    BY <1>2, <1>5, <2>1, Sent
  <2>3. Len(unregister') <= QueueSize
    BY <1>2, <1>5, <2>2, SizesAssumption
  <2>4. TypeOK'
    BY <1>1, <1>5, <2>1, <2>2, <2>3 DEF Inv, TypeOK
  <2> QED
    BY <1>1, <1>5, <2>4, Aside
<1> QED
  BY <1>3, <1>4, <1>5 DEF HubSend

-----------------------------------------------------------------------------
(* Monitors                                                                *)

\* The workers, their checker and Stop touch neither members nor clients.
LEMMA MonitorInv ==
    ASSUME Inv, \/ CheckConnected \/ CheckUpdate \/ Stop
                \/ \E t \in Topics : QueryStart(t) \/ QueryEnds(t)
    PROVE  Inv'
<1>1. UNCHANGED <<members, register, unregister, hub, client>>
  BY DEF CheckConnected, CheckUpdate, Stop, QueryStart, QueryEnds, channels
<1>2. /\ broadcast \in [Kinds -> Seq(Topics)] /\ checker \in CheckerState
      /\ monitors \subseteq Topics /\ queries \subseteq Topics /\ done \in BOOLEAN
      /\ \A k \in Kinds : Len(broadcast[k]) <= QueueSize
  BY DEF Inv, TypeOK
<1>3. checker' \in CheckerState
  <2>1. CASE CheckConnected
    <3> DEFINE on == {t \in TopicsOf(checker.kind) : members[t] # {}}
    <3>1. on \in SUBSET Topics
      BY DEF TopicsOf
    <3>2. checker' = [checker EXCEPT !.pc = "update", !.connected = on]
      BY <2>1 DEF CheckConnected
    <3> HIDE DEF on
    <3> QED
      BY <1>2, <3>1, <3>2 DEF CheckerState
  <2>2. CASE CheckUpdate
    <3>1. \E k \in Kinds : k # checker.kind
      BY DEF Kinds
    <3>2. (CHOOSE k \in Kinds : k # checker.kind) \in Kinds
      BY <3>1
    <3> QED
      BY <2>2, <3>2 DEF CheckUpdate, NextCheck, CheckerState
  <2>3. CASE UNCHANGED checker
    BY <1>2, <2>3
  <2> QED
    BY <2>1, <2>2, <2>3 DEF Stop, QueryStart, QueryEnds
<1>4. monitors' \subseteq Topics /\ queries' \subseteq Topics /\ done' \in BOOLEAN
  <2>1. CASE CheckUpdate
    BY <1>2, <2>1 DEF CheckUpdate, CheckerState
  <2>2. CASE ~CheckUpdate
    BY <1>2, <2>2 DEF CheckConnected, Stop, QueryStart, QueryEnds
  <2> QED
    BY <2>1, <2>2
<1>5. /\ broadcast' \in [Kinds -> Seq(Topics)]
      /\ \A k \in Kinds : Len(broadcast'[k]) <= QueueSize
  <2>1. CASE UNCHANGED broadcast
    BY <1>2, <2>1
  <2>2. ASSUME NEW t \in Topics, Len(broadcast[Kind(t)]) < QueueSize,
               broadcast' = [broadcast EXCEPT ![Kind(t)] =
                                Append(broadcast[Kind(t)], t)]
        PROVE  /\ broadcast' \in [Kinds -> Seq(Topics)]
               /\ \A k \in Kinds : Len(broadcast'[k]) <= QueueSize
    <3>1. Kind(t) \in Kinds
      BY DEF Kind, Kinds
    <3>2. /\ Append(broadcast[Kind(t)], t) \in Seq(Topics)
          /\ Len(Append(broadcast[Kind(t)], t)) = Len(broadcast[Kind(t)]) + 1
          /\ Len(broadcast[Kind(t)]) \in Nat
      BY <1>2, <3>1, Sent
    <3>3. Len(Append(broadcast[Kind(t)], t)) <= QueueSize
      BY <2>2, <3>2, SizesAssumption
    <3> QED
      BY <1>2, <2>2, <3>1, <3>2, <3>3
  <2>3. ASSUME NEW t \in Topics, QueryEnds(t)
        PROVE  \/ UNCHANGED broadcast
               \/ /\ Len(broadcast[Kind(t)]) < QueueSize
                  /\ broadcast' = [broadcast EXCEPT ![Kind(t)] =
                                    Append(broadcast[Kind(t)], t)]
    <3>1. Kind(t) \in Kinds
      BY DEF Kind, Kinds
    <3> QED
      BY <1>2, <2>3, <3>1 DEF QueryEnds
  <2> QED
    BY <2>1, <2>2, <2>3 DEF CheckConnected, CheckUpdate, Stop, QueryStart, channels
<1>6. TypeOK'
  BY <1>1, <1>3, <1>4, <1>5 DEF Inv, TypeOK
<1> QED
  BY <1>1, <1>6, Aside

-----------------------------------------------------------------------------
(* The theorems                                                            *)

\* Every step keeps the invariant.
LEMMA StepInv == Inv /\ [Next]_vars => Inv'
<1> SUFFICES ASSUME Inv, [Next]_vars PROVE Inv'
  OBVIOUS
<1>1. ASSUME NEW c \in Clients, Connect(c) \/ Handle(c) \/ Pump(c) PROVE Inv'
  BY <1>1, HandlerInv, HandlerRegisterInv, PumpInv DEF Handle, Pump
<1>2. CASE Run
  BY <1>2, HubRegisterInv, HubUnregisterInv, HubTurnsInv, HubSendInv DEF Run
<1>3. CASE Check \/ Stop \/ \E t \in Topics : QueryStart(t) \/ QueryEnds(t)
  BY <1>3, MonitorInv DEF Check
<1>4. CASE UNCHANGED vars
  <2>1. TypeOK'
    BY <1>4 DEF vars, Inv, TypeOK
  <2> QED
    BY <1>4, <2>1, Aside DEF vars
<1> QED
  BY <1>1, <1>2, <1>3, <1>4 DEF Next

\* The state keeps its type: no channel of the hub and no client's queue grows
\* over its capacity.
THEOREM TypeCorrect == Spec => []TypeOK
<1>1. Inv => TypeOK
  BY DEF Inv
<1> QED
  BY <1>1, InitInv, StepInv, PTL DEF Spec

\* Hub.Run never sends on a closed Send: a registered client is open, however often
\* and in whatever order it was put into the channels.
THEOREM MembersOpenAlways == Spec => []MembersOpen
<1>1. Inv => MembersOpen
  BY DEF Inv
<1> QED
  BY <1>1, InitInv, StepInv, PTL DEF Spec

\* A client that is being read waits to be registered, is registered, or was told
\* to close.
THEOREM NotForgottenAlways == Spec => []NotForgotten
<1>1. Inv => NotForgotten
  BY DEF Inv
<1> QED
  BY <1>1, InitInv, StepInv, PTL DEF Spec
=============================================================================
