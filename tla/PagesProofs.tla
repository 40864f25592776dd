----------------------------- MODULE PagesProofs ----------------------------
(***************************************************************************)
(* Proofs about the pages of the frontend, their dialogs of diagnosis,     *)
(* their forms and the hook MetricsTrend they use, for any tunnels,        *)
(* services, texts and bounds.                                             *)
(*                                                                         *)
(* Each page has an invariant of its own, which says something only while  *)
(* that page is shown (TunnelInv, ServiceInv and so on); PagesInv is their *)
(* conjunction, with what holds of the requests a page leaves behind.  The *)
(* lemma of a page says that its steps keep its invariant and stay on it;  *)
(* PagesStep puts them together, for whatever page the user goes to next.  *)
(* FormInv is the invariant of the forms: the one that is followed fits as *)
(* the forms of its module do; FormStepKeeps puts the modules together.    *)
(* Most of them are in FormsProofs; the table, the sign-in and the         *)
(* preferences are here.  The theorems follow from both invariants.        *)
(*                                                                         *)
(* What the properties leave out and the invariants need:                  *)
(*   - the timers of a search hold nothing but the text in its field;      *)
(*   - while cards cannot be dragged the newest order is being saved, and  *)
(*     the server has none that is newer;                                  *)
(*   - the tests that are due fit into the sequences that still run;       *)
(*   - live lines come only while the switch is on;                        *)
(*   - an event source that failed is not shown as connected;              *)
(*   - a change of a key that refreshes its page has a request under way   *)
(*     there, and it is of that page only.                                 *)
(***************************************************************************)
EXTENDS FormsProofs, FiniteSetTheorems, TLAPS

\* The bounds one by one.
LEMMA Bounds ==
    /\ MaxPending \in Nat /\ MaxPending > 0 /\ MaxFiles \in Nat /\ MaxFiles > 0
    /\ MaxFetches \in Nat /\ MaxFetches > 0 /\ MaxLists \in Nat /\ MaxLists > 0
    /\ MaxRounds \in Nat /\ MaxRounds > 0 /\ MaxSequences \in Nat /\ MaxSequences > 0
    /\ MaxRefresh \in Nat /\ MaxDrags \in Nat /\ MaxPings \in Nat
    /\ Tests \in Nat /\ Tests > 0
  BY BoundsAssumption, PagesAssumption

\* No request under way was overtaken.
Aborts == \A r \in requests : ~r.overtaken

TrendInv == TrendTypeOK /\ Aborts /\ ChartsFollow

-----------------------------------------------------------------------------
\* What a request leaves under way.
LEMMA SendDoes ==
    ASSUME TrendInv, NEW i \in Ids, NEW loud \in BOOLEAN, Send(i, loud)
    PROVE  /\ requests' \subseteq Request /\ \A r \in requests' : ~r.overtaken
           /\ fetching' \in BOOLEAN /\ failed' \in BOOLEAN
<1>1. [id |-> i, loud |-> loud, overtaken |-> FALSE] \in Request
  BY DEF Request
<1>2. requests \ Newest \subseteq Request
  BY DEF TrendInv, TrendTypeOK
<1>3. requests \ Newest = {}
  BY DEF TrendInv, Aborts, Newest
<1>4. requests' = {[id |-> i, loud |-> loud, overtaken |-> FALSE]}
  <2>1. requests' = (requests \ Newest) \cup {[id |-> i, loud |-> loud, overtaken |-> FALSE]}
    BY DEF Send
  <2> QED
    BY <1>3, <2>1
<1>5. fetching' \in BOOLEAN
  <2>1. CASE \E r \in Newest : r.loud
    BY Zenon, <2>1 DEF Send
  <2>2. CASE ~\E r \in Newest : r.loud
    BY <2>2 DEF Send, TrendInv, TrendTypeOK
  <2> QED
    BY <2>1, <2>2
<1>6. failed' = FALSE
  BY DEF Send
<1>7. requests' \subseteq Request
  BY <1>1, <1>4
<1>8. \A r \in requests' : ~r.overtaken
  BY <1>4
<1> QED
  BY Zenon, <1>5, <1>6, <1>7, <1>8

\* The same of a request that may lack a tunnel.
LEMMA FetchDoes ==
    ASSUME TrendInv, NEW i \in Ids \cup {NoId}, NEW loud \in BOOLEAN, Fetch(i, loud)
    PROVE  /\ requests' \subseteq Request /\ \A r \in requests' : ~r.overtaken
           /\ fetching' \in BOOLEAN /\ failed' \in BOOLEAN
<1>1. CASE i # NoId
  BY <1>1, SendDoes DEF Fetch
<1>2. CASE i = NoId
  BY Zenon, <1>2 DEF Fetch, TrendInv, TrendTypeOK, Aborts
<1> QED
  BY <1>1, <1>2

LEMMA TrendInitInv == TrendStart => TrendInv
<1> SUFFICES ASSUME TrendStart PROVE TrendInv
  OBVIOUS
<1>1. TrendTypeOK
  BY Zenon DEF TrendStart, TrendTypeOK
<1> QED
  BY <1>1 DEF TrendStart, TrendInv, Aborts, ChartsFollow, NotOvertaken, TimerFollows

\* A new tunnel restarts the timer and aborts, a tunnel that is lost forgets the
\* measurements.
LEMMA FollowInv ==
    ASSUME TrendInv, NEW i \in Ids \cup {NoId}, Follow(i)
    PROVE  TrendInv'
<1>1. CASE i = tunnelId
  BY <1>1 DEF Follow, trend, TrendInv, TrendTypeOK, Aborts, ChartsFollow, NotOvertaken,
              TimerFollows
<1>2. CASE i # tunnelId
  <2>1. tunnelId' = i /\ interval' \in {i, NoTimer}
    BY <1>2 DEF Follow, RestartTimer
  <2>2. TimerFollows'
    BY <2>1 DEF TimerFollows
  <2>3. /\ requests' \subseteq Request /\ \A r \in requests' : ~r.overtaken
        /\ fetching' \in BOOLEAN /\ failed' \in BOOLEAN
        /\ data' \in {data, NoData}
    <3>1. CASE i # NoId
      BY Zenon, <1>2, <3>1, FetchDoes DEF Follow
    <3>2. CASE i = NoId
      BY Zenon, <1>2, <3>2 DEF Follow, TrendInv, TrendTypeOK, Aborts
    <3> QED
      BY <3>1, <3>2
  <2>4. TrendTypeOK'
    BY <2>1, <2>3 DEF TrendInv, TrendTypeOK
  <2>5. NotOvertaken'
    BY <2>3 DEF TrendInv, ChartsFollow, NotOvertaken
  <2> QED
    BY <2>2, <2>3, <2>4, <2>5 DEF TrendInv, Aborts, ChartsFollow
<1> QED
  BY <1>1, <1>2

\* A request of the timer or of a button.
LEMMA AskInv ==
    ASSUME TrendInv, Poll \/ RefreshTrend
    PROVE  TrendInv'
<1>1. UNCHANGED <<tunnelId, interval, data>>
  BY Zenon DEF Poll, RefreshTrend
<1>2. PICK i \in Ids \cup {NoId}, loud \in BOOLEAN : Fetch(i, loud)
  <2>1. CASE Poll
    <3>1. interval \in Ids \cup {NoId}
      BY <2>1 DEF Poll, TrendInv, TrendTypeOK
    <3> QED
      BY Zenon, <2>1, <3>1 DEF Poll
  <2>2. CASE RefreshTrend
    <3>1. tunnelId \in Ids \cup {NoId}
      BY DEF TrendInv, TrendTypeOK
    <3> QED
      BY Zenon, <2>2, <3>1 DEF RefreshTrend
  <2> QED
    BY <2>1, <2>2
<1>3. /\ requests' \subseteq Request /\ \A r \in requests' : ~r.overtaken
      /\ fetching' \in BOOLEAN /\ failed' \in BOOLEAN
  BY <1>2, FetchDoes
<1> QED
  BY <1>1, <1>3 DEF TrendInv, TrendTypeOK, Aborts, ChartsFollow, NotOvertaken, TimerFollows

LEMMA AnsweredInv ==
    ASSUME TrendInv, NEW r \in requests, Answered(r)
    PROVE  TrendInv'
<1>1. r \in Request /\ ~r.overtaken
  BY DEF TrendInv, TrendTypeOK, Aborts
<1>2. /\ UNCHANGED <<tunnelId, interval>> /\ requests' = requests \ {r}
      /\ fetching' \in BOOLEAN /\ failed' \in BOOLEAN
      /\ data' \in {data, [id |-> r.id, overtaken |-> r.overtaken]}
  BY Zenon DEF Answered, TrendInv, TrendTypeOK
<1>3. [id |-> r.id, overtaken |-> r.overtaken] \in [id : Ids, overtaken : BOOLEAN]
  BY <1>1 DEF Request
<1>4. TrendTypeOK'
  BY <1>2, <1>3 DEF TrendInv, TrendTypeOK
<1>5. Aborts' /\ TimerFollows'
  BY <1>2 DEF TrendInv, Aborts, ChartsFollow, TimerFollows
<1>6. NotOvertaken'
  BY <1>1, <1>2 DEF TrendInv, ChartsFollow, NotOvertaken
<1> QED
  BY <1>4, <1>5, <1>6 DEF TrendInv, ChartsFollow

LEMMA TrendEndsInv ==
    ASSUME TrendEnds
    PROVE  TrendInv'
  BY Zenon DEF TrendEnds, TrendInv, TrendTypeOK, Aborts, ChartsFollow, NotOvertaken, TimerFollows

\* Every step of the hook keeps the invariant.
LEMMA TrendStepInv == TrendInv /\ [TrendNext]_trend => TrendInv'
<1> SUFFICES ASSUME TrendInv, [TrendNext]_trend PROVE TrendInv'
  OBVIOUS
<1>1. CASE UNCHANGED trend
  BY <1>1 DEF trend, TrendInv, TrendTypeOK, Aborts, ChartsFollow, NotOvertaken, TimerFollows
<1>2. CASE \E i \in Ids \cup {NoId} : Follow(i)
  BY <1>2, FollowInv
<1>3. CASE Poll \/ RefreshTrend
  BY <1>3, AskInv
<1>4. CASE TrendAnswered
  BY <1>4, AnsweredInv DEF TrendAnswered
<1>5. CASE TrendEnds
  BY <1>5, TrendEndsInv
<1> QED
  BY <1>1, <1>2, <1>3, <1>4, <1>5 DEF TrendNext

LEMMA TrendInvariance == TrendSpec => []TrendInv
  BY TrendInitInv, TrendStepInv, PTL DEF TrendSpec

\* Every state of the hook is well typed, whatever ids its page gives it.
THEOREM TrendTypeCorrect == TrendSpec => []TrendTypeOK
<1>1. TrendInv => TrendTypeOK
  BY DEF TrendInv
<1> QED
  BY <1>1, TrendInvariance, PTL

\* In every page that uses the hook, whatever ids it gives it and in whatever order
\* answers, polls and refreshes come: measurements never give way to older ones, and
\* the timer polls for the tunnel of the page.
THEOREM ChartsFollowAlways == TrendSpec => []ChartsFollow
<1>1. TrendInv => ChartsFollow
  BY DEF TrendInv
<1> QED
  BY <1>1, TrendInvariance, PTL

-----------------------------------------------------------------------------
(* The page of a tunnel                                                    *)

Sum(n) ==
    n["details"] + n["refresh"] + n["export"] + n["reset"] + n["policy"]
      + n["start"] + n["stop"] + n["delete"] + n["clear"]

\* The page in the state p is typed, its requests are within their bound, and none of
\* its flags or live lines is left without a request.
TunnelGood(p) ==
    /\ p \in Tunnel!TunnelPage
    /\ Sum(p.pending) <= MaxPending
    /\ p.loading => p.pending["details"] + p.pending["refresh"] > 0
    /\ p.refreshing => p.pending["refresh"] > 0
    /\ p.exporting => p.pending["export"] > 0
    /\ p.resetting => p.pending["reset"] > 0
    /\ p.policing => p.pending["policy"] > 0
    /\ p.lines = "live" /\ ~p.realtime => p.files > 0

\* Live lines come only while the switch is on.
TunnelInv == Tunnel!Here => TunnelGood(page) /\ (page.stream => page.realtime)

LEMMA TunnelAppears ==
    ASSUME NEW i \in Ids
    PROVE  TunnelGood(Tunnel!TunnelShown(i)) /\ ~Tunnel!TunnelShown(i).stream
  BY Bounds DEF TunnelGood, Sum, Tunnel!TunnelShown, Tunnel!TunnelPage, Tunnel!Ops

\* Hiding and showing the viewer keeps what is good.
LEMMA ViewerKeeps ==
    ASSUME NEW new, TunnelGood(new), new.stream => new.realtime
    PROVE  /\ TunnelGood(Tunnel!Viewer(new))
           /\ Tunnel!Viewer(new).stream => Tunnel!Viewer(new).realtime
<1>1. CASE ~Tunnel!Visible(new)
  <2> DEFINE pending == [new.pending EXCEPT !["clear"] = 0]
             p == [new EXCEPT !.files = 0, !.lines = "none", !.pending["clear"] = 0]
  <2>1. Tunnel!Viewer(new) = p
    BY <1>1 DEF Tunnel!Viewer
  <2>2. new.pending \in [Tunnel!Ops -> 0..MaxPending]
    BY DEF TunnelGood, Tunnel!TunnelPage
  <2>3. /\ pending \in [Tunnel!Ops -> 0..MaxPending] /\ Sum(pending) <= Sum(new.pending)
        /\ \A op \in Tunnel!Ops \ {"clear"} : pending[op] = new.pending[op]
        /\ Sum(new.pending) \in Nat /\ Sum(pending) \in Nat
    BY <2>2, Bounds DEF Sum, Tunnel!Ops
  <2>4. p = [new EXCEPT !.files = 0, !.lines = "none", !.pending = pending]
    OBVIOUS
  <2>5. ASSUME NEW n \in [Tunnel!Ops -> 0..MaxPending], NEW q,
               q = [new EXCEPT !.files = 0, !.lines = "none", !.pending = n]
        PROVE  /\ q \in Tunnel!TunnelPage
               /\ q.pending = n /\ q.lines = "none" /\ q.loading = new.loading
               /\ q.refreshing = new.refreshing /\ q.exporting = new.exporting
               /\ q.resetting = new.resetting /\ q.policing = new.policing
               /\ q.realtime = new.realtime /\ q.stream = new.stream
    <3>1. new \in Tunnel!TunnelPage /\ 0 \in 0..MaxFiles
      BY Bounds DEF TunnelGood
    <3> QED
      BY Zenon, <2>5, <3>1 DEF Tunnel!TunnelPage
  <2> HIDE DEF p, pending
  <2>6. /\ p \in Tunnel!TunnelPage
        /\ p.pending = pending /\ p.lines = "none" /\ p.loading = new.loading
        /\ p.refreshing = new.refreshing /\ p.exporting = new.exporting
        /\ p.resetting = new.resetting /\ p.policing = new.policing
        /\ p.realtime = new.realtime /\ p.stream = new.stream
    BY Zenon, <2>3, <2>4, <2>5
  <2>7. Sum(pending) <= MaxPending
    BY <2>3, Bounds DEF TunnelGood
  <2>8. TunnelGood(p)
    BY <2>3, <2>6, <2>7 DEF TunnelGood, Tunnel!Ops
  <2> QED
    BY <2>1, <2>6, <2>8
<1>2. CASE Tunnel!Visible(new) /\ Tunnel!Visible(page)
  BY <1>2 DEF Tunnel!Viewer
<1>3. CASE Tunnel!Visible(new) /\ ~Tunnel!Visible(page)
  <2>1. PICK m \in {1, 2} : Tunnel!Viewer(new) = [new EXCEPT !.files = Tunnel!Atmost(m)]
    BY <1>3 DEF Tunnel!Viewer
  <2>2. Tunnel!Atmost(m) \in 1..MaxFiles
    BY Bounds DEF Tunnel!Atmost
  <2> QED
    BY <2>1, <2>2, Bounds DEF TunnelGood, Tunnel!TunnelPage
<1> QED
  BY <1>1, <1>2, <1>3

\* So does a rendering: the stream goes with the switch.
LEMMA RenderKeeps ==
    ASSUME NEW new, TunnelGood(new), page.stream => page.realtime,
           new.stream = page.stream, Tunnel!Render(new)
    PROVE  TunnelGood(page') /\ (page'.stream => page'.realtime)
<1>1. CASE new.realtime = page.realtime
  BY <1>1, ViewerKeeps DEF Tunnel!Render
<1>2. CASE new.realtime # page.realtime
  <2>1. ASSUME NEW q, q = [new EXCEPT !.stream = new.realtime]
        PROVE  TunnelGood(q) /\ (q.stream => q.realtime)
    BY <2>1 DEF TunnelGood, Tunnel!TunnelPage
  <2> QED
    BY <1>2, <2>1, ViewerKeeps DEF Tunnel!Render
<1> QED
  BY <1>1, <1>2

\* A request more, and one less.
LEMMA MorePending ==
    ASSUME NEW n \in [Tunnel!Ops -> 0..MaxPending], Sum(n) < MaxPending, NEW op \in Tunnel!Ops,
           NEW m, m = [n EXCEPT ![op] = n[op] + 1]
    PROVE  /\ m \in [Tunnel!Ops -> 0..MaxPending] /\ Sum(m) = Sum(n) + 1 /\ Sum(n) \in Nat
           /\ m[op] > 0 /\ \A o \in Tunnel!Ops : m[o] >= n[o]
<1>1. \A o \in Tunnel!Ops : n[o] \in Nat /\ n[o] <= MaxPending
  BY Bounds
<1>2. Sum(n) \in Nat /\ n[op] < MaxPending
  BY <1>1, Bounds DEF Tunnel!Ops, Sum
<1>3. /\ m \in [Tunnel!Ops -> Nat] /\ m[op] = n[op] + 1
      /\ \A o \in Tunnel!Ops \ {op} : m[o] = n[o]
  BY <1>1
<1>4. Sum(m) = Sum(n) + 1
  BY <1>1, <1>3 DEF Tunnel!Ops, Sum
<1>5. \A o \in Tunnel!Ops : m[o] \in 0..MaxPending /\ m[o] >= n[o]
  BY <1>1, <1>2, <1>3, Bounds
<1> QED
  BY <1>1, <1>2, <1>3, <1>4, <1>5

LEMMA LessPending ==
    ASSUME NEW n \in [Tunnel!Ops -> 0..MaxPending], NEW op \in Tunnel!Ops, n[op] > 0,
           NEW m, m = [n EXCEPT ![op] = n[op] - 1]
    PROVE  /\ m \in [Tunnel!Ops -> 0..MaxPending] /\ Sum(m) = Sum(n) - 1 /\ Sum(n) \in Nat
           /\ \A o \in Tunnel!Ops \ {op} : m[o] = n[o]
<1>1. \A o \in Tunnel!Ops : n[o] \in Nat /\ n[o] <= MaxPending
  BY Bounds
<1>2. Sum(n) \in Nat
  BY <1>1, Bounds DEF Tunnel!Ops, Sum
<1>3. /\ m \in [Tunnel!Ops -> Nat] /\ m[op] = n[op] - 1
      /\ \A o \in Tunnel!Ops \ {op} : m[o] = n[o]
  BY <1>1
<1>4. Sum(m) = Sum(n) - 1
  BY <1>1, <1>3 DEF Tunnel!Ops, Sum
<1>5. \A o \in Tunnel!Ops : m[o] \in 0..MaxPending
  BY <1>1, <1>3, Bounds
<1> QED
  BY <1>1, <1>2, <1>3, <1>4, <1>5

\* What a press of op makes of the page p, whose requests become n.
Pressed(p, n, op) ==
    [p EXCEPT !.pending = n,
       !.loading = p.loading \/ op \in {"details", "refresh"},
       !.refreshing = p.refreshing \/ op = "refresh",
       !.exporting = p.exporting \/ op = "export",
       !.resetting = p.resetting \/ op = "reset",
       !.policing = p.policing \/ op = "policy"]

LEMMA PressedPage ==
    ASSUME NEW p \in Tunnel!TunnelPage, NEW n \in [Tunnel!Ops -> 0..MaxPending], NEW op,
           NEW q, q = Pressed(p, n, op)
    PROVE  /\ q \in Tunnel!TunnelPage /\ q.pending = n
           /\ q.loading => p.loading \/ op \in {"details", "refresh"}
           /\ q.refreshing => p.refreshing \/ op = "refresh"
           /\ q.exporting => p.exporting \/ op = "export"
           /\ q.resetting => p.resetting \/ op = "reset"
           /\ q.policing => p.policing \/ op = "policy"
           /\ q.stream = p.stream /\ q.realtime = p.realtime
           /\ q.lines = p.lines /\ q.files = p.files
<1> DEFINE half == [p EXCEPT !.pending = n,
                      !.loading = p.loading \/ op \in {"details", "refresh"},
                      !.refreshing = p.refreshing \/ op = "refresh"]
<1>1. half \in Tunnel!TunnelPage
  BY Zenon DEF Tunnel!TunnelPage
<1>2. /\ half.pending = n
      /\ half.loading => p.loading \/ op \in {"details", "refresh"}
      /\ half.refreshing => p.refreshing \/ op = "refresh"
      /\ half.stream = p.stream /\ half.realtime = p.realtime
      /\ half.lines = p.lines /\ half.files = p.files
  BY DEF Tunnel!TunnelPage
<1>3. q = [half EXCEPT !.exporting = p.exporting \/ op = "export",
             !.resetting = p.resetting \/ op = "reset",
             !.policing = p.policing \/ op = "policy"]
  BY DEF Pressed
<1> HIDE DEF half
<1>4. q \in Tunnel!TunnelPage
  BY Zenon, <1>1, <1>3 DEF Tunnel!TunnelPage
<1>5. /\ q.exporting => p.exporting \/ op = "export"
      /\ q.resetting => p.resetting \/ op = "reset"
      /\ q.policing => p.policing \/ op = "policy"
  BY <1>1, <1>3 DEF Tunnel!TunnelPage
<1>6. /\ q.pending = half.pending /\ (q.loading => half.loading)
      /\ q.refreshing => half.refreshing
      /\ q.stream = half.stream /\ q.realtime = half.realtime
      /\ q.lines = half.lines /\ q.files = half.files
  BY <1>1, <1>3 DEF Tunnel!TunnelPage
<1> QED
  BY <1>2, <1>4, <1>5, <1>6

LEMMA PressKeeps ==
    ASSUME TunnelInv, NEW op \in Tunnel!Ops, Tunnel!Press(op)
    PROVE  TunnelInv'
<1>1. TunnelGood(page) /\ (page.stream => page.realtime) /\ Sum(page.pending) < MaxPending
  BY DEF TunnelInv, Tunnel!Press, Tunnel!UnderWay, Sum
<1>2. PICK n, q :
         /\ n = [page.pending EXCEPT ![op] = page.pending[op] + 1]
         /\ q = Pressed(page, n, op)
         /\ Tunnel!Render(q)
  BY Zenon DEF Tunnel!Press, Pressed
<1>3. page \in Tunnel!TunnelPage /\ page.pending \in [Tunnel!Ops -> 0..MaxPending]
  BY <1>1 DEF TunnelGood, Tunnel!TunnelPage
<1>4. /\ n \in [Tunnel!Ops -> 0..MaxPending] /\ Sum(n) <= MaxPending
      /\ n[op] > 0 /\ \A o \in Tunnel!Ops : n[o] >= page.pending[o]
  BY <1>1, <1>2, <1>3, MorePending, Bounds
<1>5. /\ q \in Tunnel!TunnelPage /\ q.pending = n
      /\ q.loading => page.loading \/ op \in {"details", "refresh"}
      /\ q.refreshing => page.refreshing \/ op = "refresh"
      /\ q.exporting => page.exporting \/ op = "export"
      /\ q.resetting => page.resetting \/ op = "reset"
      /\ q.policing => page.policing \/ op = "policy"
      /\ q.stream = page.stream /\ q.realtime = page.realtime
      /\ q.lines = page.lines /\ q.files = page.files
  BY <1>2, <1>3, <1>4, PressedPage
<1>6. \A o \in Tunnel!Ops : n[o] \in Nat /\ page.pending[o] \in Nat
  BY <1>3, <1>4, Bounds
<1>7. TunnelGood(q)
  BY <1>1, <1>4, <1>5, <1>6 DEF TunnelGood, Tunnel!Ops
<1> QED
  BY <1>1, <1>2, <1>5, <1>7, RenderKeeps DEF TunnelInv

\* An answer takes its request away.
LEMMA DoneDoes ==
    ASSUME TunnelGood(page), NEW op \in Tunnel!Ops, page.pending[op] > 0,
           NEW d, d = Tunnel!Done(op)
    PROVE  /\ d \in Tunnel!TunnelPage /\ Sum(d.pending) <= MaxPending - 1
           /\ \A o \in Tunnel!Ops \ {op} : d.pending[o] = page.pending[o]
           /\ d.info = page.info /\ d.loading = page.loading
           /\ d.refreshing = page.refreshing /\ d.exporting = page.exporting
           /\ d.resetting = page.resetting /\ d.policing = page.policing
           /\ d.realtime = page.realtime /\ d.stream = page.stream
           /\ d.files = page.files /\ d.lines = page.lines
<1>1. page \in Tunnel!TunnelPage /\ page.pending \in [Tunnel!Ops -> 0..MaxPending]
  BY DEF TunnelGood, Tunnel!TunnelPage
<1>2. PICK n : n = [page.pending EXCEPT ![op] = page.pending[op] - 1]
               /\ d = [page EXCEPT !.pending = n]
  BY Zenon DEF Tunnel!Done
<1>3. /\ n \in [Tunnel!Ops -> 0..MaxPending] /\ Sum(n) <= MaxPending - 1
      /\ \A o \in Tunnel!Ops \ {op} : n[o] = page.pending[o]
  <2>1. Sum(page.pending) <= MaxPending
    BY DEF TunnelGood
  <2>2. /\ n \in [Tunnel!Ops -> 0..MaxPending] /\ Sum(n) = Sum(page.pending) - 1
        /\ Sum(page.pending) \in Nat
        /\ \A o \in Tunnel!Ops \ {op} : n[o] = page.pending[o]
    BY <1>1, <1>2, LessPending
  <2> QED
    BY <2>1, <2>2, Bounds
<1> QED
  BY <1>1, <1>2, <1>3 DEF Tunnel!TunnelPage

\* The page q is what the answer to op makes of the page: the flags of op are cleared.
Answers(op, q) ==
    /\ q \in Tunnel!TunnelPage /\ q.pending = Tunnel!Done(op).pending
    /\ q.loading => page.loading /\ op \notin {"details", "refresh"}
    /\ q.refreshing => page.refreshing /\ op # "refresh"
    /\ q.exporting => page.exporting /\ op # "export"
    /\ q.resetting => page.resetting /\ op # "reset"
    /\ q.policing => page.policing /\ op # "policy"
    /\ q.lines = "live" => page.lines = "live"
    /\ q.realtime = page.realtime /\ q.stream = page.stream /\ q.files = page.files

LEMMA AnswerKeeps ==
    ASSUME TunnelInv, Tunnel!Here, route' = route, NEW op \in Tunnel!Ops,
           page.pending[op] > 0, NEW q, Answers(op, q), Tunnel!Render(q)
    PROVE  TunnelInv'
<1>1. TunnelGood(page) /\ (page.stream => page.realtime) /\ q \in Tunnel!TunnelPage
  BY DEF TunnelInv, Answers
<1>2. /\ Sum(q.pending) <= MaxPending - 1
      /\ \A o \in Tunnel!Ops \ {op} : q.pending[o] = page.pending[o]
  BY <1>1, DoneDoes DEF Answers
<1>3. \A o \in Tunnel!Ops : q.pending[o] \in Nat /\ page.pending[o] \in Nat
  BY <1>1, Bounds DEF TunnelGood, Tunnel!TunnelPage
<1>4. Sum(q.pending) <= MaxPending
  <2>1. Sum(q.pending) \in Nat
    BY <1>3 DEF Sum, Tunnel!Ops
  <2> QED
    BY <1>2, <2>1, Bounds
<1>5. TunnelGood(q)
  BY <1>1, <1>2, <1>3, <1>4 DEF TunnelGood, Tunnel!Ops, Answers
<1> QED
  BY <1>1, <1>5, RenderKeeps DEF TunnelInv, Tunnel!Here, Answers

LEMMA DetailsAnsweredKeeps == TunnelInv /\ Tunnel!DetailsAnswered => TunnelInv'
<1> SUFFICES ASSUME TunnelInv, Tunnel!DetailsAnswered PROVE TunnelInv'
  OBVIOUS
<1>1. TunnelGood(page) /\ Tunnel!Here /\ route' = route /\ page.pending["details"] > 0
  BY DEF TunnelInv, Tunnel!DetailsAnswered
<1>7. "details" \in Tunnel!Ops
  BY DEF Tunnel!Ops
<1>2. PICK d, e : d = Tunnel!Done("details") /\ e = [d EXCEPT !.loading = FALSE]
  BY Zenon
<1>3. /\ e \in Tunnel!TunnelPage /\ e.pending = d.pending /\ ~e.loading
      /\ e.refreshing = page.refreshing /\ e.exporting = page.exporting
      /\ e.resetting = page.resetting /\ e.policing = page.policing
      /\ e.realtime = page.realtime /\ e.stream = page.stream
      /\ e.files = page.files /\ e.lines = page.lines
  <2>1. /\ d \in Tunnel!TunnelPage
        /\ d.refreshing = page.refreshing /\ d.exporting = page.exporting
        /\ d.resetting = page.resetting /\ d.policing = page.policing
        /\ d.realtime = page.realtime /\ d.stream = page.stream
        /\ d.files = page.files /\ d.lines = page.lines
    BY <1>1, <1>2, <1>7, DoneDoes
  <2> QED
    BY Zenon, <1>2, <2>1 DEF Tunnel!TunnelPage
<1>4. PICK q : /\ q = e \/ \E status \in {"success", "danger"} : q = [e EXCEPT !.info = status]
               /\ Tunnel!Render(q)
  BY <1>2 DEF Tunnel!DetailsAnswered
<1>5. /\ q \in Tunnel!TunnelPage /\ q.pending = d.pending /\ ~q.loading
      /\ q.refreshing = page.refreshing /\ q.exporting = page.exporting
      /\ q.resetting = page.resetting /\ q.policing = page.policing
      /\ q.realtime = page.realtime /\ q.stream = page.stream
      /\ q.files = page.files /\ q.lines = page.lines
  BY <1>3, <1>4 DEF Tunnel!TunnelPage
<1>6. Answers("details", q)
  BY <1>2, <1>5 DEF Answers
<1> QED
  BY <1>1, <1>4, <1>6, <1>7, AnswerKeeps

LEMMA RefreshAnsweredKeeps == TunnelInv /\ Tunnel!RefreshAnswered => TunnelInv'
<1> SUFFICES ASSUME TunnelInv, Tunnel!RefreshAnswered PROVE TunnelInv'
  OBVIOUS
<1>1. TunnelGood(page) /\ Tunnel!Here /\ route' = route /\ page.pending["refresh"] > 0
  BY DEF TunnelInv, Tunnel!RefreshAnswered
<1>7. "refresh" \in Tunnel!Ops
  BY DEF Tunnel!Ops
<1>2. PICK d, e, q :
         /\ d = Tunnel!Done("refresh")
         /\ e = [d EXCEPT !.loading = FALSE, !.refreshing = FALSE]
         /\ \E status \in {"success", "danger", page.info} :
               q = [e EXCEPT !.triggered = TRUE, !.info = status]
         /\ Tunnel!Render(q)
  BY Zenon DEF Tunnel!RefreshAnswered
<1>3. page.info \in {"none", "success", "danger"}
  BY <1>1 DEF TunnelGood, Tunnel!TunnelPage
<1>4. /\ d \in Tunnel!TunnelPage /\ d.exporting = page.exporting
      /\ d.resetting = page.resetting /\ d.policing = page.policing
      /\ d.realtime = page.realtime /\ d.stream = page.stream
      /\ d.files = page.files /\ d.lines = page.lines
  BY <1>1, <1>2, <1>7, DoneDoes
<1>5. /\ q \in Tunnel!TunnelPage /\ q.pending = d.pending /\ ~q.loading /\ ~q.refreshing
      /\ q.exporting = page.exporting
      /\ q.resetting = page.resetting /\ q.policing = page.policing
      /\ q.realtime = page.realtime /\ q.stream = page.stream
      /\ q.files = page.files /\ q.lines = page.lines
  <2>1. /\ e \in Tunnel!TunnelPage /\ e.pending = d.pending /\ ~e.loading /\ ~e.refreshing
        /\ e.exporting = page.exporting
        /\ e.resetting = page.resetting /\ e.policing = page.policing
        /\ e.realtime = page.realtime /\ e.stream = page.stream
        /\ e.files = page.files /\ e.lines = page.lines
    BY Zenon, <1>2, <1>4 DEF Tunnel!TunnelPage
  <2>2. \E i \in {"none", "success", "danger"} : q = [e EXCEPT !.triggered = TRUE, !.info = i]
    BY Zenon, <1>2, <1>3
  <2> QED
    BY Zenon, <2>1, <2>2 DEF Tunnel!TunnelPage
<1>6. Answers("refresh", q)
  BY <1>2, <1>5 DEF Answers
<1> QED
  BY <1>1, <1>2, <1>6, <1>7, AnswerKeeps

LEMMA StatusAnsweredKeeps ==
    ASSUME TunnelInv, NEW op \in {"start", "stop"}, NEW status \in {"success", "danger"},
           Tunnel!StatusAnswered(op, status)
    PROVE  TunnelInv'
<1>1. /\ TunnelGood(page) /\ Tunnel!Here /\ route' = route /\ page.pending[op] > 0
      /\ op \in Tunnel!Ops
  BY DEF TunnelInv, Tunnel!StatusAnswered, Tunnel!Ops
<1>2. PICK d, q : /\ d = Tunnel!Done(op)
                  /\ q = d \/ q = [d EXCEPT !.info = IF d.info = "none" THEN d.info ELSE status]
                  /\ Tunnel!Render(q)
  BY DEF Tunnel!StatusAnswered
<1>3. /\ d \in Tunnel!TunnelPage /\ d.loading = page.loading
      /\ d.refreshing = page.refreshing /\ d.exporting = page.exporting
      /\ d.resetting = page.resetting /\ d.policing = page.policing
      /\ d.realtime = page.realtime /\ d.stream = page.stream
      /\ d.files = page.files /\ d.lines = page.lines
  BY <1>1, <1>2, DoneDoes
<1>4. q = d \/ \E i \in {"none", "success", "danger"} : q = [d EXCEPT !.info = i]
  BY <1>2, <1>3 DEF Tunnel!TunnelPage
<1>5. /\ q \in Tunnel!TunnelPage /\ q.pending = d.pending /\ q.loading = page.loading
      /\ q.refreshing = page.refreshing /\ q.exporting = page.exporting
      /\ q.resetting = page.resetting /\ q.policing = page.policing
      /\ q.realtime = page.realtime /\ q.stream = page.stream
      /\ q.files = page.files /\ q.lines = page.lines
  BY <1>3, <1>4 DEF Tunnel!TunnelPage
<1>6. Answers(op, q)
  BY <1>2, <1>5 DEF Answers
<1> QED
  BY <1>1, <1>2, <1>6, AnswerKeeps

LEMMA DeleteAnsweredKeeps == TunnelInv /\ Tunnel!DeleteAnswered => TunnelInv'
<1> SUFFICES ASSUME TunnelInv, Tunnel!DeleteAnswered PROVE TunnelInv'
  OBVIOUS
<1>1. /\ TunnelGood(page) /\ Tunnel!Here /\ route' = route /\ page.pending["delete"] > 0
      /\ "delete" \in Tunnel!Ops
  BY DEF TunnelInv, Tunnel!DeleteAnswered, Tunnel!Ops
<1>2. Tunnel!Render(Tunnel!Done("delete"))
  BY DEF Tunnel!DeleteAnswered
<1>3. Answers("delete", Tunnel!Done("delete"))
  BY <1>1, DoneDoes DEF Answers
<1> QED
  BY <1>1, <1>2, <1>3, AnswerKeeps

LEMMA ExportAnsweredKeeps == TunnelInv /\ Tunnel!ExportAnswered => TunnelInv'
<1> SUFFICES ASSUME TunnelInv, Tunnel!ExportAnswered PROVE TunnelInv'
  OBVIOUS
<1>1. /\ TunnelGood(page) /\ Tunnel!Here /\ route' = route /\ page.pending["export"] > 0
      /\ "export" \in Tunnel!Ops
  BY DEF TunnelInv, Tunnel!ExportAnswered, Tunnel!Ops
<1>2. PICK d, q : /\ d = Tunnel!Done("export") /\ q = [d EXCEPT !.exporting = FALSE]
                  /\ Tunnel!Render(q)
  BY DEF Tunnel!ExportAnswered
<1>3. /\ d \in Tunnel!TunnelPage /\ d.loading = page.loading
      /\ d.refreshing = page.refreshing
      /\ d.resetting = page.resetting /\ d.policing = page.policing
      /\ d.realtime = page.realtime /\ d.stream = page.stream
      /\ d.files = page.files /\ d.lines = page.lines
  BY <1>1, <1>2, DoneDoes
<1>4. Answers("export", q)
  BY Zenon, <1>2, <1>3 DEF Answers, Tunnel!TunnelPage
<1> QED
  BY <1>1, <1>2, <1>4, AnswerKeeps

LEMMA PolicyAnsweredKeeps == TunnelInv /\ Tunnel!PolicyAnswered => TunnelInv'
<1> SUFFICES ASSUME TunnelInv, Tunnel!PolicyAnswered PROVE TunnelInv'
  OBVIOUS
<1>1. /\ TunnelGood(page) /\ Tunnel!Here /\ route' = route /\ page.pending["policy"] > 0
      /\ "policy" \in Tunnel!Ops
  BY DEF TunnelInv, Tunnel!PolicyAnswered, Tunnel!Ops
<1>2. PICK d, q : /\ d = Tunnel!Done("policy") /\ q = [d EXCEPT !.policing = FALSE]
                  /\ Tunnel!Render(q)
  BY DEF Tunnel!PolicyAnswered
<1>3. /\ d \in Tunnel!TunnelPage /\ d.loading = page.loading
      /\ d.refreshing = page.refreshing /\ d.exporting = page.exporting
      /\ d.resetting = page.resetting
      /\ d.realtime = page.realtime /\ d.stream = page.stream
      /\ d.files = page.files /\ d.lines = page.lines
  BY <1>1, <1>2, DoneDoes
<1>4. Answers("policy", q)
  BY Zenon, <1>2, <1>3 DEF Answers, Tunnel!TunnelPage
<1> QED
  BY <1>1, <1>2, <1>4, AnswerKeeps

LEMMA ClearAnsweredKeeps == TunnelInv /\ Tunnel!ClearAnswered => TunnelInv'
<1> SUFFICES ASSUME TunnelInv, Tunnel!ClearAnswered PROVE TunnelInv'
  OBVIOUS
<1>1. /\ TunnelGood(page) /\ Tunnel!Here /\ route' = route /\ page.pending["clear"] > 0
      /\ "clear" \in Tunnel!Ops
  BY DEF TunnelInv, Tunnel!ClearAnswered, Tunnel!Ops
<1>2. PICK d, q : /\ d = Tunnel!Done("clear")
                  /\ q = d \/ q = [d EXCEPT !.lines = "none"]
                  /\ Tunnel!Render(q)
  BY DEF Tunnel!ClearAnswered
<1>3. /\ d \in Tunnel!TunnelPage /\ d.loading = page.loading
      /\ d.refreshing = page.refreshing /\ d.exporting = page.exporting
      /\ d.resetting = page.resetting /\ d.policing = page.policing
      /\ d.realtime = page.realtime /\ d.stream = page.stream
      /\ d.files = page.files /\ d.lines = page.lines
  BY <1>1, <1>2, DoneDoes
<1>4. Answers("clear", q)
  BY <1>2, <1>3 DEF Answers, Tunnel!TunnelPage
<1> QED
  BY <1>1, <1>2, <1>4, AnswerKeeps

\* A reset that succeeds asks for the tunnel in the place of its own request.
LEMMA ResetAnsweredKeeps == TunnelInv /\ Tunnel!ResetAnswered => TunnelInv'
<1> SUFFICES ASSUME TunnelInv, Tunnel!ResetAnswered PROVE TunnelInv'
  OBVIOUS
<1>1. /\ TunnelGood(page) /\ Tunnel!Here /\ route' = route /\ page.pending["reset"] > 0
      /\ "reset" \in Tunnel!Ops /\ (page.stream => page.realtime)
  BY DEF TunnelInv, Tunnel!ResetAnswered, Tunnel!Ops
<1>2. PICK d, e, n, q :
         /\ d = Tunnel!Done("reset") /\ e = [d EXCEPT !.resetting = FALSE]
         /\ n = [d.pending EXCEPT !["details"] = d.pending["details"] + 1]
         /\ q = [e EXCEPT !.loading = TRUE, !.pending["details"] = e.pending["details"] + 1]
         /\ Tunnel!Render(q) \/ Tunnel!Render(e)
  BY Zenon DEF Tunnel!ResetAnswered
<1>3. /\ d \in Tunnel!TunnelPage /\ d.loading = page.loading
      /\ d.refreshing = page.refreshing /\ d.exporting = page.exporting
      /\ d.policing = page.policing
      /\ d.realtime = page.realtime /\ d.stream = page.stream
      /\ d.files = page.files /\ d.lines = page.lines
      /\ Sum(d.pending) <= MaxPending - 1
      /\ \A o \in Tunnel!Ops \ {"reset"} : d.pending[o] = page.pending[o]
  BY <1>1, <1>2, DoneDoes
<1>4. Answers("reset", e)
  BY Zenon, <1>2, <1>3 DEF Answers, Tunnel!TunnelPage
<1>5. CASE Tunnel!Render(e)
  BY <1>1, <1>4, <1>5, AnswerKeeps
<1>6. CASE Tunnel!Render(q)
  <2>1. "details" \in Tunnel!Ops /\ d.pending \in [Tunnel!Ops -> 0..MaxPending]
    BY <1>3 DEF Tunnel!TunnelPage, Tunnel!Ops
  <2>2. Sum(d.pending) \in Nat
    BY <2>1, Bounds DEF Sum, Tunnel!Ops
  <2>3. /\ n \in [Tunnel!Ops -> 0..MaxPending] /\ Sum(n) = Sum(d.pending) + 1
        /\ n["details"] > 0 /\ \A o \in Tunnel!Ops : n[o] >= d.pending[o]
    BY <1>2, <1>3, <2>1, <2>2, MorePending, Bounds
  <2>4. e \in Tunnel!TunnelPage /\ e.pending = d.pending /\ ~e.resetting
    BY Zenon, <1>2, <1>3 DEF Tunnel!TunnelPage
  <2>5. q = [e EXCEPT !.loading = TRUE, !.pending = n]
    BY <1>2, <2>4
  <2>6. /\ q \in Tunnel!TunnelPage /\ q.pending = n
        /\ q.refreshing = e.refreshing /\ q.exporting = e.exporting
        /\ q.resetting = e.resetting /\ q.policing = e.policing
        /\ q.realtime = e.realtime /\ q.stream = e.stream
        /\ q.files = e.files /\ q.lines = e.lines
    BY Zenon, <2>3, <2>4, <2>5 DEF Tunnel!TunnelPage
  <2>7. \A o \in Tunnel!Ops : n[o] \in Nat /\ d.pending[o] \in Nat /\ page.pending[o] \in Nat
    BY <1>1, <2>1, <2>3, Bounds DEF TunnelGood, Tunnel!TunnelPage
  <2>8. TunnelGood(q)
    BY <1>1, <1>3, <1>4, <2>2, <2>3, <2>4, <2>6, <2>7, Bounds
      DEF TunnelGood, Tunnel!Ops, Answers
  <2> QED
    BY <1>1, <1>4, <1>6, <2>6, <2>8, RenderKeeps DEF TunnelInv, Tunnel!Here, Answers
<1> QED
  BY <1>2, <1>5, <1>6

\* The page q has the requests and the flags of the page.
SameRequests(q) ==
    /\ q \in Tunnel!TunnelPage /\ q.pending = page.pending
    /\ q.loading = page.loading /\ q.refreshing = page.refreshing
    /\ q.exporting = page.exporting /\ q.resetting = page.resetting
    /\ q.policing = page.policing /\ q.stream = page.stream

\* What the viewer and the stream do changes no request and no flag.
LEMMA LogKeeps ==
    ASSUME TunnelInv, Tunnel!Here, route' = route,
           NEW q, SameRequests(q),
           q.lines = "live" /\ ~q.realtime => q.files > 0, Tunnel!Render(q)
    PROVE  TunnelInv'
<1>1. TunnelGood(page) /\ (page.stream => page.realtime)
  BY DEF TunnelInv
<1>2. TunnelGood(q)
  BY <1>1 DEF TunnelGood, SameRequests
<1> QED
  BY <1>1, <1>2, RenderKeeps DEF TunnelInv, Tunnel!Here, SameRequests

LEMMA LogStepKeeps == TunnelInv /\ Tunnel!Log => TunnelInv'
<1> SUFFICES ASSUME TunnelInv, Tunnel!Log PROVE TunnelInv'
  OBVIOUS
<1>1. Tunnel!Here /\ route' = route
  BY DEF Tunnel!Log, Tunnel!AskForFile, Tunnel!FileAnswered, Tunnel!ClearAnswered,
         Tunnel!ClearDisplay, Tunnel!RealtimeOn, Tunnel!RealtimeOff, Tunnel!LiveLine,
         Tunnel!LiveStatus, Tunnel!StreamDies
<1>2. /\ TunnelGood(page) /\ page \in Tunnel!TunnelPage
      /\ page.stream => page.realtime
  BY <1>1 DEF TunnelInv, TunnelGood
<1>3. CASE Tunnel!AskForFile
  <2>1. PICK q : /\ q = [page EXCEPT !.triggered = TRUE, !.files = page.files + 1]
                 /\ Tunnel!Render(q)
    BY <1>3 DEF Tunnel!AskForFile
  <2>2. page.files + 1 \in 0..MaxFiles /\ page.files + 1 > 0
    BY <1>2, <1>3, Bounds DEF Tunnel!AskForFile, Tunnel!TunnelPage
  <2>3. SameRequests(q) /\ q.files = page.files + 1
    BY Zenon, <1>2, <2>1, <2>2 DEF SameRequests, Tunnel!TunnelPage
  <2> QED
    BY Zenon, <1>1, <1>2, <2>1, <2>2, <2>3, LogKeeps
<1>4. CASE Tunnel!FileAnswered
  <2>1. PICK q, lines : /\ lines \in {"none", "file"}
                        /\ q = [page EXCEPT !.files = page.files - 1, !.lines = lines]
                        /\ Tunnel!Render(q)
    BY Zenon, <1>4 DEF Tunnel!FileAnswered
  <2>2. page.files - 1 \in 0..MaxFiles
    BY <1>2, <1>4, Bounds DEF Tunnel!FileAnswered, Tunnel!TunnelPage
  <2>3. SameRequests(q) /\ q.lines # "live"
    BY Zenon, <1>2, <2>1, <2>2 DEF SameRequests, Tunnel!TunnelPage
  <2> QED
    BY Zenon, <1>1, <1>2, <2>1, <2>3, LogKeeps
<1>5. CASE Tunnel!ClearDisplay
  <2>1. PICK q : q = [page EXCEPT !.lines = "none"] /\ Tunnel!Render(q)
    BY <1>5 DEF Tunnel!ClearDisplay
  <2>2. SameRequests(q) /\ q.lines # "live"
    BY <1>2, <2>1 DEF SameRequests, Tunnel!TunnelPage
  <2> QED
    BY Zenon, <1>1, <1>2, <2>1, <2>2, LogKeeps
<1>6. CASE Tunnel!RealtimeOn
  <2>1. PICK q : q = [page EXCEPT !.realtime = TRUE, !.lines = "none"] /\ Tunnel!Render(q)
    BY <1>6 DEF Tunnel!RealtimeOn
  <2>2. SameRequests(q) /\ q.lines # "live"
    BY Zenon, <1>2, <2>1 DEF SameRequests, Tunnel!TunnelPage
  <2> QED
    BY Zenon, <1>1, <1>2, <2>1, <2>2, LogKeeps
<1>7. CASE Tunnel!RealtimeOff
  <2>1. PICK q, m : /\ m = Tunnel!Atmost(page.files + 1)
                    /\ q = [page EXCEPT !.realtime = FALSE, !.triggered = TRUE, !.files = m]
                    /\ Tunnel!Render(q)
    BY Zenon, <1>7 DEF Tunnel!RealtimeOff
  <2>2. m \in 0..MaxFiles /\ m > 0
    BY <1>2, <2>1, Bounds DEF Tunnel!Atmost, Tunnel!TunnelPage
  <2>3. SameRequests(q) /\ q.files = m
    BY Zenon, <1>2, <2>1, <2>2 DEF SameRequests, Tunnel!TunnelPage
  <2> QED
    BY Zenon, <1>1, <1>2, <2>1, <2>2, <2>3, LogKeeps
<1>8. CASE Tunnel!LiveLine
  <2>1. PICK q : q = [page EXCEPT !.lines = "live"] /\ Tunnel!Render(q)
    BY <1>8 DEF Tunnel!LiveLine
  <2>2. SameRequests(q) /\ q.realtime
    BY Zenon, <1>2, <1>8, <2>1 DEF SameRequests, Tunnel!TunnelPage, Tunnel!LiveLine
  <2> QED
    BY Zenon, <1>1, <1>2, <2>1, <2>2, LogKeeps
<1>9. CASE Tunnel!LiveStatus
  <2>1. PICK q, status : /\ status \in {"success", "danger"}
                         /\ q = [page EXCEPT !.info = status] /\ Tunnel!Render(q)
    BY <1>9 DEF Tunnel!LiveStatus
  <2>2. SameRequests(q) /\ (q.lines = "live" /\ ~q.realtime => q.files > 0)
    BY <1>2, <2>1 DEF SameRequests, Tunnel!TunnelPage, TunnelGood
  <2> QED
    BY Zenon, <1>1, <1>2, <2>1, <2>2, LogKeeps
<1>10. CASE Tunnel!StreamDies
  <2>1. page' = [page EXCEPT !.stream = FALSE]
    BY <1>10 DEF Tunnel!StreamDies
  <2> QED
    BY Zenon, <1>1, <1>2, <2>1 DEF TunnelInv, TunnelGood, Tunnel!TunnelPage
<1>11. CASE Tunnel!ClearAnswered
  BY <1>11, ClearAnsweredKeeps
<1> QED
  BY <1>3, <1>4, <1>5, <1>6, <1>7, <1>8, <1>9, <1>10, <1>11 DEF Tunnel!Log

LEMMA TunnelStep == TunnelInv /\ Tunnel!DetailsNext => TunnelInv'
<1> SUFFICES ASSUME TunnelInv, Tunnel!DetailsNext PROVE TunnelInv'
  OBVIOUS
<1>1. CASE Tunnel!Charts
  BY <1>1 DEF Tunnel!Charts, TunnelInv, Tunnel!Here
<1>2. CASE Tunnel!StatusAnswered("start", "success") \/ Tunnel!StatusAnswered("stop", "danger")
  BY <1>2, StatusAnsweredKeeps
<1> QED
  BY <1>1, <1>2, PressKeeps, DetailsAnsweredKeeps, RefreshAnsweredKeeps, DeleteAnsweredKeeps,
     ExportAnsweredKeeps, PolicyAnsweredKeeps, ResetAnsweredKeeps, LogStepKeeps
     DEF Tunnel!DetailsNext

-----------------------------------------------------------------------------
(* The page of a service                                                   *)

\* The page in the state p is typed, an action has the service it was pressed for, and
\* each spinner has a request.
ServiceGood(p) ==
    /\ p \in Service!ServicePage
    /\ p.post = Service!NoPost \/ p.post.of \in Services
    /\ p.loading => p.first \/ \E k \in 1..MaxRefresh : p.run[k].pc = "service"
    /\ p.tunnelLoading => p.asked # {}
                          \/ \E k \in 1..MaxRefresh : p.run[k].pc \in {"client", "server"}
    /\ p.refreshing =>
          \E k \in 1..MaxRefresh : p.run[k].pc \in {"service", "client", "server"}

ServiceInv == Service!Here => ServiceGood(page)

LEMMA ServiceTypes ==
    /\ \A s \in Services : /\ s.client \in Ids /\ s.server \in Ids \cup {NoId}
                           /\ s # NoService
                           /\ Service!AsksFor(s) \subseteq {"client", "server"} \X Ids
                           /\ Service!AsksFor(s) # {}
    /\ Service!Idle \in Service!Runs
    /\ \A pc \in {"service", "client", "server"}, s \in Services :
          [pc |-> pc, of |-> s] \in Service!Runs
    /\ \A r \in Service!Runs : r = Service!Idle \/ r.of \in Services
<1>1. \A s \in Services : s.client \in Ids /\ s.server \in Ids \cup {NoId} /\ s # NoService
  BY PagesAssumption
<1>2. \A s \in Services : /\ Service!AsksFor(s) \subseteq {"client", "server"} \X Ids
                          /\ Service!AsksFor(s) # {}
  <2> SUFFICES ASSUME NEW s \in Services
               PROVE  /\ Service!AsksFor(s) \subseteq {"client", "server"} \X Ids
                      /\ Service!AsksFor(s) # {}
    OBVIOUS
  <2>1. <<"client", s.client>> \in {"client", "server"} \X Ids
    BY <1>1
  <2>2. s.server # NoId => <<"server", s.server>> \in {"client", "server"} \X Ids
    BY <1>1
  <2> QED
    BY <2>1, <2>2 DEF Service!AsksFor
<1> QED
  BY <1>1, <1>2 DEF Service!Idle, Service!Runs

LEMMA ServiceAppears == ServiceGood(Service!ServiceShown)
<1>1. Service!NoPost \in [op : Service!Actions \cup {"none"}, of : Services \cup {NoService}]
  BY DEF Service!NoPost, Service!Actions
<1>2. [k \in 1..MaxRefresh |-> Service!Idle] \in [1..MaxRefresh -> Service!Runs]
  BY ServiceTypes
<1> QED
  BY <1>1, <1>2 DEF ServiceGood, Service!ServiceShown, Service!ServicePage

\* What a service that comes makes of the page p whose slot k, if any, is at a client.
LEMMA BroughtKeeps ==
    ASSUME NEW p \in Service!ServicePage, NEW s \in Services, NEW q,
           q = Service!Brought(p, s),
           p.post = Service!NoPost \/ p.post.of \in Services,
           p.refreshing =>
              \E k \in 1..MaxRefresh : p.run[k].pc \in {"service", "client", "server"}
    PROVE  ServiceGood(q)
<1>1. PICK a \in SUBSET ({"client", "server"} \X Ids) :
         a = p.asked \cup Service!AsksFor(s) /\ a # {}
  <2>1. p.asked \in SUBSET ({"client", "server"} \X Ids)
    BY DEF Service!ServicePage
  <2>2. /\ Service!AsksFor(s) \subseteq {"client", "server"} \X Ids
        /\ Service!AsksFor(s) # {}
    BY ServiceTypes
  <2>3. /\ p.asked \cup Service!AsksFor(s) \in SUBSET ({"client", "server"} \X Ids)
        /\ p.asked \cup Service!AsksFor(s) # {}
    BY <2>1, <2>2
  <2> QED
    BY <2>3, Zenon
<1>2. q = [p EXCEPT !.service = s, !.asked = a, !.tunnelLoading = TRUE, !.loading = FALSE]
  BY <1>1 DEF Service!Brought
<1>3. /\ q \in Service!ServicePage /\ q.post = p.post /\ q.asked = a /\ ~q.loading
      /\ q.run = p.run /\ q.refreshing = p.refreshing
  BY Zenon, <1>1, <1>2 DEF Service!ServicePage
<1> QED
  BY <1>1, <1>3 DEF ServiceGood

LEMMA BeginsKeeps ==
    ASSUME NEW p, ServiceGood(p), NEW s \in Services, NEW k \in 1..MaxRefresh, NEW q,
           p.run[k] = Service!Idle, q = Service!Begins(p, k, s)
    PROVE  ServiceGood(q)
<1>1. PICK r : r = [p.run EXCEPT ![k] = [pc |-> "service", of |-> s]]
  BY Zenon
<1>2. p \in Service!ServicePage /\ p.run \in [1..MaxRefresh -> Service!Runs]
  BY DEF ServiceGood, Service!ServicePage
<1>3. /\ r \in [1..MaxRefresh -> Service!Runs] /\ r[k].pc = "service"
      /\ \A j \in 1..MaxRefresh : r[j] = p.run[j] \/ j = k
  BY Zenon, <1>1, <1>2, ServiceTypes
<1>4. q = [p EXCEPT !.run = r, !.refreshing = TRUE, !.loading = TRUE]
  BY <1>1 DEF Service!Begins
<1>5. /\ q \in Service!ServicePage /\ q.post = p.post /\ q.asked = p.asked /\ q.run = r
      /\ q.tunnelLoading = p.tunnelLoading
  BY Zenon, <1>2, <1>3, <1>4 DEF Service!ServicePage
<1> QED
  BY <1>3, <1>5 DEF ServiceGood, Service!Idle

LEMMA ServiceAnsweredKeeps == ServiceInv /\ Service!ServiceAnswered => ServiceInv'
<1> SUFFICES ASSUME ServiceInv, Service!ServiceAnswered PROVE ServiceInv'
  OBVIOUS
<1>1. ServiceGood(page)
  BY DEF ServiceInv, Service!ServiceAnswered
<1>2. PICK s, p : /\ s \in Services
                  /\ p = [page EXCEPT !.first = FALSE]
                  /\ page' = Service!Brought(p, s)
  <2>1. PICK s \in Services :
           page' = Service!Brought([page EXCEPT !.first = FALSE], s)
    BY DEF Service!ServiceAnswered, Service!Render
  <2> QED
    BY <2>1
<1>3. /\ p \in Service!ServicePage /\ p.post = page.post /\ p.run = page.run
      /\ p.refreshing = page.refreshing
  BY Zenon, <1>1, <1>2 DEF ServiceGood, Service!ServicePage
<1>4. /\ p.post = Service!NoPost \/ p.post.of \in Services
      /\ p.refreshing =>
            \E k \in 1..MaxRefresh : p.run[k].pc \in {"service", "client", "server"}
  BY <1>1, <1>3 DEF ServiceGood
<1> QED
  BY Zenon, <1>2, <1>3, <1>4, BroughtKeeps DEF ServiceInv

LEMMA TunnelAnsweredKeeps == ServiceInv /\ Service!TunnelAnswered => ServiceInv'
<1> SUFFICES ASSUME ServiceInv, Service!TunnelAnswered PROVE ServiceInv'
  OBVIOUS
<1>1. ServiceGood(page) /\ page \in Service!ServicePage
  BY DEF ServiceInv, ServiceGood, Service!TunnelAnswered
<1>2. PICK ask, p :
         /\ ask \in page.asked
         /\ p = [page EXCEPT !.asked = page.asked \ {ask}, !.tunnelLoading = FALSE]
         /\ page' = p \/ page' = Service!Tunnel(p, ask[1], ask[2])
  <2>1. PICK ask \in page.asked :
           LET p == [page EXCEPT !.asked = page.asked \ {ask}, !.tunnelLoading = FALSE]
           IN  page' = p \/ page' = Service!Tunnel(p, ask[1], ask[2])
    BY Zenon DEF Service!TunnelAnswered, Service!Render
  <2> QED
    BY Zenon, <2>1
<1>3. ask[2] \in Ids /\ page.asked \ {ask} \in SUBSET ({"client", "server"} \X Ids)
  BY <1>1, <1>2 DEF Service!ServicePage
<1>4. /\ p \in Service!ServicePage /\ p.post = page.post /\ p.run = page.run
      /\ p.refreshing = page.refreshing /\ p.loading = page.loading /\ p.first = page.first
      /\ ~p.tunnelLoading
  <2>1. p = [page EXCEPT !.asked = page.asked \ {ask}, !.tunnelLoading = FALSE]
    BY <1>2
  <2> QED
    BY Zenon, <1>1, <1>3, <2>1 DEF Service!ServicePage
<1>5. ServiceGood(p)
  BY <1>1, <1>4 DEF ServiceGood
<1>6. ASSUME NEW q, q = Service!Tunnel(p, ask[1], ask[2]) PROVE ServiceGood(q)
  BY <1>3, <1>4, <1>5, <1>6 DEF ServiceGood, Service!Tunnel, Service!ServicePage
<1> QED
  BY <1>2, <1>5, <1>6 DEF ServiceInv

LEMMA PressRefreshKeeps == ServiceInv /\ Service!PressRefresh => ServiceInv'
<1> SUFFICES ASSUME ServiceInv, Service!PressRefresh PROVE ServiceInv'
  OBVIOUS
<1>1. ServiceGood(page)
  BY DEF ServiceInv, Service!PressRefresh
<1>2. page.service \in Services
  BY <1>1 DEF ServiceGood, Service!ServicePage, Service!PressRefresh, Service!Visible
<1>3. PICK k \in 1..MaxRefresh : /\ page.run[k] = Service!Idle
                                 /\ page' = Service!Begins(page, k, page.service)
  BY DEF Service!PressRefresh, Service!Free, Service!Render
<1> QED
  BY <1>1, <1>2, <1>3, BeginsKeeps DEF ServiceInv

LEMMA RefreshServiceKeeps ==
    ASSUME ServiceInv, NEW k \in 1..MaxRefresh, Service!RefreshService(k)
    PROVE  ServiceInv'
<1>1. ServiceGood(page) /\ page \in Service!ServicePage /\ page.run[k].pc = "service"
  BY DEF ServiceInv, ServiceGood, Service!RefreshService
<1>2. PICK s, r, p :
         /\ s \in Services
         /\ r = [page.run EXCEPT ![k] = [page.run[k] EXCEPT !.pc = "client"]]
         /\ p = [page EXCEPT !.run = r]
         /\ page' = Service!Brought(p, s)
  BY Zenon DEF Service!RefreshService, Service!Render
<1>3. r \in [1..MaxRefresh -> Service!Runs] /\ r[k].pc = "client"
  <2>1. page.run \in [1..MaxRefresh -> Service!Runs]
    BY <1>1 DEF Service!ServicePage
  <2>2. page.run[k] \in [pc : {"service", "client", "server"}, of : Services]
    <3>1. page.run[k] \in Service!Runs
      BY Zenon, <2>1
    <3>2. page.run[k] # Service!Idle
      BY <1>1 DEF Service!Idle
    <3> QED
      BY <3>1, <3>2 DEF Service!Runs
  <2>3. [page.run[k] EXCEPT !.pc = "client"] \in Service!Runs
    BY <2>2 DEF Service!Runs
  <2>4. [page.run[k] EXCEPT !.pc = "client"].pc = "client"
    BY <2>2
  <2> QED
    BY Zenon, <1>2, <2>1, <2>3, <2>4
<1>4. /\ p \in Service!ServicePage /\ p.post = page.post /\ p.run = r
  BY Zenon, <1>1, <1>2, <1>3 DEF Service!ServicePage
<1>5. /\ p.post = Service!NoPost \/ p.post.of \in Services
      /\ p.refreshing =>
            \E j \in 1..MaxRefresh : p.run[j].pc \in {"service", "client", "server"}
  BY <1>1, <1>3, <1>4 DEF ServiceGood
<1> QED
  BY Zenon, <1>2, <1>4, <1>5, BroughtKeeps DEF ServiceInv

\* A tunnel that comes changes neither spinners nor requests.
LEMMA TunnelKeeps ==
    ASSUME NEW p, NEW type, NEW i \in Ids \cup {NoId}, NEW q,
           q = p \/ q = Service!Tunnel(p, type, i), p \in Service!ServicePage
    PROVE  /\ q \in Service!ServicePage /\ q.run = p.run /\ q.asked = p.asked
           /\ q.first = p.first /\ q.post = p.post /\ q.loading = p.loading
           /\ q.tunnelLoading = p.tunnelLoading /\ q.refreshing = p.refreshing
<1>1. CASE q = p
  BY <1>1
<1>2. CASE q = [p EXCEPT !.client = i]
  BY <1>2 DEF Service!ServicePage
<1>3. CASE q = [p EXCEPT !.server = i]
  BY <1>3 DEF Service!ServicePage
<1> QED
  BY <1>1, <1>2, <1>3 DEF Service!Tunnel

\* The run in slot k, which was not at the service, ends.
LEMMA EndsKeeps ==
    ASSUME NEW p, NEW p0, ServiceGood(p0), NEW k \in 1..MaxRefresh,
           p0.run[k].pc \in {"client", "server"},
           p \in Service!ServicePage, p.run = p0.run, p.first = p0.first, p.post = p0.post,
           p.loading = p0.loading, ~p.tunnelLoading, NEW q, q = Service!Ends(p, k)
    PROVE  ServiceGood(q)
<1>1. PICK r : r = [p.run EXCEPT ![k] = Service!Idle]
  BY Zenon
<1>2. q = [p EXCEPT !.run = r, !.refreshing = FALSE]
  BY <1>1 DEF Service!Ends
<1>3. r \in [1..MaxRefresh -> Service!Runs] /\ \A j \in 1..MaxRefresh \ {k} : r[j] = p.run[j]
  BY <1>1, ServiceTypes DEF Service!ServicePage
<1>4. /\ q \in Service!ServicePage /\ q.run = r /\ q.first = p.first /\ q.post = p.post
      /\ q.loading = p.loading /\ ~q.tunnelLoading /\ ~q.refreshing
  BY Zenon, <1>2, <1>3 DEF Service!ServicePage
<1> QED
  BY <1>3, <1>4 DEF ServiceGood

\* What slot k may hold while a run is in it.
LEMMA RunTypes ==
    ASSUME NEW p \in Service!ServicePage, NEW k \in 1..MaxRefresh,
           p.run[k].pc \in {"service", "client", "server"}
    PROVE  /\ p.run \in [1..MaxRefresh -> Service!Runs]
           /\ p.run[k] \in [pc : {"service", "client", "server"}, of : Services]
           /\ p.run[k].of \in Services
<1>1. p.run \in [1..MaxRefresh -> Service!Runs]
  BY DEF Service!ServicePage
<1>2. p.run[k] \in Service!Runs
  BY Zenon, <1>1
<1>3. p.run[k] # Service!Idle
  BY DEF Service!Idle
<1> QED
  BY <1>1, <1>2, <1>3 DEF Service!Runs

LEMMA RefreshClientKeeps ==
    ASSUME ServiceInv, NEW k \in 1..MaxRefresh, Service!RefreshClient(k)
    PROVE  ServiceInv'
<1>1. ServiceGood(page) /\ page \in Service!ServicePage /\ page.run[k].pc = "client"
  BY DEF ServiceInv, ServiceGood, Service!RefreshClient
<1>2. PICK s, p :
         /\ s = page.run[k].of
         /\ p = page \/ p = Service!Tunnel(page, "client", s.client)
         /\ page' = IF s.server = NoId THEN Service!Ends([p EXCEPT !.tunnelLoading = FALSE], k)
                    ELSE [p EXCEPT !.run[k].pc = "server", !.tunnelLoading = TRUE]
  BY Zenon DEF Service!RefreshClient, Service!Render
<1>3. s.client \in Ids
  BY <1>1, <1>2, RunTypes, ServiceTypes
<1>4. /\ p \in Service!ServicePage /\ p.run = page.run /\ p.asked = page.asked
      /\ p.first = page.first /\ p.post = page.post /\ p.loading = page.loading
      /\ p.tunnelLoading = page.tunnelLoading /\ p.refreshing = page.refreshing
  BY <1>1, <1>2, <1>3, TunnelKeeps
<1>5. CASE s.server = NoId
  <2>1. PICK d : d = [p EXCEPT !.tunnelLoading = FALSE]
    BY Zenon
  <2>2. /\ d \in Service!ServicePage /\ d.run = page.run /\ d.first = page.first
        /\ d.post = page.post /\ d.loading = page.loading /\ ~d.tunnelLoading
    BY Zenon, <1>4, <2>1 DEF Service!ServicePage
  <2>3. page' = Service!Ends(d, k)
    BY <1>2, <1>5, <2>1
  <2> QED
    BY <1>1, <2>2, <2>3, EndsKeeps DEF ServiceInv
<1>6. CASE s.server # NoId
  <2>1. PICK r : r = [p.run EXCEPT ![k] = [p.run[k] EXCEPT !.pc = "server"]]
    BY Zenon
  <2>2. page' = [p EXCEPT !.run = r, !.tunnelLoading = TRUE]
    BY <1>2, <1>6, <2>1
  <2>3. /\ r \in [1..MaxRefresh -> Service!Runs] /\ r[k].pc = "server"
        /\ \A j \in 1..MaxRefresh \ {k} : r[j] = page.run[j]
    <3>1. /\ p.run \in [1..MaxRefresh -> Service!Runs]
          /\ p.run[k] \in [pc : {"service", "client", "server"}, of : Services]
      BY <1>1, <1>4, RunTypes
    <3>2. [p.run[k] EXCEPT !.pc = "server"] \in Service!Runs
      BY <3>1 DEF Service!Runs
    <3>3. [p.run[k] EXCEPT !.pc = "server"].pc = "server"
      BY <3>1
    <3> QED
      BY Zenon, <1>4, <2>1, <3>1, <3>2, <3>3
  <2>4. p.loading => p.first \/ \E j \in 1..MaxRefresh : r[j].pc = "service"
    <3>1. p.loading => p.first \/ \E j \in 1..MaxRefresh : page.run[j].pc = "service"
      BY <1>1, <1>4 DEF ServiceGood
    <3>2. \A j \in 1..MaxRefresh : page.run[j].pc = "service" => r[j].pc = "service"
      BY <1>1, <2>3
    <3> QED
      BY <3>1, <3>2
  <2>5. ASSUME NEW q, q = page'
        PROVE  ServiceGood(q)
    <3>1. /\ q \in Service!ServicePage /\ q.run = r /\ q.first = p.first
          /\ q.post = p.post /\ q.loading = p.loading
      BY Zenon, <1>4, <2>2, <2>3, <2>5 DEF Service!ServicePage
    <3>2. q.post = Service!NoPost \/ q.post.of \in Services
      BY <1>1, <1>4, <3>1 DEF ServiceGood
    <3> QED
      BY <2>3, <2>4, <3>1, <3>2 DEF ServiceGood
  <2> QED
    BY <2>5 DEF ServiceInv
<1> QED
  BY <1>5, <1>6

LEMMA RefreshServerKeeps ==
    ASSUME ServiceInv, NEW k \in 1..MaxRefresh, Service!RefreshServer(k)
    PROVE  ServiceInv'
<1>1. ServiceGood(page) /\ page \in Service!ServicePage /\ page.run[k].pc = "server"
  BY DEF ServiceInv, ServiceGood, Service!RefreshServer
<1>2. PICK d, p : /\ d = [page EXCEPT !.tunnelLoading = FALSE]
                  /\ p = Service!Ends(d, k)
                  /\ page' = p \/ page' = Service!Tunnel(p, "server", page.run[k].of.server)
  BY DEF Service!RefreshServer, Service!Render
<1>3. page.run[k].of.server \in Ids \cup {NoId}
  BY <1>1, RunTypes, ServiceTypes
<1>4. /\ d \in Service!ServicePage /\ d.run = page.run /\ d.first = page.first
      /\ d.post = page.post /\ d.loading = page.loading /\ ~d.tunnelLoading
  BY Zenon, <1>1, <1>2 DEF Service!ServicePage
<1>5. ServiceGood(p)
  BY Zenon, <1>1, <1>2, <1>4, EndsKeeps
<1>6. ASSUME NEW q, q = page'
      PROVE  ServiceGood(q)
  <2>1. /\ q \in Service!ServicePage /\ q.run = p.run /\ q.asked = p.asked
        /\ q.first = p.first /\ q.post = p.post /\ q.loading = p.loading
        /\ q.tunnelLoading = p.tunnelLoading /\ q.refreshing = p.refreshing
    BY <1>2, <1>3, <1>5, <1>6, TunnelKeeps DEF ServiceGood
  <2> QED
    BY <1>5, <2>1 DEF ServiceGood
<1> QED
  BY <1>6 DEF ServiceInv

LEMMA PressActionKeeps ==
    ASSUME ServiceInv, NEW op \in Service!Actions, Service!PressAction(op)
    PROVE  ServiceInv'
<1>1. ServiceGood(page) /\ page \in Service!ServicePage
  BY DEF ServiceInv, ServiceGood, Service!PressAction
<1>2. PICK r : r = [op |-> op, of |-> page.service] /\ page' = [page EXCEPT !.post = r]
  BY Zenon DEF Service!PressAction, Service!Render
<1>3. /\ r \in [op : Service!Actions \cup {"none"}, of : Services \cup {NoService}]
      /\ r.of \in Services
  BY <1>1, <1>2 DEF Service!PressAction, Service!Visible, Service!ServicePage
<1> QED
  BY <1>1, <1>2, <1>3 DEF ServiceInv, ServiceGood, Service!ServicePage

LEMMA ActionAnsweredKeeps == ServiceInv /\ Service!ActionAnswered => ServiceInv'
<1> SUFFICES ASSUME ServiceInv, Service!ActionAnswered PROVE ServiceInv'
  OBVIOUS
<1>1. ServiceGood(page) /\ page \in Service!ServicePage
  BY DEF ServiceInv, ServiceGood, Service!ActionAnswered
<1>2. page.post.of \in Services
  BY <1>1 DEF ServiceGood, Service!ActionAnswered
<1>3. PICK p :
         /\ p = [page EXCEPT !.post = Service!NoPost]
         /\ \/ page' = p
            \/ \E k \in 1..MaxRefresh : /\ page.run[k] = Service!Idle
                                        /\ page' = Service!Begins(p, k, page.post.of)
  BY DEF Service!ActionAnswered, Service!Render, Service!Free
<1>4. Service!NoPost \in [op : Service!Actions \cup {"none"}, of : Services \cup {NoService}]
  BY DEF Service!NoPost, Service!Actions
<1>5. ServiceGood(p) /\ p.run = page.run
  BY <1>1, <1>3, <1>4 DEF ServiceGood, Service!ServicePage
<1> QED
  BY Zenon, <1>2, <1>3, <1>5, BeginsKeeps DEF ServiceInv

LEMMA ServiceStep == ServiceInv /\ Service!ServiceNext => ServiceInv'
<1> SUFFICES ASSUME ServiceInv, Service!ServiceNext PROVE ServiceInv'
  OBVIOUS
<1>1. CASE Service!Charts
  BY <1>1 DEF Service!Charts, ServiceInv, Service!Here
<1> QED
  BY <1>1, ServiceAnsweredKeeps, TunnelAnsweredKeeps, PressRefreshKeeps, RefreshServiceKeeps,
     RefreshClientKeeps, RefreshServerKeeps, PressActionKeeps, ActionAnsweredKeeps
     DEF Service!ServiceNext

-----------------------------------------------------------------------------
(* The list of tunnels                                                     *)

\* The list in the state p is typed, its spinner has a request, and the only debounce is
\* that of the text in the field.
TunnelsGood(p) ==
    /\ p \in Tunnels!TunnelsState
    /\ p.loading => p.fetches # {}
    /\ p.timers \subseteq {p.input}

TunnelsInv == Tunnels!Here => TunnelsGood(page)

\* The list is searched for what it was, for the text of the field, or for nothing.
Searched(p) == p.query.search \in {page.query.search, p.input, NoText}

LEMMA TunnelsAppears == TunnelsGood(Tunnels!TunnelsShown)
<1>1. Tunnels!FirstQuery \in Tunnels!Query
  BY PagesAssumption DEF Tunnels!FirstQuery, Tunnels!Query
<1> QED
  BY <1>1, PagesAssumption
     DEF TunnelsGood, Tunnels!TunnelsShown, Tunnels!TunnelsState, Tunnels!Post

LEMMA FetchingKeeps ==
    ASSUME NEW p, TunnelsGood(p), NEW q \in Tunnels!Query, NEW f, f = Tunnels!Fetching(p, q)
    PROVE  TunnelsGood(f) /\ f.query = p.query /\ f.input = p.input
<1>1. p \in Tunnels!TunnelsState /\ p.fetches \cup {q} \in SUBSET Tunnels!Query
  BY DEF TunnelsGood, Tunnels!TunnelsState
<1>2. PICK s \in SUBSET Tunnels!Query :
         s = p.fetches \cup {q} /\ f = [p EXCEPT !.fetches = s, !.loading = TRUE]
  BY Zenon, <1>1 DEF Tunnels!Fetching
<1> QED
  BY Zenon, <1>1, <1>2 DEF TunnelsGood, Tunnels!TunnelsState

LEMMA QueriedKeeps ==
    ASSUME NEW p, TunnelsGood(p), NEW q \in Tunnels!Query, NEW f, f = Tunnels!Queried(p, q)
    PROVE  TunnelsGood(f) /\ f.query = q /\ f.input = p.input
<1>1. CASE q = p.query
  BY <1>1 DEF Tunnels!Queried
<1>2. CASE q # p.query
  <2>1. PICK d : d = [p EXCEPT !.query = q]
    BY Zenon
  <2>2. TunnelsGood(d) /\ d.query = q /\ d.input = p.input
    BY <2>1 DEF TunnelsGood, Tunnels!TunnelsState
  <2> QED
    BY Zenon, <1>2, <2>1, <2>2, FetchingKeeps DEF Tunnels!Queried
<1> QED
  BY <1>1, <1>2

LEMMA TypedKeeps ==
    ASSUME NEW p, TunnelsGood(p), NEW text \in Texts, NEW f, f = Tunnels!Typed(p, text)
    PROVE  TunnelsGood(f) /\ f.query = p.query /\ f.input = text
<1>1. {text} \in SUBSET Texts
  OBVIOUS
<1> QED
  BY Zenon, <1>1 DEF TunnelsGood, Tunnels!TunnelsState, Tunnels!Typed

\* The queries a handler may make of the one before.
LEMMA QueryTypes ==
    ASSUME TunnelsGood(page), NEW view \in Views, NEW text \in Texts
    PROVE  /\ page.query \in Tunnels!Query /\ page.query.search \in Texts
           /\ [search |-> text, view |-> view] \in Tunnels!Query
           /\ [page.query EXCEPT !.view = view] \in Tunnels!Query
           /\ [page.query EXCEPT !.view = view].search = page.query.search
           /\ [page.query EXCEPT !.search = text] \in Tunnels!Query
           /\ [page.query EXCEPT !.search = text].search = text
  BY DEF TunnelsGood, Tunnels!TunnelsState, Tunnels!Query

\* A page that was not searched anew, and one whose new query is q.
LEMMA SameQuery ==
    ASSUME TunnelsGood(page'), page'.query = page.query
    PROVE  TunnelsGood(page') /\ Searched(page')
  BY DEF Searched

\* A page in the state t that shows another view.
LEMMA ViewedKeeps ==
    ASSUME TunnelsGood(page), NEW t, TunnelsGood(t), NEW view \in Views, NEW f,
           f = Tunnels!Queried(t, [page.query EXCEPT !.view = view])
    PROVE  TunnelsGood(f) /\ f.query.search = page.query.search
<1>1. /\ [page.query EXCEPT !.view = view] \in Tunnels!Query
      /\ [page.query EXCEPT !.view = view].search = page.query.search
  BY Zenon, QueryTypes, PagesAssumption
<1> DEFINE q == [page.query EXCEPT !.view = view]
<1>2. TunnelsGood(f) /\ f.query = q
  <2>1. q \in Tunnels!Query /\ f = Tunnels!Queried(t, q)
    BY <1>1
  <2> HIDE DEF q
  <2> QED
    BY <2>1, QueriedKeeps
<1> QED
  BY <1>1, <1>2

LEMMA SearchKeeps ==
    ASSUME TunnelsGood(page), NEW text \in Texts, Tunnels!Search(text)
    PROVE  TunnelsGood(page') /\ Searched(page')
<1>1. PICK t : /\ t = Tunnels!Typed(page, text)
               /\ \/ page' = t
                  \/ \E view \in Views :
                        page' = Tunnels!Queried(t, [page.query EXCEPT !.view = view])
  BY DEF Tunnels!Search, Tunnels!Render
<1>2. TunnelsGood(t) /\ t.query = page.query /\ t.input = text
  BY <1>1, TypedKeeps
<1>3. ASSUME NEW view \in Views,
             page' = Tunnels!Queried(t, [page.query EXCEPT !.view = view])
      PROVE  TunnelsGood(page') /\ page'.query.search = page.query.search
  BY <1>2, <1>3, ViewedKeeps
<1> QED
  BY Zenon, <1>1, <1>2, <1>3 DEF Searched

LEMMA DebouncedKeeps ==
    ASSUME TunnelsGood(page), Tunnels!Debounced
    PROVE  TunnelsGood(page') /\ Searched(page')
<1>1. PICK text \in page.timers :
         page' = Tunnels!Queried([page EXCEPT !.timers = page.timers \ {text}],
                                 [page.query EXCEPT !.search = text])
  BY Zenon DEF Tunnels!Debounced, Tunnels!Render
<1>2. text \in Texts /\ text = page.input /\ page.timers \ {text} \in SUBSET Texts
  BY DEF TunnelsGood, Tunnels!TunnelsState
<1>3. PICK d : d = [page EXCEPT !.timers = page.timers \ {text}]
  BY Zenon
<1>4. TunnelsGood(d) /\ d.input = page.input
  BY <1>2, <1>3 DEF TunnelsGood, Tunnels!TunnelsState
<1>5. PICK q \in Tunnels!Query :
         q = [page.query EXCEPT !.search = text] /\ q.search = text
  BY Zenon, <1>2, QueryTypes, PagesAssumption
<1>6. page' = Tunnels!Queried(d, q)
  BY <1>1, <1>3, <1>5
<1>7. TunnelsGood(page') /\ page'.query = q /\ page'.input = d.input
  BY <1>4, <1>6, QueriedKeeps
<1> QED
  BY <1>2, <1>4, <1>5, <1>7 DEF Searched

LEMMA ClearKeeps ==
    ASSUME TunnelsGood(page), Tunnels!ClearSearch
    PROVE  TunnelsGood(page') /\ Searched(page')
<1>1. PICK view \in Views :
         page' = Tunnels!Queried(Tunnels!Typed(page, NoText), [search |-> NoText, view |-> view])
  BY DEF Tunnels!ClearSearch, Tunnels!Render
<1>2. TunnelsGood(Tunnels!Typed(page, NoText))
  BY TypedKeeps, PagesAssumption
<1>3. [search |-> NoText, view |-> view] \in Tunnels!Query
  BY Zenon, QueryTypes, PagesAssumption
<1>4. TunnelsGood(page') /\ page'.query = [search |-> NoText, view |-> view]
  BY <1>1, <1>2, <1>3, QueriedKeeps
<1> QED
  BY <1>4 DEF Searched

LEMMA ViewKeeps ==
    ASSUME TunnelsGood(page), Tunnels!ChangeView \/ Tunnels!Reset
    PROVE  TunnelsGood(page') /\ Searched(page')
<1>1. PICK view \in Views, q \in Tunnels!Query : /\ page' = Tunnels!Queried(page, q)
                                                 /\ q.search \in {page.query.search, NoText}
  <2>1. PICK view \in Views :
           \/ page' = Tunnels!Queried(page, [page.query EXCEPT !.view = view])
           \/ page' = Tunnels!Queried(page, [search |-> NoText, view |-> view])
    BY Zenon DEF Tunnels!ChangeView, Tunnels!Reset, Tunnels!Render
  <2>2. /\ [page.query EXCEPT !.view = view] \in Tunnels!Query
        /\ [page.query EXCEPT !.view = view].search = page.query.search
        /\ [search |-> NoText, view |-> view] \in Tunnels!Query
    BY Zenon, QueryTypes, PagesAssumption
  <2> QED
    BY Zenon, <2>1, <2>2
<1>2. TunnelsGood(page') /\ page'.query = q
  BY <1>1, QueriedKeeps
<1> QED
  BY <1>1, <1>2 DEF Searched

LEMMA ListAnsweredKeeps ==
    ASSUME TunnelsGood(page), Tunnels!ListAnswered
    PROVE  TunnelsGood(page') /\ Searched(page')
<1>1. PICK s, d : /\ s \in SUBSET page.fetches
                  /\ d = [page EXCEPT !.fetches = s, !.loading = FALSE]
                  /\ \/ page' = d
                     \/ \E view \in Views :
                           page' = Tunnels!Queried(d, [page.query EXCEPT !.view = view])
  <2>1. PICK q \in page.fetches :
           LET d == [page EXCEPT !.fetches = page.fetches \ {q}, !.loading = FALSE]
           IN  \/ page' = d
               \/ \E view \in Views :
                     page' = Tunnels!Queried(d, [page.query EXCEPT !.view = view])
    BY Zenon DEF Tunnels!ListAnswered, Tunnels!Render
  <2>2. page.fetches \ {q} \in SUBSET page.fetches
    OBVIOUS
  <2> QED
    BY Zenon, <2>1, <2>2
<1>2. s \in SUBSET Tunnels!Query
  BY <1>1 DEF TunnelsGood, Tunnels!TunnelsState
<1>3. TunnelsGood(d) /\ d.query = page.query
  BY Zenon, <1>1, <1>2 DEF TunnelsGood, Tunnels!TunnelsState
<1>4. ASSUME NEW view \in Views,
             page' = Tunnels!Queried(d, [page.query EXCEPT !.view = view])
      PROVE  TunnelsGood(page') /\ page'.query.search = page.query.search
  BY <1>3, <1>4, ViewedKeeps
<1> QED
  BY Zenon, <1>1, <1>3, <1>4 DEF Searched

\* A handler on the rows: the query stays.
LEMMA RowsKeep ==
    ASSUME TunnelsGood(page),
           \/ Tunnels!Select \/ Tunnels!PressRow \/ Tunnels!PressBatch
           \/ Tunnels!OpenDeletion \/ Tunnels!CloseDeletion \/ Tunnels!ConfirmDeletion
           \/ Tunnels!PostAnswered \/ Tunnels!PressRefresh
    PROVE  TunnelsGood(page') /\ page'.query = page.query
<1>1. page \in Tunnels!TunnelsState /\ page.query \in Tunnels!Query
  BY DEF TunnelsGood, Tunnels!TunnelsState
<1>2. CASE Tunnels!PressRefresh
  <2>1. page' = Tunnels!Fetching(page, page.query)
    BY <1>2 DEF Tunnels!PressRefresh, Tunnels!Render
  <2> QED
    BY <1>1, <2>1, FetchingKeeps
<1>3. CASE Tunnels!Select
  <2>1. PICK selected \in BOOLEAN : page' = [page EXCEPT !.selected = selected]
    BY <1>3 DEF Tunnels!Select, Tunnels!Render
  <2> QED
    BY <1>1, <2>1 DEF TunnelsGood, Tunnels!TunnelsState
<1>4. CASE Tunnels!PressRow \/ Tunnels!PressBatch
  <2>1. page' = [page EXCEPT !.post = [op |-> "operate", of |-> page.query]]
    BY <1>4 DEF Tunnels!PressRow, Tunnels!PressBatch, Tunnels!Render, Tunnels!Posting
  <2>2. [op |-> "operate", of |-> page.query] \in Tunnels!Post
    BY <1>1 DEF Tunnels!Post
  <2> QED
    BY <1>1, <2>1, <2>2 DEF TunnelsGood, Tunnels!TunnelsState
<1>5. CASE Tunnels!OpenDeletion \/ Tunnels!CloseDeletion
  <2>1. PICK b \in BOOLEAN : page' = [page EXCEPT !.dialog = b]
    BY Zenon, <1>5 DEF Tunnels!OpenDeletion, Tunnels!CloseDeletion, Tunnels!Render
  <2> QED
    BY <1>1, <2>1 DEF TunnelsGood, Tunnels!TunnelsState
<1>6. CASE Tunnels!ConfirmDeletion
  <2>1. PICK d : /\ d = [page EXCEPT !.dialog = FALSE]
                 /\ page' = [d EXCEPT !.post = [op |-> "delete", of |-> d.query]]
    BY Zenon, <1>6 DEF Tunnels!ConfirmDeletion, Tunnels!Render, Tunnels!Posting
  <2>2. TunnelsGood(d) /\ d.query = page.query
    BY Zenon, <1>1, <2>1 DEF TunnelsGood, Tunnels!TunnelsState
  <2>3. [op |-> "delete", of |-> d.query] \in Tunnels!Post
    BY <1>1, <2>2 DEF Tunnels!Post
  <2> QED
    BY Zenon, <2>1, <2>2, <2>3 DEF TunnelsGood, Tunnels!TunnelsState
<1>7. CASE Tunnels!PostAnswered
  <2>1. page.post.of \in Tunnels!Query
    BY <1>1, <1>7 DEF Tunnels!PostAnswered, Tunnels!TunnelsState, Tunnels!Post
  <2>2. PICK d, e :
           /\ d = [page EXCEPT !.post = Tunnels!NoPost]
           /\ e = [d EXCEPT !.selected = d.selected /\ page.post.op # "delete"]
           /\ page' = d \/ page' = Tunnels!Fetching(e, page.post.of)
    BY Zenon, <1>7 DEF Tunnels!PostAnswered, Tunnels!Render
  <2>3. TunnelsGood(d) /\ d.query = page.query
    <3>1. Tunnels!NoPost \in Tunnels!Post
      BY DEF Tunnels!Post
    <3> QED
      BY <1>1, <2>2, <3>1 DEF TunnelsGood, Tunnels!TunnelsState
  <2>4. TunnelsGood(e) /\ e.query = page.query
    BY Zenon, <2>2, <2>3 DEF TunnelsGood, Tunnels!TunnelsState
  <2>5. CASE page' = d
    BY <2>3, <2>5
  <2>6. CASE page' = Tunnels!Fetching(e, page.post.of)
    <3>1. TunnelsGood(page') /\ page'.query = e.query
      BY <2>1, <2>4, <2>6, FetchingKeeps
    <3> QED
      BY <2>4, <3>1
  <2> QED
    BY <2>2, <2>5, <2>6
<1> QED
  BY <1>2, <1>3, <1>4, <1>5, <1>6, <1>7

LEMMA TunnelsStep ==
    ASSUME TunnelsInv, Tunnels!TunnelsNext
    PROVE  TunnelsInv' /\ Searched(page') /\ Tunnels!Here /\ route' = route
<1>1. Tunnels!Here /\ route' = route
  BY Zenon DEF Tunnels!TunnelsNext, Tunnels!Render, Tunnels!Search, Tunnels!Debounced,
         Tunnels!ClearSearch, Tunnels!ChangeView, Tunnels!Reset, Tunnels!PressRefresh,
         Tunnels!ListAnswered, Tunnels!Select, Tunnels!PressRow, Tunnels!PressBatch,
         Tunnels!OpenDeletion, Tunnels!CloseDeletion, Tunnels!ConfirmDeletion,
         Tunnels!PostAnswered
<1>2. TunnelsGood(page)
  BY <1>1 DEF TunnelsInv
<1>3. TunnelsGood(page') /\ Searched(page')
  <2>1. CASE \/ Tunnels!Select \/ Tunnels!PressRow \/ Tunnels!PressBatch
             \/ Tunnels!OpenDeletion \/ Tunnels!CloseDeletion \/ Tunnels!ConfirmDeletion
             \/ Tunnels!PostAnswered \/ Tunnels!PressRefresh
    BY <1>2, <2>1, RowsKeep DEF Searched
  <2> QED
    BY <1>2, <2>1, SearchKeeps, DebouncedKeeps, ClearKeeps, ViewKeeps, ListAnsweredKeeps
       DEF Tunnels!TunnelsNext
<1> QED
  BY <1>1, <1>3 DEF TunnelsInv
-----------------------------------------------------------------------------
(* The list of endpoints, the page of one, and the change of a key         *)

Refreshing == {"refetch", "fetch", "update"}

ListGood(p) ==
    /\ p \in Endpoints!ListPage
    /\ p.loading => p.asked > 0
    /\ p.submitting => p.op \in {"validate", "import"}

EndpointGood(p) ==
    /\ p \in Endpoints!EndpointPage
    /\ \A k \in Endpoints!Kinds : p.busy[k] => p.asked[k] > 0

\* A change c of the key whose page is shown refreshes it with a request of that page:
\* the page r in the state p.
ChangeGood(c, r, p) ==
    /\ c \in Endpoints!Rekey
    /\ c.here /\ c.from = "list" =>
          r = "endpoints" /\ (c.step \in Refreshing => p.asked > 0)
    /\ c.here /\ c.from = "details" =>
          r = "endpoint" /\ (c.step \in Refreshing => p.asked["detail"] > 0)

EndpointsInv ==
    /\ Endpoints!InList => ListGood(page)
    /\ Endpoints!InDetails => EndpointGood(page)
    /\ ChangeGood(rekey, route, page)

LEMMA EndpointsAppear == ListGood(Endpoints!ListShown) /\ EndpointGood(Endpoints!EndpointShown)
<1>1. 1 \in 0..MaxFetches
  BY Bounds
<1>2. ListGood(Endpoints!ListShown)
  BY <1>1 DEF ListGood, Endpoints!ListShown, Endpoints!ListPage
<1>3. EndpointGood(Endpoints!EndpointShown)
  <2>1. /\ [k \in Endpoints!Kinds |-> TRUE] \in [Endpoints!Kinds -> BOOLEAN]
        /\ [k \in Endpoints!Kinds |-> 1] \in [Endpoints!Kinds -> 0..MaxFetches]
    BY <1>1
  <2> QED
    BY <2>1 DEF EndpointGood, Endpoints!EndpointShown, Endpoints!EndpointPage
<1> QED
  BY <1>2, <1>3

LEMMA ListingKeeps ==
    ASSUME NEW p, ListGood(p), p.asked < MaxFetches, NEW f, f = Endpoints!Listing(p)
    PROVE  ListGood(f) /\ f.asked = p.asked + 1 /\ f.asked > 0
<1>1. p.asked + 1 \in 0..MaxFetches /\ p.asked + 1 > 0
  BY Bounds DEF ListGood, Endpoints!ListPage
<1> QED
  BY Zenon, <1>1 DEF ListGood, Endpoints!ListPage, Endpoints!Listing

LEMMA ListedKeeps ==
    ASSUME NEW p, ListGood(p), p.asked > 0, NEW f, f = Endpoints!Listed(p)
    PROVE  ListGood(f) /\ f.asked = p.asked - 1
<1>1. p.asked - 1 \in 0..MaxFetches
  BY Bounds DEF ListGood, Endpoints!ListPage
<1> QED
  BY Zenon, <1>1 DEF ListGood, Endpoints!ListPage, Endpoints!Listed

LEMMA AskingKeeps ==
    ASSUME NEW p, EndpointGood(p), NEW k \in Endpoints!Kinds, p.asked[k] < MaxFetches,
           NEW f, f = Endpoints!Asking(p, k)
    PROVE  EndpointGood(f) /\ f.asked[k] > 0 /\ (p.asked["detail"] > 0 => f.asked["detail"] > 0)
<1>1. /\ p \in Endpoints!EndpointPage
      /\ p.asked[k] + 1 \in 0..MaxFetches
      /\ p.asked[k] + 1 > 0
  BY Bounds DEF EndpointGood, Endpoints!EndpointPage
<1>2. PICK b : b = [p.busy EXCEPT ![k] = TRUE]
  BY Zenon
<1>a. PICK a : a = [p.asked EXCEPT ![k] = p.asked[k] + 1]
  BY Zenon
<1>b. f = [p EXCEPT !.busy = b, !.asked = a]
  BY <1>1, <1>2, <1>a DEF Endpoints!Asking, Endpoints!EndpointPage
<1>c. b \in [Endpoints!Kinds -> BOOLEAN] /\ a \in [Endpoints!Kinds -> 0..MaxFetches]
  BY <1>1, <1>2, <1>a DEF Endpoints!EndpointPage
<1>3. \A j \in Endpoints!Kinds : b[j] => a[j] > 0
  BY <1>1, <1>2, <1>a, <1>c DEF EndpointGood, Endpoints!EndpointPage
<1>4. a[k] > 0 /\ (p.asked["detail"] > 0 => a["detail"] > 0)
  BY <1>1, <1>2, <1>a, <1>c DEF Endpoints!Kinds, Endpoints!EndpointPage
<1> QED
  BY Zenon, <1>1, <1>b, <1>c, <1>3, <1>4 DEF EndpointGood, Endpoints!EndpointPage

LEMMA HeardKeeps ==
    ASSUME NEW p, EndpointGood(p), NEW k \in Endpoints!Kinds, p.asked[k] > 0,
           NEW f, f = Endpoints!Heard(p, k)
    PROVE  EndpointGood(f) /\ f.asked = [p.asked EXCEPT ![k] = p.asked[k] - 1]
<1>1. p \in Endpoints!EndpointPage /\ p.asked[k] - 1 \in 0..MaxFetches
  BY Bounds DEF EndpointGood, Endpoints!EndpointPage
<1>2. PICK b : b = [p.busy EXCEPT ![k] = FALSE]
  BY Zenon
<1>a. PICK a : a = [p.asked EXCEPT ![k] = p.asked[k] - 1]
  BY Zenon
<1>b. f = [p EXCEPT !.busy = b, !.asked = a]
  BY <1>1, <1>2, <1>a DEF Endpoints!Heard, Endpoints!EndpointPage
<1>c. b \in [Endpoints!Kinds -> BOOLEAN] /\ a \in [Endpoints!Kinds -> 0..MaxFetches]
  BY <1>1, <1>2, <1>a DEF Endpoints!EndpointPage
<1>3. \A j \in Endpoints!Kinds : b[j] => a[j] > 0
  BY <1>1, <1>2, <1>a, <1>c DEF EndpointGood, Endpoints!EndpointPage
<1> QED
  BY Zenon, <1>1, <1>a, <1>b, <1>c, <1>3 DEF EndpointGood, Endpoints!EndpointPage

\* The handlers of the list leave a request of the change under way.
LEMMA ListKeeps ==
    ASSUME EndpointsInv,
           \/ Endpoints!PressRefresh \/ Endpoints!ListAnswered \/ Endpoints!ListOpAnswered
           \/ \E op \in Endpoints!ListOps : Endpoints!PressInList(op)
    PROVE  EndpointsInv'
<1>1. route = "endpoints" /\ route' = route /\ rekey' = rekey
  BY Zenon DEF Endpoints!PressRefresh, Endpoints!ListAnswered, Endpoints!ListOpAnswered,
         Endpoints!PressInList, Endpoints!InList
<1>2. ListGood(page) /\ page \in Endpoints!ListPage /\ page.asked \in Nat
  BY <1>1 DEF EndpointsInv, Endpoints!InList, ListGood, Endpoints!ListPage
<1>3. SUFFICES ListGood(page')
               /\ (rekey.here /\ rekey.from = "list" /\ rekey.step \in Refreshing =>
                      page'.asked > 0)
  BY <1>1 DEF EndpointsInv, ChangeGood, Endpoints!InList, Endpoints!InDetails
<1>4. CASE Endpoints!PressRefresh
  BY <1>2, <1>4, ListingKeeps DEF Endpoints!PressRefresh
<1>5. CASE Endpoints!ListAnswered
  <2>1. /\ page.asked > 0
        /\ rekey.here /\ rekey.step \in Refreshing => page.asked > 1
    BY <1>2, <1>5 DEF Endpoints!ListAnswered, Refreshing
  <2>2. ListGood(page') /\ page'.asked = page.asked - 1
    BY <1>2, <1>5, <2>1, ListedKeeps DEF Endpoints!ListAnswered
  <2> QED
    BY <1>2, <2>1, <2>2
<1>6. CASE Endpoints!ListOpAnswered
  <2>1. PICK d : /\ d = [page EXCEPT !.op = "none", !.submitting = FALSE]
                 /\ \/ page' = d
                    \/ page.asked < MaxFetches /\ page' = Endpoints!Listing(d)
                    \/ page' = [d EXCEPT !.reload = TRUE]
    BY Zenon, <1>6 DEF Endpoints!ListOpAnswered
  <2>2. ListGood(d) /\ d \in Endpoints!ListPage /\ d.asked = page.asked
    BY Zenon, <1>2, <2>1 DEF ListGood, Endpoints!ListPage
  <2>3. CASE page.asked < MaxFetches /\ page' = Endpoints!Listing(d)
    BY <2>2, <2>3, ListingKeeps
  <2>4. CASE page' = [d EXCEPT !.reload = TRUE]
    <3>1. ListGood(page') /\ page'.asked = page.asked
      BY Zenon, <2>2, <2>4 DEF ListGood, Endpoints!ListPage
    <3> QED
      BY <1>1, <3>1 DEF EndpointsInv, ChangeGood
  <2>5. CASE page' = d
    BY <1>1, <2>2, <2>5 DEF EndpointsInv, ChangeGood
  <2> QED
    BY <2>1, <2>3, <2>4, <2>5
<1>7. ASSUME NEW op \in Endpoints!ListOps, Endpoints!PressInList(op)
      PROVE  ListGood(page') /\ page'.asked = page.asked
  <2>1. CASE op \in {"validate", "import"}
    <3>1. page' = [page EXCEPT !.op = op, !.submitting = TRUE]
      BY Zenon, <1>7, <2>1 DEF Endpoints!PressInList
    <3> QED
      BY Zenon, <1>2, <2>1, <3>1 DEF ListGood, Endpoints!ListPage
  <2>2. CASE op \notin {"validate", "import"}
    <3>1. (op \in {"validate", "import"}) = FALSE
      BY <2>2
    <3>2. page' = [page EXCEPT !.op = op, !.submitting = FALSE]
      BY Zenon, <1>7, <3>1 DEF Endpoints!PressInList
    <3> QED
      BY Zenon, <1>2, <3>2 DEF ListGood, Endpoints!ListPage
  <2> QED
    BY <2>1, <2>2
<1>8. (\E op \in Endpoints!ListOps : Endpoints!PressInList(op)) =>
         ListGood(page') /\ page'.asked = page.asked
  BY <1>7
<1> QED
  BY <1>1, <1>4, <1>5, <1>6, <1>8 DEF EndpointsInv, ChangeGood

LEMMA ReloadKeeps ==
    ASSUME EndpointsInv, Endpoints!Reload
    PROVE  EndpointsInv'
<1>1. route = "endpoints" /\ route' = route /\ page' = Endpoints!ListShown
  BY DEF Endpoints!Reload, Endpoints!InList
<1>2. ChangeGood(rekey', route', page')
  <2>1. rekey \in Endpoints!Rekey
    BY DEF EndpointsInv, ChangeGood
  <2>2. CASE rekey.step \in Endpoints!Steps
    <3>1. rekey' = [rekey EXCEPT !.here = FALSE, !.step = "reloaded"]
      BY <2>2 DEF Endpoints!Reload
    <3> QED
      BY Zenon, <2>1, <3>1 DEF ChangeGood, Endpoints!Rekey, Endpoints!Ends
  <2>3. CASE rekey.step \notin Endpoints!Steps
    BY <1>1, <2>3, <2>1 DEF EndpointsInv, Endpoints!Reload, ChangeGood, Endpoints!Steps, Refreshing
  <2> QED
    BY <2>2, <2>3
<1> QED
  BY <1>1, <1>2, EndpointsAppear DEF EndpointsInv, Endpoints!InDetails

\* So do those of the page of an endpoint.
LEMMA DetailsKeep ==
    ASSUME EndpointsInv,
           \/ Endpoints!RefreshAll \/ Endpoints!DetailOpAnswered
           \/ \E k \in Endpoints!Kinds : Endpoints!DataAnswered(k)
           \/ \E op \in Endpoints!DetailOps : Endpoints!PressInDetails(op)
    PROVE  EndpointsInv'
<1>1. route = "endpoint" /\ route' = route /\ rekey' = rekey
  BY DEF Endpoints!RefreshAll, Endpoints!DetailOpAnswered, Endpoints!DataAnswered,
         Endpoints!PressInDetails, Endpoints!InDetails
<1>2. EndpointGood(page) /\ page \in Endpoints!EndpointPage
  BY <1>1 DEF EndpointsInv, Endpoints!InDetails, EndpointGood
<1> DEFINE MoreAsked(p) == rekey.here /\ rekey.from = "details" /\ rekey.step \in Refreshing
                          => p.asked["detail"] > 0
<1>3. SUFFICES EndpointGood(page') /\ MoreAsked(page')
  BY <1>1 DEF EndpointsInv, ChangeGood, Endpoints!InList, Endpoints!InDetails
<1>4. MoreAsked(page)
  BY DEF EndpointsInv, ChangeGood
<1>5. CASE Endpoints!RefreshAll
  <2>1. PICK b \in [Endpoints!Kinds -> BOOLEAN], a \in [Endpoints!Kinds -> 0..MaxFetches] :
           /\ \A k \in Endpoints!Kinds : a[k] > 0
           /\ page' = [page EXCEPT !.busy = b, !.asked = a]
    <3>1. \A k \in Endpoints!Kinds :
             page.asked[k] + 1 \in 0..MaxFetches /\ page.asked[k] + 1 > 0
      BY <1>2, <1>5, Bounds DEF Endpoints!RefreshAll, Endpoints!EndpointPage
    <3>2. page' = [page EXCEPT !.busy = [k \in Endpoints!Kinds |-> TRUE],
                               !.asked = [k \in Endpoints!Kinds |-> page.asked[k] + 1]]
      BY <1>5 DEF Endpoints!RefreshAll
    <3>3. /\ [k \in Endpoints!Kinds |-> TRUE] \in [Endpoints!Kinds -> BOOLEAN]
          /\ [k \in Endpoints!Kinds |-> page.asked[k] + 1] \in [Endpoints!Kinds -> 0..MaxFetches]
      BY <3>1
    <3> QED
      BY Zenon, <3>1, <3>2, <3>3
  <2>2. "detail" \in Endpoints!Kinds
    BY DEF Endpoints!Kinds
  <2> QED
    BY Zenon, <1>2, <2>1, <2>2 DEF EndpointGood, Endpoints!EndpointPage
<1>6. CASE Endpoints!DetailOpAnswered
  <2>1. PICK d : d = [page EXCEPT !.op = "none"]
    BY Zenon
  <2>2. /\ EndpointGood(d)
        /\ d.asked = page.asked
    BY <1>2, <2>1 DEF EndpointGood, Endpoints!EndpointPage
  <2>3. PICK k \in Endpoints!Kinds :
           \/ page' = d
           \/ page.asked[k] < MaxFetches /\ page' = Endpoints!Asking(d, k)
    BY <1>6, <2>1 DEF Endpoints!DetailOpAnswered, Endpoints!Kinds
  <2>4. CASE page' = d
    BY <1>4, <2>2, <2>4
  <2>5. CASE page.asked[k] < MaxFetches /\ page' = Endpoints!Asking(d, k)
    <3>1. EndpointGood(page') /\ (d.asked["detail"] > 0 => page'.asked["detail"] > 0)
      BY <2>2, <2>5, AskingKeeps
    <3> QED
      BY <1>4, <2>2, <3>1
  <2> QED
    BY <2>3, <2>4, <2>5
<1>7. ASSUME NEW k \in Endpoints!Kinds, Endpoints!DataAnswered(k)
      PROVE  EndpointGood(page') /\ MoreAsked(page')
  <2>1. /\ page.asked[k] > 0
        /\ k = "detail" /\ rekey.here /\ rekey.step \in Refreshing => page.asked[k] > 1
        /\ page.asked[k] \in Nat
    BY <1>2, <1>7 DEF Endpoints!DataAnswered, Refreshing, Endpoints!EndpointPage
  <2>2. /\ EndpointGood(page')
        /\ page'.asked = [page.asked EXCEPT ![k] = page.asked[k] - 1]
    BY <1>2, <1>7, <2>1, HeardKeeps DEF Endpoints!DataAnswered
  <2> QED
    BY <1>2, <1>4, <2>1, <2>2 DEF Endpoints!EndpointPage, Endpoints!Kinds
<1>8. ASSUME NEW op \in Endpoints!DetailOps, Endpoints!PressInDetails(op)
      PROVE  EndpointGood(page') /\ MoreAsked(page')
  <2>1. page' = [page EXCEPT !.op = op]
    BY <1>8 DEF Endpoints!PressInDetails
  <2>2. EndpointGood(page') /\ page'.asked = page.asked
    BY <1>2, <2>1 DEF EndpointGood, Endpoints!EndpointPage
  <2> QED
    BY <1>4, <2>2
<1> QED
  BY <1>5, <1>6, <1>7, <1>8

\* The steps of the change itself.
LEMMA ChangeAsks ==
    ASSUME EndpointsInv, NEW step \in Endpoints!Steps, Endpoints!Asks(step), route' = route
    PROVE  EndpointsInv'
<1>1. rekey \in Endpoints!Rekey /\ rekey' = [rekey EXCEPT !.step = step]
  BY DEF EndpointsInv, ChangeGood, Endpoints!Asks
<1>2. /\ rekey' \in Endpoints!Rekey
      /\ rekey'.here = rekey.here /\ rekey'.from = rekey.from
      /\ rekey.from \in {"list", "details"} /\ rekey.here \in BOOLEAN
  BY <1>1 DEF Endpoints!Rekey
<1>3. CASE ~rekey.here
  <2>1. page' = page
    BY <1>3 DEF Endpoints!Asks
  <2> QED
    BY <1>2, <1>3, <2>1 DEF EndpointsInv, ChangeGood, Endpoints!InList, Endpoints!InDetails
<1>4. CASE rekey.here /\ rekey.from = "list"
  <2>1. /\ route = "endpoints" /\ ListGood(page)
        /\ page.asked < MaxFetches /\ page' = Endpoints!Listing(page)
    BY <1>4 DEF EndpointsInv, ChangeGood, Endpoints!Asks, Endpoints!InList
  <2>2. ListGood(page') /\ page'.asked > 0
    BY <2>1, ListingKeeps
  <2> QED
    BY <1>2, <1>4, <2>1, <2>2 DEF EndpointsInv, ChangeGood, Endpoints!InList, Endpoints!InDetails
<1>5. CASE rekey.here /\ rekey.from = "details"
  <2>1. /\ route = "endpoint" /\ EndpointGood(page)
        /\ page.asked["detail"] < MaxFetches /\ page' = Endpoints!Asking(page, "detail")
    BY <1>5 DEF EndpointsInv, ChangeGood, Endpoints!Asks, Endpoints!InDetails
  <2>2. "detail" \in Endpoints!Kinds
    BY DEF Endpoints!Kinds
  <2>3. EndpointGood(page') /\ page'.asked["detail"] > 0
    BY <2>1, <2>2, AskingKeeps
  <2> QED
    BY <1>2, <1>5, <2>1, <2>3 DEF EndpointsInv, ChangeGood, Endpoints!InList, Endpoints!InDetails
<1> QED
  BY <1>2, <1>3, <1>4, <1>5

LEMMA ChangeGoesOn ==
    ASSUME EndpointsInv, NEW step \in (Endpoints!Steps \cup Endpoints!Ends) \ Refreshing,
           Endpoints!GoesOn(step), route' = route
    PROVE  EndpointsInv'
<1>1. /\ rekey \in Endpoints!Rekey /\ rekey' = [rekey EXCEPT !.step = step]
      /\ page' = page
  BY DEF EndpointsInv, ChangeGood, Endpoints!GoesOn
<1>2. /\ rekey' \in Endpoints!Rekey /\ rekey'.step = step
      /\ rekey'.here = rekey.here /\ rekey'.from = rekey.from
  BY <1>1 DEF Endpoints!Rekey
<1> QED
  BY <1>1, <1>2 DEF EndpointsInv, ChangeGood, Endpoints!InList, Endpoints!InDetails

LEMMA ChangeRefreshes ==
    ASSUME EndpointsInv, NEW step \in Endpoints!Steps,
           NEW next \in (Endpoints!Steps \cup Endpoints!Ends) \ Refreshing,
           Endpoints!Refreshes(step, next), route' = route
    PROVE  EndpointsInv'
<1>1. Endpoints!Asks(step) \/ Endpoints!GoesOn(next)
  BY DEF Endpoints!Refreshes, Endpoints!GoesOn
<1> QED
  BY <1>1, ChangeAsks, ChangeGoesOn

LEMMA ChangeRefreshed ==
    ASSUME EndpointsInv, NEW step \in Refreshing,
           NEW next \in (Endpoints!Steps \cup Endpoints!Ends) \ Refreshing,
           Endpoints!Refreshed(step, next), route' = route
    PROVE  EndpointsInv'
<1>1. /\ rekey \in Endpoints!Rekey /\ rekey' = [rekey EXCEPT !.step = next]
      /\ rekey.step = step
  BY DEF EndpointsInv, ChangeGood, Endpoints!Refreshed
<1>2. /\ rekey' \in Endpoints!Rekey /\ rekey'.step = next
      /\ rekey'.here = rekey.here /\ rekey'.from = rekey.from
      /\ rekey.from \in {"list", "details"} /\ rekey.here \in BOOLEAN
  BY <1>1 DEF Endpoints!Rekey
<1>3. CASE ~rekey.here
  <2>1. page' = page
    BY <1>3 DEF Endpoints!Refreshed
  <2> QED
    BY <1>2, <1>3, <2>1 DEF EndpointsInv, ChangeGood, Endpoints!InList, Endpoints!InDetails
<1>4. CASE rekey.here /\ rekey.from = "list"
  <2>1. /\ route = "endpoints" /\ ListGood(page)
        /\ page.asked > 0 /\ page' = Endpoints!Listed(page)
    BY <1>1, <1>4 DEF EndpointsInv, ChangeGood, Endpoints!Refreshed, Endpoints!InList
  <2>2. ListGood(page')
    BY <2>1, ListedKeeps
  <2> QED
    BY <1>2, <1>4, <2>1, <2>2 DEF EndpointsInv, ChangeGood, Endpoints!InList, Endpoints!InDetails
<1>5. CASE rekey.here /\ rekey.from = "details"
  <2>1. /\ route = "endpoint" /\ EndpointGood(page)
        /\ page.asked["detail"] > 0 /\ page' = Endpoints!Heard(page, "detail")
    BY <1>1, <1>5 DEF EndpointsInv, ChangeGood, Endpoints!Refreshed, Endpoints!InDetails
  <2>2. "detail" \in Endpoints!Kinds
    BY DEF Endpoints!Kinds
  <2>3. EndpointGood(page')
    BY <2>1, <2>2, HeardKeeps
  <2> QED
    BY <1>2, <1>5, <2>1, <2>3 DEF EndpointsInv, ChangeGood, Endpoints!InList, Endpoints!InDetails
<1> QED
  BY <1>2, <1>3, <1>4, <1>5

LEMMA RekeyKeeps ==
    ASSUME EndpointsInv, Endpoints!RekeyNext
    PROVE  EndpointsInv' /\ route' = route
<1>1. route' = route
  BY DEF Endpoints!RekeyNext, Endpoints!DisconnectAnswered, Endpoints!KeyAnswered,
         Endpoints!TimerFires, Endpoints!ConnectAnswered, Endpoints!RefreshAnswered
<1>2. /\ {"key", "timer", "connect", "none"}
             \subseteq (Endpoints!Steps \cup Endpoints!Ends) \ Refreshing
      /\ Refreshing \subseteq Endpoints!Steps
      /\ Refreshing = {"refetch", "fetch", "update"}
  BY DEF Endpoints!Steps, Endpoints!Ends, Refreshing
<1>3. \/ \E step \in {"key", "timer", "connect", "none"} : Endpoints!GoesOn(step)
      \/ \E step \in Refreshing, next \in {"key", "timer", "connect", "none"} :
            Endpoints!Refreshes(step, next) \/ Endpoints!Refreshed(step, next)
  BY <1>2 DEF Endpoints!RekeyNext, Endpoints!DisconnectAnswered, Endpoints!KeyAnswered,
         Endpoints!TimerFires, Endpoints!ConnectAnswered, Endpoints!RefreshAnswered
<1>4. ASSUME NEW step \in {"key", "timer", "connect", "none"}, Endpoints!GoesOn(step)
      PROVE  EndpointsInv'
  BY <1>1, <1>2, <1>4, ChangeGoesOn
<1>5. ASSUME NEW step \in Refreshing, NEW next \in {"key", "timer", "connect", "none"},
             Endpoints!Refreshes(step, next) \/ Endpoints!Refreshed(step, next)
      PROVE  EndpointsInv'
  BY <1>1, <1>2, <1>5, ChangeRefreshes, ChangeRefreshed
<1> QED
  BY <1>1, <1>3, <1>4, <1>5

LEMMA BeginKeeps ==
    ASSUME EndpointsInv, Endpoints!BeginRekey
    PROVE  EndpointsInv'
<1>1. PICK from \in {"list", "details"} :
         /\ rekey' = [from |-> from, here |-> TRUE, step |-> "disconnect"]
         /\ from = "list" => route = "endpoints"
         /\ from = "details" => route = "endpoint"
  BY DEF Endpoints!BeginRekey, Endpoints!InList, Endpoints!InDetails
<1>2. rekey' \in Endpoints!Rekey /\ rekey'.step \notin Refreshing
  BY <1>1 DEF Endpoints!Rekey, Endpoints!Steps, Refreshing
<1>3. route' = route /\ page' = page
  BY DEF Endpoints!BeginRekey
<1> QED
  BY <1>1, <1>2, <1>3 DEF EndpointsInv, ChangeGood, Endpoints!InList, Endpoints!InDetails

LEMMA EndpointsStep ==
    ASSUME EndpointsInv, Endpoints!EndpointsNext \/ Endpoints!RekeyNext
    PROVE  EndpointsInv' /\ route' = route
<1>1. Endpoints!EndpointsNext => route' = route
  BY DEF Endpoints!EndpointsNext, Endpoints!PressRefresh, Endpoints!ListAnswered,
         Endpoints!ListOpAnswered, Endpoints!Reload, Endpoints!PressInList, Endpoints!RefreshAll,
         Endpoints!DataAnswered, Endpoints!PressInDetails, Endpoints!DetailOpAnswered,
         Endpoints!BeginRekey
<1> QED
  BY <1>1, ListKeeps, ReloadKeeps, DetailsKeep, RekeyKeeps, BeginKeeps DEF Endpoints!EndpointsNext

\* The page is left: the change goes on without it.
LEMMA ChangeLeft ==
    ASSUME rekey \in Endpoints!Rekey, NEW r, NEW p
    PROVE  /\ ChangeGood(Endpoints!RekeyLeft, r, p) /\ ChangeGood(Endpoints!NoRekey, r, p)
           /\ rekey.from = "details" => Endpoints!RekeyLeft.step = rekey.step
           /\ Endpoints!RekeyLeft.from = rekey.from
<1>1. ~rekey.here => Endpoints!RekeyLeft = rekey
  BY DEF Endpoints!RekeyLeft
<1>2. rekey.here =>
         \E step \in {rekey.step, "none"} :
            /\ Endpoints!RekeyLeft = [rekey EXCEPT !.here = FALSE, !.step = step]
            /\ rekey.from = "details" => step = rekey.step
  BY DEF Endpoints!RekeyLeft
<1>3. ~Endpoints!NoRekey.here /\ Endpoints!NoRekey \in Endpoints!Rekey
  BY DEF Endpoints!NoRekey, Endpoints!Rekey, Endpoints!Ends
<1>4. "none" \in Endpoints!Steps \cup Endpoints!Ends
  BY DEF Endpoints!Ends
<1> QED
  BY <1>1, <1>2, <1>3, <1>4 DEF ChangeGood, Endpoints!Rekey

\* What the actions of the pages make of the change.
LEMMA ChangeStays ==
    ASSUME Endpoints!EndpointsNext
    PROVE  rekey' = rekey \/ Endpoints!Reload \/ Endpoints!BeginRekey
  BY Zenon
     DEF Endpoints!EndpointsNext, Endpoints!PressRefresh, Endpoints!ListAnswered,
         Endpoints!ListOpAnswered, Endpoints!PressInList, Endpoints!RefreshAll,
         Endpoints!DataAnswered, Endpoints!PressInDetails, Endpoints!DetailOpAnswered

LEMMA ChangeNext ==
    ASSUME Endpoints!RekeyNext, rekey.from = "details", rekey.step \in {"fetch", "timer"}
    PROVE  rekey' = [rekey EXCEPT !.step = "timer"] \/ rekey' = [rekey EXCEPT !.step = "connect"]
<1>1. CASE Endpoints!TimerFires
  BY <1>1 DEF Endpoints!TimerFires, Endpoints!GoesOn
<1>2. CASE Endpoints!RefreshAnswered
  BY <1>2 DEF Endpoints!RefreshAnswered, Endpoints!Refreshed
<1> QED
  BY <1>1, <1>2 DEF Endpoints!RekeyNext, Endpoints!DisconnectAnswered, Endpoints!KeyAnswered,
     Endpoints!ConnectAnswered

\* A new key that was sent is followed by the request to connect.
LEMMA KeyStep ==
    ASSUME EndpointsInv, Endpoints!EndpointsNext \/ Endpoints!RekeyNext,
           rekey.from = "details", rekey.step \in {"fetch", "timer"}
    PROVE  rekey'.step \in {"fetch", "timer", "connect", "reloaded"}
<1>1. rekey \in Endpoints!Rekey /\ rekey.step \in Endpoints!Steps
      /\ rekey.step \notin Endpoints!Ends
  BY DEF EndpointsInv, ChangeGood, Endpoints!Steps, Endpoints!Ends
<1>2. \A s : [rekey EXCEPT !.step = s].step = s
             /\ [rekey EXCEPT !.here = FALSE, !.step = s].step = s
  BY <1>1 DEF Endpoints!Rekey
<1>3. CASE Endpoints!EndpointsNext
  <2>1. ~Endpoints!BeginRekey
    BY <1>1 DEF Endpoints!BeginRekey
  <2>2. Endpoints!Reload => rekey'.step = "reloaded"
    BY <1>1, <1>2 DEF Endpoints!Reload
  <2> QED
    BY <1>3, <2>1, <2>2, ChangeStays
<1>4. CASE Endpoints!RekeyNext
  BY <1>2, <1>4, ChangeNext
<1> QED
  BY <1>3, <1>4

-----------------------------------------------------------------------------
(* The list of services                                                    *)

\* Only the order of the last drag is being saved, and that only while cards cannot be
\* dragged; the server has no later one.
CardsGood(p) ==
    /\ p \in ServiceList!ServicesState
    /\ p.loading => p.asked > 0
    /\ p.sorting => p.saves = {p.dragged}
    /\ ~p.sorting => p.saves = {}
    /\ p.saved <= p.dragged

CardsInv == ServiceList!Here => CardsGood(page)

LEMMA CardsAppear == CardsGood(ServiceList!ServicesShown)
<1>1. 1 \in 0..MaxLists /\ 0 \in ServiceList!Orders /\ 0 <= 0
  BY Bounds DEF ServiceList!Orders
<1> QED
  BY <1>1 DEF CardsGood, ServiceList!ServicesShown, ServiceList!ServicesState

LEMMA CardsListing ==
    ASSUME NEW p, CardsGood(p), p.asked < MaxLists, NEW f, f = ServiceList!Listing(p)
    PROVE  CardsGood(f) /\ f.saved = p.saved
<1>1. p.asked + 1 \in 0..MaxLists /\ p.asked + 1 > 0
  BY Bounds DEF CardsGood, ServiceList!ServicesState
<1> QED
  BY Zenon, <1>1 DEF CardsGood, ServiceList!ServicesState, ServiceList!Listing

\* A request for the list, an answer, a search or an action.
LEMMA CardsKeep ==
    ASSUME CardsGood(page),
           \/ ServiceList!PressRefresh \/ ServiceList!ServicesAnswered \/ ServiceList!Search
           \/ ServiceList!PressAction \/ ServiceList!ActionAnswered
    PROVE  CardsGood(page') /\ page'.saved = page.saved
<1>1. page \in ServiceList!ServicesState
  BY DEF CardsGood
<1>2. CASE ServiceList!PressRefresh
  BY <1>2, CardsListing DEF ServiceList!PressRefresh, ServiceList!Render
<1>3. CASE ServiceList!ServicesAnswered
  <2>1. PICK b \in BOOLEAN :
           page' = [page EXCEPT !.asked = page.asked - 1, !.loading = FALSE, !.listed = b]
    BY Zenon, <1>3 DEF ServiceList!ServicesAnswered, ServiceList!Render
  <2>a. page.asked > 0
    BY <1>3 DEF ServiceList!ServicesAnswered
  <2>2. page.asked - 1 \in 0..MaxLists
    BY <1>1, <2>a, Bounds DEF ServiceList!ServicesState
  <2> QED
    BY Zenon, <2>1, <2>2 DEF CardsGood, ServiceList!ServicesState
<1>4. CASE ServiceList!Search
  <2>1. PICK b \in BOOLEAN : page' = [page EXCEPT !.searched = b]
    BY <1>4 DEF ServiceList!Search, ServiceList!Render
  <2> QED
    BY <2>1 DEF CardsGood, ServiceList!ServicesState
<1>5. CASE ServiceList!PressAction
  <2>1. page' = [page EXCEPT !.posted = TRUE]
    BY <1>5 DEF ServiceList!PressAction, ServiceList!Render
  <2> QED
    BY Zenon, <2>1 DEF CardsGood, ServiceList!ServicesState
<1>6. CASE ServiceList!ActionAnswered
  <2>1. PICK d : d = [page EXCEPT !.posted = FALSE]
    BY Zenon
  <2>2. CardsGood(d) /\ d.asked = page.asked /\ d.saved = page.saved
    BY Zenon, <2>1 DEF CardsGood, ServiceList!ServicesState
  <2>3. page' = d \/ (page.asked < MaxLists /\ page' = ServiceList!Listing(d))
    BY <1>6, <2>1 DEF ServiceList!ActionAnswered, ServiceList!Render
  <2> QED
    BY <2>2, <2>3, CardsListing
<1> QED
  BY <1>2, <1>3, <1>4, <1>5, <1>6

LEMMA DragKeeps ==
    ASSUME CardsGood(page), ServiceList!Drag
    PROVE  CardsGood(page') /\ page'.saved = page.saved
<1>1. PICK n : n = page.dragged + 1
  OBVIOUS
<1>2. /\ page \in ServiceList!ServicesState
      /\ ~page.sorting /\ page.saves = {} /\ page.saved \in Nat /\ page.saved <= page.dragged
      /\ n \in ServiceList!Orders /\ page.dragged \in Nat
  BY <1>1, Bounds DEF CardsGood, ServiceList!ServicesState, ServiceList!Drag,
                      ServiceList!DragEnabled, ServiceList!Orders
<1>3. page.saved <= n
  BY <1>1, <1>2
<1>4. page.saves \cup {n} = {n} /\ {n} \in SUBSET ServiceList!Orders
  BY <1>2
<1>5. page' = [page EXCEPT !.sorting = TRUE, !.dragged = n, !.saves = {n}]
  BY Zenon, <1>1, <1>4 DEF ServiceList!Drag, ServiceList!Render
<1> QED
  BY Zenon, <1>2, <1>3, <1>4, <1>5 DEF CardsGood, ServiceList!ServicesState

LEMMA SaveAnsweredKeeps ==
    ASSUME CardsGood(page), ServiceList!SaveAnswered
    PROVE  CardsGood(page') /\ page'.saved >= page.saved
<1>1. PICK n \in page.saves :
         \/ page' = [page EXCEPT !.saves = page.saves \ {n}, !.sorting = FALSE, !.saved = n]
         \/ /\ page.asked < MaxLists
            /\ page' = ServiceList!Listing([page EXCEPT !.saves = page.saves \ {n},
                                                        !.sorting = FALSE])
  BY Zenon DEF ServiceList!SaveAnswered, ServiceList!Render
<1>2. /\ page \in ServiceList!ServicesState
      /\ page.saved \in Nat /\ page.saved <= page.dragged /\ page.dragged \in Nat
      /\ page.saves = {page.dragged}
  BY <1>1, Bounds DEF CardsGood, ServiceList!ServicesState, ServiceList!Orders
<1>3. n = page.dragged /\ n \in ServiceList!Orders /\ page.saves \ {n} = {} /\ n <= page.dragged
      /\ n >= page.saved
  BY <1>1, <1>2 DEF ServiceList!ServicesState
<1>4. PICK d : d = [page EXCEPT !.saves = {}, !.sorting = FALSE]
  OBVIOUS
<1>5. CardsGood(d) /\ d.asked = page.asked /\ d.saved = page.saved /\ d.dragged = page.dragged
      /\ d.sorting = FALSE
  BY Zenon, <1>2, <1>4 DEF CardsGood, ServiceList!ServicesState
<1>6. CASE page' = [d EXCEPT !.saved = n]
  <2>1. CardsGood(page') /\ page'.saved = n
    BY <1>3, <1>5, <1>6 DEF CardsGood, ServiceList!ServicesState
  <2> QED
    BY <1>3, <2>1
<1>7. CASE page.asked < MaxLists /\ page' = ServiceList!Listing(d)
  <2>1. CardsGood(page') /\ page'.saved = page.saved
    BY <1>5, <1>7, CardsListing
  <2> QED
    BY <1>2, <2>1
<1> QED
  BY Zenon, <1>1, <1>3, <1>4, <1>6, <1>7

LEMMA CardsStep ==
    ASSUME CardsInv, ServiceList!ServicesNext
    PROVE  /\ CardsInv' /\ ServiceList!Here /\ route' = route
           /\ page'.saved >= page.saved
<1>1. ServiceList!Here /\ route' = route
  BY Zenon
     DEF ServiceList!ServicesNext, ServiceList!Render, ServiceList!PressRefresh,
         ServiceList!ServicesAnswered, ServiceList!Search, ServiceList!Drag,
         ServiceList!SaveAnswered, ServiceList!PressAction, ServiceList!ActionAnswered
<1>2. CardsGood(page) /\ page.saved \in Nat
  BY <1>1, Bounds DEF CardsInv, CardsGood, ServiceList!ServicesState, ServiceList!Orders
<1>3. CardsGood(page') /\ page'.saved >= page.saved
  BY <1>2, CardsKeep, DragKeeps, SaveAnsweredKeeps DEF ServiceList!ServicesNext
<1> QED
  BY <1>1, <1>3 DEF CardsInv

-----------------------------------------------------------------------------
(* The dashboard                                                           *)

BoardGood(p) ==
    /\ p \in Board!DashboardState
    /\ p.loading => \E k \in 1..MaxRounds : p.rounds[k] > 0

BoardInv == Board!Here => BoardGood(page)

LEMMA BoardAppears == BoardGood(Board!DashboardShown)
<1>1. [k \in 1..MaxRounds |-> IF k = 1 THEN 1 ELSE 0] \in [1..MaxRounds -> 0..5]
  OBVIOUS
<1>2. 1 \in 1..MaxRounds /\ [k \in 1..MaxRounds |-> IF k = 1 THEN 1 ELSE 0][1] > 0
  BY Bounds
<1> QED
  BY <1>1, <1>2 DEF BoardGood, Board!DashboardShown, Board!DashboardState

LEMMA RoundKeeps ==
    ASSUME BoardGood(page), NEW k \in 1..MaxRounds, Board!RoundGoesOn(k)
    PROVE  BoardGood(page')
<1>a. page \in Board!DashboardState /\ page.rounds[k] > 0
  BY DEF BoardGood, Board!RoundGoesOn
<1>1. page.rounds \in [1..MaxRounds -> 0..5] /\ page.rounds[k] \in 1..5
  BY <1>a, Bounds DEF Board!DashboardState
<1>2. CASE Board!Requests[page.rounds[k]] # "logs"
  <2>1. page.rounds[k] + 1 \in 0..5 /\ page.rounds[k] + 1 > 0
    BY <1>a, <1>1, <1>2 DEF Board!Requests
  <2>2. PICK r : r = [page.rounds EXCEPT ![k] = page.rounds[k] + 1]
    BY Zenon
  <2>3. r \in [1..MaxRounds -> 0..5] /\ r[k] > 0
    BY <1>1, <2>1, <2>2, Bounds
  <2>4. page' = [page EXCEPT !.rounds = r]
    BY <1>2, <2>2 DEF Board!RoundGoesOn, Board!Render
  <2> QED
    BY <1>a, <1>1, <2>3, <2>4 DEF BoardGood, Board!DashboardState
<1>3. CASE Board!Requests[page.rounds[k]] = "logs"
  <2>1. PICK r : r = [page.rounds EXCEPT ![k] = 0]
    BY Zenon
  <2>2. r \in [1..MaxRounds -> 0..5]
    BY <1>a, <1>1, <2>1
  <2>3. PICK b \in BOOLEAN : page' = [page EXCEPT !.rounds = r, !.loading = FALSE, !.logs = b]
    BY Zenon, <1>a, <1>1, <1>3, <2>1 DEF Board!RoundGoesOn, Board!Render, Board!DashboardState
  <2> QED
    BY Zenon, <1>a, <1>1, <2>2, <2>3 DEF BoardGood, Board!DashboardState
<1> QED
  BY <1>2, <1>3

LEMMA BoardStep ==
    ASSUME BoardInv, Board!DashboardNext
    PROVE  BoardInv' /\ Board!Here /\ route' = route
<1>1. Board!Here /\ route' = route
  BY Zenon
     DEF Board!DashboardNext, Board!Render, Board!ChangeLanguage, Board!RoundGoesOn,
         Board!ConfirmClearLogs, Board!ClearAnswered
<1>2. BoardGood(page) /\ page \in Board!DashboardState
  BY <1>1 DEF BoardInv, BoardGood
<1>3. BoardGood(page')
  <2>1. CASE Board!ChangeLanguage
    <3>1. PICK k \in 1..MaxRounds : page' = [page EXCEPT !.rounds[k] = 1, !.loading = TRUE]
      BY Zenon, <2>1 DEF Board!ChangeLanguage, Board!Render
    <3>2. PICK r : r = [page.rounds EXCEPT ![k] = 1]
      BY Zenon
    <3>3. r \in [1..MaxRounds -> 0..5] /\ r[k] > 0
      BY <1>2, <3>2, Bounds DEF Board!DashboardState
    <3>4. page' = [page EXCEPT !.rounds = r, !.loading = TRUE]
      BY <3>1, <3>2
    <3> QED
      BY <1>2, <3>3, <3>4, Bounds DEF BoardGood, Board!DashboardState
  <2>2. CASE \E k \in 1..MaxRounds : Board!RoundGoesOn(k)
    BY <1>2, <2>2, RoundKeeps
  <2>3. CASE Board!ConfirmClearLogs
    <3>1. page' = [page EXCEPT !.clearing = TRUE]
      BY <2>3 DEF Board!ConfirmClearLogs, Board!Render
    <3> QED
      BY <1>2, <3>1 DEF BoardGood, Board!DashboardState
  <2>4. CASE Board!ClearAnswered
    <3>1. PICK b \in BOOLEAN : page' = [page EXCEPT !.clearing = FALSE, !.logs = b]
      BY Zenon, <1>2, <2>4 DEF Board!ClearAnswered, Board!Render, Board!DashboardState
    <3> QED
      BY <1>2, <3>1 DEF BoardGood, Board!DashboardState
  <2> QED
    BY <2>1, <2>2, <2>3, <2>4 DEF Board!DashboardNext
<1> QED
  BY <1>1, <1>3 DEF BoardInv

-----------------------------------------------------------------------------
(* The network test                                                        *)

\* The sequences whose request is under way.
Due(runs) == {k \in 1..MaxSequences : runs[k] \in {"first", "answer"}}

\* A request is sent only while results are missing, so each sequence but one may still
\* add one when all have come.
TestGood(t) ==
    /\ t \in Network!Test
    /\ t.index + Cardinality(Due(t.runs)) <= Tests + MaxSequences - 1
    /\ t.running => \E k \in 1..MaxSequences : t.runs[k] # "none"
    /\ t.first => \E k \in 1..MaxSequences : t.runs[k] = "first"

LEMMA DueBounds ==
    ASSUME NEW runs
    PROVE  /\ IsFiniteSet(Due(runs))
           /\ Cardinality(Due(runs)) \in Nat
           /\ Cardinality(Due(runs)) <= MaxSequences
<1>1. IsFiniteSet(1..MaxSequences) /\ Cardinality(1..MaxSequences) = MaxSequences
  BY Bounds, FS_Interval
<1>2. Due(runs) \subseteq 1..MaxSequences
  BY DEF Due
<1> QED
  BY <1>1, <1>2, FS_Subset, FS_CardinalityType

\* A sequence that waits for no request any more is not due, the others are as they were.
LEMMA DueLess ==
    ASSUME NEW runs \in [1..MaxSequences -> Network!Waits],
           NEW next \in [1..MaxSequences -> Network!Waits],
           \A k \in 1..MaxSequences : next[k] \in {"first", "answer"} => next[k] = runs[k]
    PROVE  Cardinality(Due(next)) <= Cardinality(Due(runs))
<1>1. Due(next) \subseteq Due(runs)
  BY DEF Due
<1> QED
  BY <1>1, DueBounds, FS_Subset

LEMMA DueAnswered ==
    ASSUME NEW runs \in [1..MaxSequences -> Network!Waits], NEW k \in Due(runs),
           NEW w \in {"timer", "none"}, NEW next, next = [runs EXCEPT ![k] = w]
    PROVE  Cardinality(Due(next)) = Cardinality(Due(runs)) - 1
<1>1. Due(next) = Due(runs) \ {k}
  BY DEF Due
<1> QED
  BY Zenon, <1>1, DueBounds, FS_RemoveElement

LEMMA ClosedGood == TestGood(Network!Closed)
<1>1. PICK runs : runs = [k \in 1..MaxSequences |-> "none"]
  BY Zenon
<1>2. runs \in [1..MaxSequences -> Network!Waits] /\ Due(runs) = {}
  BY <1>1 DEF Due, Network!Waits
<1>3. 0 \in Network!Counts /\ 0 \in 0..MaxSequences
  BY Bounds DEF Network!Counts
<1>4. Network!Closed \in Network!Test /\ Network!Closed.runs = runs
  BY <1>1, <1>2, <1>3 DEF Network!Closed, Network!Test
<1>5. 0 + Cardinality(Due(runs)) <= Tests + MaxSequences - 1
  BY <1>2, Bounds, FS_EmptySet
<1> QED
  BY Zenon, <1>4, <1>5 DEF TestGood, Network!Closed

\* A dialog that opens, or forgets its flags.
LEMMA OpenTestKeeps ==
    ASSUME TestGood(test), Network!OpenTest
    PROVE  TestGood(test')
<1>1. test' = [test EXCEPT !.open = TRUE]
  BY DEF Network!OpenTest
<1> QED
  BY Zenon, <1>1 DEF TestGood, Network!Test

\* runTestSequence in the state t.
LEMMA RunAsks ==
    ASSUME NEW t \in Network!Test, NEW k \in 1..MaxSequences, t.index < Tests,
           t.first => t.index = 0 \/ (\E j \in (1..MaxSequences) \ {k} : t.runs[j] = "first"),
           NEW f, f = Network!Asks(t, k)
    PROVE  TestGood(f)
<1>w. PICK w \in {"first", "answer"} :
         /\ t.index = 0 => w = "first"
         /\ f = [t EXCEPT !.runs = [t.runs EXCEPT ![k] = w]]
  BY Zenon DEF Network!Asks
<1>r. PICK r : r = [t.runs EXCEPT ![k] = w]
  OBVIOUS
<1>1. /\ w \in {"first", "answer"}
      /\ t.index = 0 => w = "first"
      /\ r = [t.runs EXCEPT ![k] = w]
      /\ f = [t EXCEPT !.runs = r]
  BY Zenon, <1>w, <1>r
<1>2. t.runs \in [1..MaxSequences -> Network!Waits] /\ t.index \in Nat
  BY Bounds DEF Network!Test, Network!Counts
<1>3. /\ r \in [1..MaxSequences -> Network!Waits]
      /\ r[k] = w /\ r[k] # "none"
      /\ \A j \in (1..MaxSequences) \ {k} : r[j] = t.runs[j]
  <2>1. w \in Network!Waits /\ w # "none" /\ r = [t.runs EXCEPT ![k] = w]
    BY <1>1 DEF Network!Waits
  <2> QED
    BY Zenon, <1>2, <2>1
<1>4. f \in Network!Test /\ f.runs = r /\ f.index = t.index /\ f.first = t.first
  BY Zenon, <1>1, <1>3 DEF Network!Test
<1>5. t.index + Cardinality(Due(r)) <= Tests + MaxSequences - 1
  BY <1>2, Bounds, DueBounds
<1>6. t.first => \E j \in 1..MaxSequences : r[j] = "first"
  BY <1>1, <1>3
<1> QED
  BY <1>3, <1>4, <1>5, <1>6 DEF TestGood

LEMMA StartKeeps ==
    ASSUME TestGood(test), Network!StartTest
    PROVE  TestGood(test')
<1>1. PICK k, half, t :
         /\ k \in 1..MaxSequences
         /\ half = [test EXCEPT !.started = TRUE, !.running = TRUE]
         /\ t = [half EXCEPT !.first = TRUE, !.index = 0]
         /\ test' = Network!Asks(t, k)
  BY Zenon DEF Network!StartTest
<1>2. 0 \in Network!Counts
  BY Bounds DEF Network!Counts
<1>3. half \in Network!Test
  BY Zenon, <1>1 DEF TestGood, Network!Test
<1>4. t \in Network!Test /\ t.index = 0
  BY Zenon, <1>1, <1>2, <1>3 DEF Network!Test
<1>5. t.index < Tests
  BY <1>4, Bounds
<1> QED
  BY Zenon, <1>1, <1>4, <1>5, RunAsks

LEMMA TestAnsweredKeeps ==
    ASSUME TestGood(test), NEW k \in 1..MaxSequences, Network!TestAnswered(k)
    PROVE  TestGood(test')
<1>1. /\ test \in Network!Test /\ test.index \in Nat
      /\ test.runs \in [1..MaxSequences -> Network!Waits]
      /\ k \in Due(test.runs)
      /\ test.index + Cardinality(Due(test.runs)) <= Tests + MaxSequences - 1
  BY Bounds DEF TestGood, Network!Test, Network!Counts, Due, Network!TestAnswered
<1>2. PICK b : b = (test.first /\ test.runs[k] # "first")
  OBVIOUS
<1>3. PICK t : t = [test EXCEPT !.first = b, !.index = test.index + 1]
  OBVIOUS
<1>4. Cardinality(Due(test.runs)) > 0
  BY <1>1, DueBounds, FS_EmptySet
<1>5. test.index + 1 \in Network!Counts
  BY <1>1, <1>4, Bounds, DueBounds DEF Network!Counts
<1>6. b \in BOOLEAN /\ (b => \E j \in (1..MaxSequences) \ {k} : test.runs[j] = "first")
  BY Zenon, <1>2 DEF TestGood
<1>7. t \in Network!Test /\ t.index = test.index + 1 /\ t.first = b /\ t.runs = test.runs
  BY Zenon, <1>1, <1>3, <1>5, <1>6 DEF Network!Test
<1>8. PICK w, ref, running, r :
         /\ w \in {"timer", "none"} /\ ref \in {k, t.ref} /\ running \in BOOLEAN
         /\ r = [t.runs EXCEPT ![k] = w]
         /\ w = "none" => running = FALSE
         /\ test' = [t EXCEPT !.runs = r, !.ref = ref, !.running = running]
  <2>1. CASE t.index < Tests
    <3>1. test' = [t EXCEPT !.runs = [t.runs EXCEPT ![k] = "timer"], !.ref = k]
      BY Zenon, <1>2, <1>3, <2>1 DEF Network!TestAnswered
    <3>2. test' = [t EXCEPT !.runs = [t.runs EXCEPT ![k] = "timer"], !.ref = k,
                            !.running = t.running]
      BY Zenon, <1>7, <3>1 DEF Network!Test
    <3>3. t.running \in BOOLEAN
      BY <1>7 DEF Network!Test
    <3> QED
      BY Zenon, <3>2, <3>3
  <2>2. CASE ~(t.index < Tests)
    <3>1. test' = [t EXCEPT !.runs = [t.runs EXCEPT ![k] = "none"], !.running = FALSE]
      BY Zenon, <1>2, <1>3, <2>2 DEF Network!TestAnswered
    <3>2. test' = [t EXCEPT !.runs = [t.runs EXCEPT ![k] = "none"], !.ref = t.ref,
                            !.running = FALSE]
      BY Zenon, <1>7, <3>1 DEF Network!Test
    <3> QED
      BY Zenon, <3>2
  <2> QED
    BY Zenon, <2>1, <2>2
<1>9. /\ r \in [1..MaxSequences -> Network!Waits] /\ r[k] = w
      /\ \A j \in (1..MaxSequences) \ {k} : r[j] = test.runs[j]
      /\ ref \in 0..MaxSequences
  BY <1>1, <1>7, <1>8, Bounds DEF Network!Waits, Network!Test
<1>10. test' \in Network!Test /\ test'.runs = r /\ test'.index = test.index + 1
       /\ test'.first = b /\ test'.running = running
  BY Zenon, <1>7, <1>8, <1>9 DEF Network!Test
<1>11. Cardinality(Due(r)) = Cardinality(Due(test.runs)) - 1
  BY <1>1, <1>7, <1>8, DueAnswered
<1>12. test.index + 1 + Cardinality(Due(r)) <= Tests + MaxSequences - 1
  BY <1>1, <1>11, Bounds, DueBounds
<1>13. running => \E j \in 1..MaxSequences : r[j] # "none"
  BY <1>8, <1>9
<1>14. b => \E j \in 1..MaxSequences : r[j] = "first"
  BY <1>6, <1>9
<1> QED
  BY <1>10, <1>12, <1>13, <1>14 DEF TestGood

LEMMA TestTimerKeeps ==
    ASSUME TestGood(test), NEW k \in 1..MaxSequences, Network!TestTimerFires(k)
    PROVE  TestGood(test')
<1>a. PICK ref : ref = IF test.ref = k THEN 0 ELSE test.ref
  OBVIOUS
<1>b. PICK t : t = [test EXCEPT !.ref = ref]
  OBVIOUS
<1>1. /\ ref \in {0, test.ref}
      /\ test' = IF ~t.running THEN [t EXCEPT !.runs[k] = "none"]
                 ELSE IF t.index >= Tests
                   THEN [t EXCEPT !.runs[k] = "none", !.running = FALSE]
                 ELSE Network!Asks(t, k)
  BY <1>a, <1>b DEF Network!TestTimerFires
<1>2. test.ref \in 0..MaxSequences /\ 0 \in 0..MaxSequences
  BY Bounds DEF TestGood, Network!Test
<1>c. test.runs[k] = "timer"
  BY DEF Network!TestTimerFires
<1>d. t \in Network!Test /\ t.runs = test.runs /\ t.index = test.index
      /\ t.running = test.running /\ t.first = test.first
  BY <1>b, <1>1, <1>2 DEF TestGood, Network!Test
<1>3. /\ TestGood(t) /\ t \in Network!Test /\ t.runs[k] = "timer"
      /\ t.runs \in [1..MaxSequences -> Network!Waits]
      /\ t.index \in Nat
  <2>1. t.runs \in [1..MaxSequences -> Network!Waits] /\ t.index \in Network!Counts
    BY <1>d DEF Network!Test
  <2>2. TestGood(t)
    BY <1>d DEF TestGood
  <2> QED
    BY <1>c, <1>d, <2>1, <2>2, Bounds DEF Network!Counts
<1>4. PICK r : r = [t.runs EXCEPT ![k] = "none"]
  BY Zenon
<1>5. /\ r \in [1..MaxSequences -> Network!Waits]
      /\ \A j \in (1..MaxSequences) \ {k} : r[j] = t.runs[j]
      /\ \A j \in 1..MaxSequences : r[j] \in {"first", "answer"} => r[j] = t.runs[j]
  BY <1>3, <1>4 DEF Network!Waits
<1>6. /\ Cardinality(Due(r)) <= Cardinality(Due(t.runs))
      /\ Cardinality(Due(r)) \in Nat /\ Cardinality(Due(t.runs)) \in Nat
  BY Zenon, <1>3, <1>5, DueBounds, DueLess
<1>7. t.index + Cardinality(Due(r)) <= Tests + MaxSequences - 1
  BY <1>3, <1>6, Bounds DEF TestGood
<1>8. t.first => \E j \in 1..MaxSequences : r[j] = "first"
  BY <1>3, <1>5 DEF TestGood
<1>9. CASE ~t.running \/ t.index >= Tests
  <2>1. test' = [t EXCEPT !.runs = r, !.running = FALSE]
    BY Zenon, <1>1, <1>3, <1>4, <1>9 DEF Network!Test
  <2> QED
    BY Zenon, <1>3, <1>5, <1>7, <1>8, <2>1 DEF TestGood, Network!Test
<1>10. CASE t.running /\ ~(t.index >= Tests)
  <2>1. test' = Network!Asks(t, k) /\ t.index < Tests
    BY <1>1, <1>3, <1>10, Bounds
  <2>2. t.first => \E j \in (1..MaxSequences) \ {k} : t.runs[j] = "first"
    BY <1>3 DEF TestGood
  <2> QED
    BY <1>3, <2>1, <2>2, RunAsks
<1> QED
  BY <1>9, <1>10

\* A test that is stopped: its requests are still answered.
LEMMA StoppedGood ==
    ASSUME NEW t, TestGood(t), NEW f, f = Network!Stopped(t)
    PROVE  TestGood(f)
<1>1. PICK r : r = [k \in 1..MaxSequences |->
                       IF k = t.ref /\ t.runs[k] = "timer" THEN "none" ELSE t.runs[k]]
  BY Zenon
<1>2. /\ t \in Network!Test /\ t.index \in Nat
      /\ t.runs \in [1..MaxSequences -> Network!Waits]
  BY Bounds DEF TestGood, Network!Test, Network!Counts
<1>3. /\ r \in [1..MaxSequences -> Network!Waits]
      /\ \A j \in 1..MaxSequences : r[j] \in {"first", "answer"} => r[j] = t.runs[j]
      /\ \A j \in 1..MaxSequences : t.runs[j] = "first" => r[j] = "first"
  BY Zenon, <1>1, <1>2 DEF Network!Waits
<1>4. /\ Cardinality(Due(r)) <= Cardinality(Due(t.runs))
      /\ Cardinality(Due(r)) \in Nat /\ Cardinality(Due(t.runs)) \in Nat
  BY Zenon, <1>2, <1>3, DueBounds, DueLess
<1>5. t.index + Cardinality(Due(r)) <= Tests + MaxSequences - 1
  BY <1>2, <1>4, Bounds DEF TestGood
<1>6. f = [t EXCEPT !.running = FALSE, !.ref = 0, !.runs = r]
  BY <1>1, <1>2 DEF Network!Stopped, Network!Test
<1>7. 0 \in 0..MaxSequences
  BY Bounds
<1>8. /\ f \in Network!Test /\ f.runs = r /\ f.index = t.index /\ f.first = t.first
      /\ f.running = FALSE
  BY Zenon, <1>2, <1>3, <1>6, <1>7 DEF Network!Test
<1> QED
  BY <1>3, <1>5, <1>8 DEF TestGood

LEMMA ForgottenGood ==
    ASSUME NEW t, TestGood(t), NEW f, f = Network!Forgotten(t)
    PROVE  TestGood(f)
<1>1. PICK s : s = IF t.running THEN Network!Stopped(t) ELSE t
  OBVIOUS
<1>2. f = [s EXCEPT !.started = FALSE, !.first = FALSE, !.index = 0]
  BY Zenon, <1>1 DEF Network!Forgotten
<1>3. TestGood(s) /\ s \in Network!Test
  BY <1>1, StoppedGood DEF TestGood
<1>4. 0 \in Network!Counts /\ 0 + Cardinality(Due(s.runs)) <= Tests + MaxSequences - 1
  BY Bounds, DueBounds DEF Network!Counts
<1>5. /\ f \in Network!Test /\ f.runs = s.runs /\ f.index = 0 /\ f.first = FALSE
      /\ f.running = s.running
  BY Zenon, <1>2, <1>3, <1>4 DEF Network!Test
<1> QED
  BY <1>3, <1>4, <1>5 DEF TestGood

LEMMA TestStep ==
    ASSUME TestGood(test), Network!TestNext \/ Network!OpenTest
    PROVE  TestGood(test')
<1>1. CASE Network!StopTest
  BY <1>1, StoppedGood DEF Network!StopTest
<1>2. CASE Network!RetryTest
  BY <1>2, ForgottenGood DEF Network!RetryTest
<1>3. CASE Network!CloseTest
  <2>1. PICK t : /\ t = Network!Forgotten(test)
                 /\ test' = [t EXCEPT !.open = FALSE]
    BY Zenon, <1>3 DEF Network!CloseTest
  <2>2. TestGood(t)
    BY <2>1, ForgottenGood
  <2> QED
    BY Zenon, <2>1, <2>2 DEF TestGood, Network!Test
<1> QED
  BY <1>1, <1>2, <1>3, OpenTestKeeps, StartKeeps, TestAnsweredKeeps, TestTimerKeeps
     DEF Network!TestNext

-----------------------------------------------------------------------------
(* The pages of events                                                     *)

\* A page whose connection failed does not say that it is connected.
EventsGood(p) ==
    /\ p \in Events!EventsPage
    /\ p.connected => p.source = "open"
    /\ p.connecting => p.source = "opening"
    /\ p.failed => ~p.connected

EventsInv ==
    /\ Events!InEvents => EventsGood(page)
    /\ Events!InLogs => page \in Events!LogsPage

LEMMA EventsAppear ==
    EventsGood(Events!EventsShown) /\ Events!LogsShown \in Events!LogsPage
<1>1. {} \in SUBSET Events!Sides
  OBVIOUS
<1>2. Events!LogsShown \in Events!LogsPage
  BY <1>1 DEF Events!LogsShown, Events!LogsPage
<1> QED
  BY <1>2 DEF EventsGood, Events!EventsShown, Events!EventsPage

LEMMA EndpointEventsKeep ==
    ASSUME EventsGood(page),
           \/ Events!EndpointAnswered \/ Events!Connect \/ Events!Reconnect \/ Events!Disconnect
           \/ Events!Opened \/ Events!EventComes \/ Events!SourceFails \/ Events!ClearEvents
    PROVE  EventsGood(page')
<1>1. page \in Events!EventsPage
  BY DEF EventsGood
<1>2. CASE Events!EndpointAnswered
  <2>1. PICK b \in BOOLEAN : page' = [page EXCEPT !.loading = FALSE, !.known = b]
    BY Zenon, <1>2 DEF Events!EndpointAnswered, Events!Render
  <2> QED
    BY Zenon, <2>1 DEF EventsGood, Events!EventsPage
<1>3. CASE Events!Connect \/ Events!Reconnect
  <2>1. /\ page' = [page EXCEPT !.source = "opening", !.connecting = TRUE, !.failed = FALSE]
        /\ ~page.connected
    BY <1>3 DEF Events!Connect, Events!Reconnect, Events!Render, EventsGood
  <2> QED
    BY Zenon, <1>1, <2>1 DEF EventsGood, Events!EventsPage
<1>4. CASE Events!Disconnect
  <2>2. PICK half : half = [page EXCEPT !.source = "none", !.connected = FALSE]
    OBVIOUS
  <2>3. half \in Events!EventsPage /\ half.connected = FALSE
    BY Zenon, <1>1, <2>2 DEF Events!EventsPage
  <2>4. page' = [half EXCEPT !.connecting = FALSE, !.failed = FALSE]
    BY Zenon, <1>4, <2>2 DEF Events!Disconnect, Events!Render
  <2> QED
    BY Zenon, <2>3, <2>4 DEF EventsGood, Events!EventsPage
<1>5. CASE Events!Opened
  <2>1. PICK half : half = [page EXCEPT !.source = "open", !.connected = TRUE]
    OBVIOUS
  <2>2. half \in Events!EventsPage /\ half.source = "open"
    BY Zenon, <1>1, <2>1 DEF Events!EventsPage
  <2>3. page' = [half EXCEPT !.connecting = FALSE, !.failed = FALSE]
    BY Zenon, <1>5, <2>1 DEF Events!Opened, Events!Render
  <2> QED
    BY Zenon, <2>2, <2>3 DEF EventsGood, Events!EventsPage
<1>6. CASE Events!EventComes
  <2>1. PICK half : half = [page EXCEPT !.lines = TRUE]
    BY Zenon
  <2>2. EventsGood(half) /\ half \in Events!EventsPage /\ half.source = "open"
    BY Zenon, <1>1, <1>6, <2>1 DEF EventsGood, Events!EventsPage, Events!EventComes
  <2>3. \/ page' = half
        \/ page' = [half EXCEPT !.connected = TRUE, !.connecting = FALSE, !.failed = FALSE]
        \/ page' = [half EXCEPT !.connected = FALSE, !.connecting = FALSE, !.failed = TRUE]
    BY Zenon, <1>6, <2>1 DEF Events!EventComes, Events!Render
  <2> QED
    BY Zenon, <2>2, <2>3 DEF EventsGood, Events!EventsPage
<1>7. CASE Events!SourceFails
  <2>1. PICK half : half = [page EXCEPT !.source = "none", !.connected = FALSE]
    OBVIOUS
  <2>2. half \in Events!EventsPage /\ half.connected = FALSE
    BY Zenon, <1>1, <2>1 DEF Events!EventsPage
  <2>3. page' = [half EXCEPT !.connecting = FALSE, !.failed = TRUE]
    BY Zenon, <1>7, <2>1 DEF Events!SourceFails, Events!Render
  <2> QED
    BY Zenon, <2>2, <2>3 DEF EventsGood, Events!EventsPage
<1>8. CASE Events!ClearEvents
  <2>1. page' = [page EXCEPT !.lines = FALSE]
    BY <1>8 DEF Events!ClearEvents, Events!Render
  <2> QED
    BY Zenon, <1>1, <2>1 DEF EventsGood, Events!EventsPage
<1> QED
  BY <1>2, <1>3, <1>4, <1>5, <1>6, <1>7, <1>8

LEMMA LogsKeep ==
    ASSUME page \in Events!LogsPage,
           Events!ServiceAnswered \/ Events!LogComes \/ Events!ClearLog \/ Events!StreamDies
    PROVE  page' \in Events!LogsPage
<1>1. /\ page.streams \in SUBSET Events!Sides /\ page.lines \in SUBSET Events!Sides
      /\ page.service \in SUBSET Events!Sides
  BY DEF Events!LogsPage
<1>2. CASE Events!ServiceAnswered
  <2>1. PICK sides \in {{"client"}, Events!Sides} :
           page' = [page EXCEPT !.loading = FALSE, !.service = sides, !.streams = sides]
    BY Zenon, <1>2 DEF Events!ServiceAnswered, Events!Render
  <2>2. sides \in SUBSET Events!Sides
    BY <2>1 DEF Events!Sides
  <2> QED
    BY Zenon, <2>1, <2>2 DEF Events!LogsPage
<1>3. CASE Events!LogComes \/ Events!ClearLog
  <2>1. PICK side \in Events!Sides : \/ page' = [page EXCEPT !.lines = page.lines \cup {side}]
                                    \/ page' = [page EXCEPT !.lines = page.lines \ {side}]
    BY Zenon, <1>1, <1>3 DEF Events!LogComes, Events!ClearLog, Events!Render
  <2>2. /\ page.lines \cup {side} \in SUBSET Events!Sides
        /\ page.lines \ {side} \in SUBSET Events!Sides
    BY <1>1
  <2> QED
    BY <2>1, <2>2 DEF Events!LogsPage
<1>4. CASE Events!StreamDies
  <2>1. PICK side \in page.streams : page' = [page EXCEPT !.streams = page.streams \ {side}]
    BY <1>4 DEF Events!StreamDies, Events!Render
  <2>2. page.streams \ {side} \in SUBSET Events!Sides
    BY <1>1
  <2> QED
    BY <2>1, <2>2 DEF Events!LogsPage
<1> QED
  BY <1>2, <1>3, <1>4

LEMMA EventsStep ==
    ASSUME EventsInv, Events!EventsNext
    PROVE  EventsInv' /\ (Events!InEvents \/ Events!InLogs) /\ route' = route
<1>1. \/ /\ Events!InEvents /\ route' = route
         /\ \/ Events!EndpointAnswered \/ Events!Connect \/ Events!Reconnect \/ Events!Disconnect
            \/ Events!Opened \/ Events!EventComes \/ Events!SourceFails \/ Events!ClearEvents
      \/ /\ Events!InLogs /\ route' = route
         /\ \/ Events!ServiceAnswered \/ Events!LogComes \/ Events!ClearLog \/ Events!StreamDies
  BY Zenon
     DEF Events!EventsNext, Events!Render, Events!EndpointAnswered, Events!Connect,
         Events!Reconnect, Events!Disconnect, Events!Opened, Events!EventComes,
         Events!SourceFails, Events!ClearEvents, Events!ServiceAnswered, Events!LogComes,
         Events!ClearLog, Events!StreamDies
<1>2. Events!InEvents /\ route' = route => ~Events!InLogs'
  BY DEF Events!InEvents, Events!InLogs
<1>3. Events!InLogs /\ route' = route => ~Events!InEvents'
  BY DEF Events!InEvents, Events!InLogs
<1> QED
  BY <1>1, <1>2, <1>3, EndpointEventsKeep, LogsKeep DEF EventsInv

-----------------------------------------------------------------------------
(* The tcping dialog                                                       *)

PingGood(p) == p \in Tcping!Ping /\ (p.loading => p.asked > 0)

LEMMA PingClosedGood ==
    ASSUME NEW n \in 0..MaxPings
    PROVE  PingGood(Tcping!Closed) /\ PingGood([Tcping!Closed EXCEPT !.asked = n])
<1>1. 0 \in 0..MaxPings
  BY Bounds
<1> QED
  BY Zenon, <1>1 DEF PingGood, Tcping!Closed, Tcping!Ping

LEMMA RenderGood ==
    ASSUME NEW p, PingGood(p), Tcping!Render(p)
    PROVE  PingGood(ping')
<1>1. PICK idle : idle = (p.open /\ ~p.loading /\ ~p.result)
  OBVIOUS
<1>2. PICK t, c : t = (idle /\ p.single) /\ c = (p.chosen \/ idle)
  OBVIOUS
<1>3. ping' = [p EXCEPT !.timer = t, !.chosen = c]
  BY Zenon, <1>1, <1>2 DEF Tcping!Render
<1>4. t \in BOOLEAN /\ c \in BOOLEAN
  BY Zenon, <1>2
<1> QED
  BY Zenon, <1>3, <1>4 DEF PingGood, Tcping!Ping

LEMMA PingStep ==
    ASSUME PingGood(ping), Tcping!PingNext \/ Tcping!OpenPing
    PROVE  PingGood(ping')
<1>1. ping \in Tcping!Ping /\ ping.asked \in Nat
  BY Bounds DEF PingGood, Tcping!Ping
<1>2. CASE Tcping!OpenPing
  <2>1. PICK single \in BOOLEAN : Tcping!Render([ping EXCEPT !.open = TRUE, !.single = single])
    BY Zenon, <1>2 DEF Tcping!OpenPing
  <2>2. PingGood([ping EXCEPT !.open = TRUE, !.single = single])
    BY Zenon DEF PingGood, Tcping!Ping
  <2> QED
    BY <2>1, <2>2, RenderGood
<1>3. CASE Tcping!Performs
  <2>1. PICK n : n = ping.asked + 1
    OBVIOUS
  <2>2. n \in 0..MaxPings /\ n > 0
    BY <1>1, <1>3, <2>1, Bounds DEF Tcping!Performs
  <2>3. Tcping!Render([ping EXCEPT !.loading = TRUE, !.result = FALSE, !.asked = n])
    BY <1>3, <2>1 DEF Tcping!Performs
  <2>4. PingGood([ping EXCEPT !.loading = TRUE, !.result = FALSE, !.asked = n])
    BY Zenon, <2>2 DEF PingGood, Tcping!Ping
  <2> QED
    BY <2>3, <2>4, RenderGood
<1>4. CASE Tcping!PingAnswered
  <2>1. PICK n : n = ping.asked - 1
    OBVIOUS
  <2>2. n \in 0..MaxPings
    BY <1>1, <1>4, <2>1, Bounds DEF Tcping!PingAnswered, Tcping!Ping
  <2>3. PICK b \in {ping.result, TRUE} :
           Tcping!Render([ping EXCEPT !.asked = n, !.loading = FALSE, !.result = b])
    BY Zenon, <1>4, <2>1 DEF Tcping!PingAnswered
  <2>4. b \in BOOLEAN
    BY Zenon, <1>1, <2>3 DEF Tcping!Ping
  <2>5. PingGood([ping EXCEPT !.asked = n, !.loading = FALSE, !.result = b])
    BY Zenon, <2>2, <2>4 DEF PingGood, Tcping!Ping
  <2> QED
    BY <2>3, <2>5, RenderGood
<1>5. CASE Tcping!ClosePing
  <2>1. ping.asked \in 0..MaxPings
    BY <1>1 DEF Tcping!Ping
  <2>2. Tcping!Render([Tcping!Closed EXCEPT !.asked = ping.asked])
    BY <1>5 DEF Tcping!ClosePing
  <2> QED
    BY <2>1, <2>2, PingClosedGood, RenderGood
<1> QED
  BY <1>2, <1>3, <1>4, <1>5 DEF Tcping!PingNext, Tcping!PingTimerFires, Tcping!PressPing

-----------------------------------------------------------------------------
(* The pages one after another                                             *)

Targets == {"tunnels", "services", "endpoints"}

\* What holds of the page that is shown, whichever it is.
PageInv ==
    /\ TunnelInv /\ ServiceInv /\ TunnelsInv /\ EndpointsInv
    /\ CardsInv /\ BoardInv /\ EventsInv

PagesInv ==
    /\ route \in Pages /\ late \subseteq Targets
    /\ PageInv /\ TrendInv
    /\ TestGood(test) /\ PingGood(ping)

\* A page that has just appeared, with any change of a key that is not of its own.
LEMMA ShownKeeps ==
    ASSUME NEW p \in Pages, route' = p, page' \in Shown(p), ChangeGood(rekey', p, page')
    PROVE  PageInv'
<1>1. CASE p = "dashboard"
  <2>1. BoardGood(page')
    BY <1>1, BoardAppears DEF Shown
  <2> QED
    BY <1>1, <2>1
       DEF PageInv, TunnelInv, ServiceInv, TunnelsInv, EndpointsInv, CardsInv, BoardInv, EventsInv,
           Tunnel!Here, Service!Here, Tunnels!Here, Endpoints!InList, Endpoints!InDetails,
           ServiceList!Here, Events!InEvents, Events!InLogs
<1>2. CASE p = "tunnels"
  <2>1. TunnelsGood(page')
    BY <1>2, TunnelsAppears DEF Shown
  <2> QED
    BY <1>2, <2>1
       DEF PageInv, TunnelInv, ServiceInv, TunnelsInv, EndpointsInv, CardsInv, BoardInv, EventsInv,
           Tunnel!Here, Service!Here, Board!Here, Endpoints!InList, Endpoints!InDetails,
           ServiceList!Here, Events!InEvents, Events!InLogs
<1>3. CASE p = "tunnel"
  <2>1. (CHOOSE i \in Ids : TRUE) \in Ids
    BY BoundsAssumption
  <2>2. TunnelGood(page') /\ ~page'.stream
    BY <1>3, <2>1, TunnelAppears DEF Shown
  <2> QED
    BY <1>3, <2>2
       DEF PageInv, TunnelInv, ServiceInv, TunnelsInv, EndpointsInv, CardsInv, BoardInv, EventsInv,
           Tunnels!Here, Service!Here, Board!Here, Endpoints!InList, Endpoints!InDetails,
           ServiceList!Here, Events!InEvents, Events!InLogs
<1>4. CASE p = "services"
  <2>1. CardsGood(page')
    BY <1>4, CardsAppear DEF Shown
  <2> QED
    BY <1>4, <2>1
       DEF PageInv, TunnelInv, ServiceInv, TunnelsInv, EndpointsInv, CardsInv, BoardInv, EventsInv,
           Tunnel!Here, Service!Here, Tunnels!Here, Board!Here, Endpoints!InList,
           Endpoints!InDetails, Events!InEvents, Events!InLogs
<1>5. CASE p = "service"
  <2>1. ServiceGood(page')
    BY <1>5, ServiceAppears DEF Shown
  <2> QED
    BY <1>5, <2>1
       DEF PageInv, TunnelInv, ServiceInv, TunnelsInv, EndpointsInv, CardsInv, BoardInv, EventsInv,
           Tunnel!Here, Tunnels!Here, Board!Here, Endpoints!InList, Endpoints!InDetails,
           ServiceList!Here, Events!InEvents, Events!InLogs
<1>6. CASE p = "endpoints"
  <2>1. ListGood(page')
    BY <1>6, EndpointsAppear DEF Shown
  <2> QED
    BY <1>6, <2>1
       DEF PageInv, TunnelInv, ServiceInv, TunnelsInv, EndpointsInv, CardsInv, BoardInv, EventsInv,
           Tunnel!Here, Service!Here, Tunnels!Here, Board!Here, Endpoints!InDetails,
           ServiceList!Here, Events!InEvents, Events!InLogs
<1>7. CASE p = "endpoint"
  <2>1. EndpointGood(page')
    BY <1>7, EndpointsAppear DEF Shown
  <2> QED
    BY <1>7, <2>1
       DEF PageInv, TunnelInv, ServiceInv, TunnelsInv, EndpointsInv, CardsInv, BoardInv, EventsInv,
           Tunnel!Here, Service!Here, Tunnels!Here, Board!Here, Endpoints!InList,
           ServiceList!Here, Events!InEvents, Events!InLogs
<1>8. CASE p = "events" \/ p = "logs"
  <2>1. EventsInv'
    BY <1>8, EventsAppear DEF Shown, EventsInv, Events!InEvents, Events!InLogs
  <2> QED
    BY <1>8, <2>1
       DEF PageInv, TunnelInv, ServiceInv, TunnelsInv, EndpointsInv, CardsInv, BoardInv,
           Tunnel!Here, Service!Here, Tunnels!Here, Board!Here, Endpoints!InList,
           Endpoints!InDetails, ServiceList!Here
<1> QED
  BY <1>1, <1>2, <1>3, <1>4, <1>5, <1>6, <1>7, <1>8 DEF Pages

LEMMA PageAppearsKeeps ==
    ASSUME PagesInv, NEW p \in Pages, Appears(p)
    PROVE  PageInv' /\ route' \in Pages /\ TrendEnds
<1>1. rekey' \in {Endpoints!NoRekey, Endpoints!RekeyLeft}
  BY DEF Appears
<1>2. rekey \in Endpoints!Rekey
  BY DEF PagesInv, PageInv, EndpointsInv, ChangeGood
<1>3. ChangeGood(rekey', p, page')
  BY <1>1, <1>2, ChangeLeft
<1> QED
  BY <1>3, ShownKeeps DEF Appears

\* A step of one page leaves what holds of the others.
LEMMA ElsewhereKeeps ==
    ASSUME PagesInv, route' = route, rekey' = rekey,
           \/ route = "tunnel" /\ TunnelInv'
           \/ route = "service" /\ ServiceInv'
           \/ route = "tunnels" /\ TunnelsInv'
           \/ route = "services" /\ CardsInv'
           \/ route = "dashboard" /\ BoardInv'
           \/ route \in {"events", "logs"} /\ EventsInv'
    PROVE  PageInv'
<1>1. EndpointsInv'
  BY DEF PagesInv, PageInv, EndpointsInv, ChangeGood, Endpoints!InList, Endpoints!InDetails
<1> QED
  BY <1>1
     DEF PageInv, TunnelInv, ServiceInv, TunnelsInv, CardsInv, BoardInv, EventsInv,
         Tunnel!Here, Service!Here, Tunnels!Here, Board!Here,
         ServiceList!Here, Events!InEvents, Events!InLogs

\* A step of the pages of endpoints, or of the change of a key that one of them began.
LEMMA EndpointsElsewhere ==
    ASSUME PagesInv, Endpoints!EndpointsNext \/ Endpoints!RekeyNext
    PROVE  /\ PageInv' /\ route' = route /\ late' \in {late, {}}
           /\ route \in {"endpoints", "endpoint"} \/ page' = page
<1>1. EndpointsInv' /\ route' = route
  BY EndpointsStep DEF PagesInv, PageInv
<1>2. route \in {"endpoints", "endpoint"} \/ page' = page
  <2>1. CASE Endpoints!EndpointsNext
    BY Zenon, <2>1
       DEF Endpoints!EndpointsNext, Endpoints!PressRefresh, Endpoints!ListAnswered,
           Endpoints!ListOpAnswered, Endpoints!Reload, Endpoints!PressInList,
           Endpoints!RefreshAll, Endpoints!DataAnswered, Endpoints!PressInDetails,
           Endpoints!DetailOpAnswered, Endpoints!BeginRekey, Endpoints!InList,
           Endpoints!InDetails
  <2>2. CASE Endpoints!RekeyNext
    <3>1. rekey.here => route \in {"endpoints", "endpoint"}
      BY DEF PagesInv, PageInv, EndpointsInv, ChangeGood, Endpoints!Rekey
    <3>2. ~rekey.here => page' = page
      BY Zenon, <2>2
         DEF Endpoints!RekeyNext, Endpoints!DisconnectAnswered, Endpoints!KeyAnswered,
             Endpoints!TimerFires, Endpoints!ConnectAnswered, Endpoints!RefreshAnswered,
             Endpoints!GoesOn, Endpoints!Refreshes, Endpoints!Refreshed, Endpoints!Asks
    <3> QED
      BY <3>1, <3>2
  <2> QED
    BY <2>1, <2>2
<1>3. late' \in {late, {}}
  BY Zenon
     DEF Endpoints!EndpointsNext, Endpoints!PressRefresh, Endpoints!ListAnswered,
         Endpoints!ListOpAnswered, Endpoints!Reload, Endpoints!PressInList,
         Endpoints!RefreshAll, Endpoints!DataAnswered, Endpoints!PressInDetails,
         Endpoints!DetailOpAnswered, Endpoints!BeginRekey,
         Endpoints!RekeyNext, Endpoints!DisconnectAnswered, Endpoints!KeyAnswered,
         Endpoints!TimerFires, Endpoints!ConnectAnswered, Endpoints!RefreshAnswered
<1>4. CASE route \in {"endpoints", "endpoint"}
  BY <1>1, <1>3, <1>4
     DEF PageInv, TunnelInv, ServiceInv, TunnelsInv, CardsInv, BoardInv, EventsInv,
         Tunnel!Here, Service!Here, Tunnels!Here, Board!Here,
         ServiceList!Here, Events!InEvents, Events!InLogs
<1>5. CASE page' = page
  BY <1>1, <1>3, <1>5
     DEF PagesInv, PageInv, TunnelInv, ServiceInv, TunnelsInv, CardsInv, BoardInv, EventsInv,
         Tunnel!Here, Service!Here, Tunnels!Here, Board!Here,
         ServiceList!Here, Events!InEvents, Events!InLogs
<1> QED
  BY <1>1, <1>2, <1>3, <1>4, <1>5

\* The page of a tunnel.
LEMMA TunnelFrame ==
    ASSUME Tunnel!DetailsNext
    PROVE  /\ route = "tunnel" /\ route' = route /\ late' \in {late, late \cup {"tunnels"}}
           /\ \/ UNCHANGED trend
              \/ Tunnel!Follow(page.id)
              \/ Tunnel!Poll \/ Tunnel!TrendAnswered \/ Tunnel!RefreshTrend
<1>1. CASE \E op \in Tunnel!Ops : Tunnel!Press(op)
  BY Zenon, <1>1 DEF Tunnel!Press, Tunnel!Here, Tunnel!trend, trend
<1>2. CASE \/ Tunnel!DetailsAnswered \/ Tunnel!RefreshAnswered \/ Tunnel!DeleteAnswered
           \/ Tunnel!ExportAnswered \/ Tunnel!PolicyAnswered \/ Tunnel!ResetAnswered
  BY Zenon, <1>2
     DEF Tunnel!DetailsAnswered, Tunnel!RefreshAnswered, Tunnel!DeleteAnswered,
         Tunnel!ExportAnswered, Tunnel!PolicyAnswered, Tunnel!ResetAnswered, Tunnel!Here,
         Tunnel!trend, trend
<1>3. CASE Tunnel!StatusAnswered("start", "success") \/ Tunnel!StatusAnswered("stop", "danger")
  BY Zenon, <1>3 DEF Tunnel!StatusAnswered, Tunnel!Here, Tunnel!trend, trend
<1>4. CASE Tunnel!Log
  BY Zenon, <1>4
     DEF Tunnel!Log, Tunnel!AskForFile, Tunnel!FileAnswered, Tunnel!ClearAnswered,
         Tunnel!ClearDisplay, Tunnel!RealtimeOn, Tunnel!RealtimeOff, Tunnel!LiveLine,
         Tunnel!LiveStatus, Tunnel!StreamDies, Tunnel!Here, Tunnel!trend, trend
<1>5. CASE Tunnel!Charts
  BY Zenon, <1>5 DEF Tunnel!Charts, Tunnel!Here
<1> QED
  BY <1>1, <1>2, <1>3, <1>4, <1>5 DEF Tunnel!DetailsNext

\* The page of a service.
LEMMA ServiceFrame ==
    ASSUME Service!ServiceNext
    PROVE  /\ route = "service" /\ route' = route /\ late' = late
           /\ \/ Service!Follow(Service!Counts(page'))
              \/ Service!Poll \/ Service!TrendAnswered
<1>1. CASE Service!ServiceAnswered \/ Service!TunnelAnswered \/ Service!PressRefresh
  BY Zenon, <1>1
     DEF Service!ServiceAnswered, Service!TunnelAnswered, Service!PressRefresh,
         Service!Render, Service!Here
<1>2. CASE \E k \in 1..MaxRefresh : \/ Service!RefreshService(k) \/ Service!RefreshClient(k)
                                   \/ Service!RefreshServer(k)
  BY Zenon, <1>2
     DEF Service!RefreshService, Service!RefreshClient, Service!RefreshServer,
         Service!Render, Service!Here
<1>3. CASE (\E op \in Service!Actions : Service!PressAction(op)) \/ Service!ActionAnswered
  BY Zenon, <1>3
     DEF Service!PressAction, Service!ActionAnswered, Service!Render, Service!Here
<1>4. CASE Service!Charts
  BY Zenon, <1>4 DEF Service!Charts, Service!Here
<1> QED
  BY <1>1, <1>2, <1>3, <1>4 DEF Service!ServiceNext

\* The hook is the same in every page: its actions are those of MetricsTrend.
LEMMA SameHook ==
    /\ \A i \in Ids \cup {NoId} : (Tunnel!Follow(i) => Follow(i)) /\ (Service!Follow(i) => Follow(i))
    /\ Tunnel!Poll => Poll
    /\ Service!Poll => Poll
    /\ Tunnel!RefreshTrend => RefreshTrend
    /\ Tunnel!TrendAnswered => TrendAnswered
    /\ Service!TrendAnswered => TrendAnswered
<1>1. /\ \A i, loud : Tunnel!Fetch(i, loud) => Fetch(i, loud)
      /\ \A i, loud : Service!Fetch(i, loud) => Fetch(i, loud)
  BY Zenon DEF Tunnel!Fetch, Service!Fetch, Fetch, Tunnel!Send, Service!Send, Send,
               Tunnel!Newest, Service!Newest, Newest
<1>2. /\ \A i : Tunnel!RestartTimer(i) => RestartTimer(i)
      /\ \A i : Service!RestartTimer(i) => RestartTimer(i)
  BY Zenon DEF Tunnel!RestartTimer, Service!RestartTimer, RestartTimer
<1>3. \A i : Tunnel!Follow(i) => Follow(i)
  BY Zenon, <1>1, <1>2 DEF Tunnel!Follow, Follow, Tunnel!trend, trend
<1>4. \A i : Service!Follow(i) => Follow(i)
  BY Zenon, <1>1, <1>2 DEF Service!Follow, Follow, Service!trend, trend
<1>5. (Tunnel!Poll => Poll) /\ (Service!Poll => Poll)
  BY Zenon, <1>1 DEF Tunnel!Poll, Service!Poll, Poll
<1>6. Tunnel!RefreshTrend => RefreshTrend
  BY Zenon, <1>1 DEF Tunnel!RefreshTrend, RefreshTrend
<1>7. (Tunnel!TrendAnswered => TrendAnswered) /\ (Service!TrendAnswered => TrendAnswered)
  BY Zenon DEF Tunnel!TrendAnswered, Service!TrendAnswered, TrendAnswered,
               Tunnel!Answered, Service!Answered, Answered
<1> QED
  BY <1>3, <1>4, <1>5, <1>6, <1>7

\* The ids the pages give it.
LEMMA CountsTypes ==
    ASSUME NEW p, ServiceGood(p)
    PROVE  Service!Counts(p) \in Ids \cup {NoId}
  BY DEF ServiceGood, Service!ServicePage, Service!Counts

LEMMA PageUnchanged ==
    ASSUME PageInv, UNCHANGED <<route, page, rekey, trend>>
    PROVE  PageInv' /\ route' = route /\ [TrendNext]_trend
  BY DEF PageInv, TunnelInv, ServiceInv, TunnelsInv, EndpointsInv, CardsInv, BoardInv, EventsInv,
         Tunnel!Here, Service!Here, Tunnels!Here, Board!Here, Endpoints!InList,
         Endpoints!InDetails, ServiceList!Here, Events!InEvents, Events!InLogs

\* The lists, the dashboard and the pages of events leave nothing behind.
LEMMA RestLate ==
    ASSUME \/ Tunnels!TunnelsNext \/ ServiceList!ServicesNext
           \/ Board!DashboardNext \/ Events!EventsNext
    PROVE  late' = late
<1>1. CASE Tunnels!TunnelsNext
  BY Zenon, <1>1
     DEF Tunnels!TunnelsNext, Tunnels!Render, Tunnels!Search, Tunnels!Debounced,
         Tunnels!ClearSearch, Tunnels!ChangeView, Tunnels!Reset, Tunnels!PressRefresh,
         Tunnels!ListAnswered, Tunnels!Select, Tunnels!PressRow, Tunnels!PressBatch,
         Tunnels!OpenDeletion, Tunnels!CloseDeletion, Tunnels!ConfirmDeletion,
         Tunnels!PostAnswered
<1>2. CASE ServiceList!ServicesNext
  BY Zenon, <1>2
     DEF ServiceList!ServicesNext, ServiceList!Render, ServiceList!PressRefresh,
         ServiceList!ServicesAnswered, ServiceList!Search, ServiceList!Drag,
         ServiceList!SaveAnswered, ServiceList!PressAction, ServiceList!ActionAnswered
<1>3. CASE Board!DashboardNext
  BY Zenon, <1>3
     DEF Board!DashboardNext, Board!Render, Board!ChangeLanguage, Board!RoundGoesOn,
         Board!ConfirmClearLogs, Board!ClearAnswered
<1>4. CASE Events!EventsNext
  BY Zenon, <1>4
     DEF Events!EventsNext, Events!Render, Events!EndpointAnswered, Events!Connect,
         Events!Reconnect, Events!Disconnect, Events!Opened, Events!EventComes,
         Events!SourceFails, Events!ClearEvents, Events!ServiceAnswered, Events!LogComes,
         Events!ClearLog, Events!StreamDies
<1> QED
  BY <1>1, <1>2, <1>3, <1>4

\* What a step of a page, or of what was left behind, does.
LEMMA PageStepKeeps ==
    ASSUME PagesInv, PageStep
    PROVE  /\ PageInv' /\ route' \in Pages /\ late' \subseteq Targets
           /\ [TrendNext]_trend
<1>1. /\ route \in Pages /\ late \subseteq Targets /\ PageInv
  BY DEF PagesInv
<1>2. ASSUME NEW p \in Pages, Appears(p)
      PROVE  PageInv' /\ route' \in Pages /\ [TrendNext]_trend
  BY <1>2, PageAppearsKeeps DEF TrendNext
<1>3. ASSUME NEW p \in Pages, Go(p)
      PROVE  PageInv' /\ route' \in Pages /\ late' \subseteq Targets /\ [TrendNext]_trend
  <2>1. Appears(p) /\ late' \in {late, late \cup Leaves}
    BY <1>3 DEF Go
  <2>2. Leaves \subseteq Targets
    BY DEF Leaves, Targets, Tunnel!TunnelLeaves, Service!ServiceLeaves, Endpoints!EndpointLeaves,
           Events!LogsLeaves
  <2> QED
    BY <1>1, <1>2, <2>1, <2>2
<1>4. ASSUME Quits
      PROVE  PageInv' /\ route' \in Pages /\ late' \subseteq Targets /\ [TrendNext]_trend
  <2>1. {"services", "endpoints"} \subseteq Pages \cap Targets
    BY DEF Pages, Targets
  <2>2. late' \subseteq late \cup {"services"}
    BY <1>4 DEF Quits, Service!ServiceQuits, Endpoints!EndpointQuits, Events!LogsQuit
  <2>3. Appears("services") \/ Appears("endpoints")
    BY <1>4 DEF Quits
  <2> QED
    BY <1>1, <1>2, <2>1, <2>2, <2>3
<1>5. ASSUME Navigates
      PROVE  PageInv' /\ route' \in Pages /\ late' \subseteq Targets /\ [TrendNext]_trend
  <2>1. PICK p \in late :
           /\ late' = late \ {p}
           /\ Appears(p) \/ UNCHANGED <<route, page, rekey, trend>>
    BY <1>5 DEF Navigates
  <2>2. p \in Pages
    BY <1>1 DEF Targets, Pages
  <2>3. CASE Appears(p)
    BY <1>1, <1>2, <2>1, <2>2, <2>3
  <2>4. CASE UNCHANGED <<route, page, rekey, trend>>
    BY <1>1, <2>1, <2>4, PageUnchanged
  <2> QED
    BY <2>1, <2>3, <2>4
<1>6. ASSUME NeverNavigates
      PROVE  PageInv' /\ route' \in Pages /\ late' \subseteq Targets /\ [TrendNext]_trend
  <2>1. UNCHANGED <<route, page, rekey, trend>> /\ late' \subseteq late
    BY <1>6 DEF NeverNavigates
  <2> QED
    BY <1>1, <2>1, PageUnchanged
<1>7. ASSUME Tunnel!DetailsNext, UNCHANGED rekey
      PROVE  PageInv' /\ route' \in Pages /\ late' \subseteq Targets /\ [TrendNext]_trend
  <2>1. /\ route = "tunnel" /\ route' = route /\ late' \in {late, late \cup {"tunnels"}}
        /\ \/ UNCHANGED trend
           \/ Tunnel!Follow(page.id)
           \/ Tunnel!Poll \/ Tunnel!TrendAnswered \/ Tunnel!RefreshTrend
    BY <1>7, TunnelFrame
  <2>2. TunnelInv'
    BY <1>1, <1>7, TunnelStep DEF PageInv
  <2>3. page.id \in Ids
    BY <1>1, <2>1 DEF PageInv, TunnelInv, Tunnel!Here, TunnelGood, Tunnel!TunnelPage
  <2>4. [TrendNext]_trend
    BY Zenon, <2>1, <2>3, SameHook DEF TrendNext
  <2>5. PageInv'
    BY <1>7, <2>1, <2>2, ElsewhereKeeps
  <2> QED
    BY <1>1, <2>1, <2>4, <2>5 DEF Targets
<1>8. ASSUME Service!ServiceNext, UNCHANGED rekey
      PROVE  PageInv' /\ route' \in Pages /\ late' \subseteq Targets /\ [TrendNext]_trend
  <2>1. /\ route = "service" /\ route' = route /\ late' = late
        /\ \/ Service!Follow(Service!Counts(page'))
           \/ Service!Poll \/ Service!TrendAnswered
    BY <1>8, ServiceFrame
  <2>2. ServiceInv'
    BY <1>1, <1>8, ServiceStep DEF PageInv
  <2>3. Service!Counts(page') \in Ids \cup {NoId}
    BY <2>1, <2>2, CountsTypes DEF ServiceInv, Service!Here
  <2>4. [TrendNext]_trend
    BY Zenon, <2>1, <2>3, SameHook DEF TrendNext
  <2>5. PageInv'
    BY <1>8, <2>1, <2>2, ElsewhereKeeps
  <2> QED
    BY <1>1, <2>1, <2>4, <2>5
<1>9. ASSUME Tunnels!TunnelsNext, UNCHANGED <<rekey, trend>>
      PROVE  PageInv' /\ route' \in Pages /\ late' \subseteq Targets /\ [TrendNext]_trend
  <2>1. TunnelsInv' /\ route = "tunnels" /\ route' = route
    BY <1>1, <1>9, TunnelsStep DEF PageInv, Tunnels!Here
  <2>2. PageInv'
    BY <1>9, <2>1, ElsewhereKeeps
  <2>3. late' = late
    BY Zenon, <1>9, RestLate
  <2> QED
    BY <1>1, <1>9, <2>1, <2>2, <2>3
<1>10. ASSUME Endpoints!EndpointsNext \/ Endpoints!RekeyNext, UNCHANGED trend
      PROVE  PageInv' /\ route' \in Pages /\ late' \subseteq Targets /\ [TrendNext]_trend
  BY <1>1, <1>10, EndpointsElsewhere
<1>11. ASSUME ServiceList!ServicesNext, UNCHANGED <<rekey, trend>>
      PROVE  PageInv' /\ route' \in Pages /\ late' \subseteq Targets /\ [TrendNext]_trend
  <2>1. CardsInv' /\ route = "services" /\ route' = route
    BY <1>1, <1>11, CardsStep DEF PageInv, ServiceList!Here
  <2>2. PageInv'
    BY <1>11, <2>1, ElsewhereKeeps
  <2>3. late' = late
    BY Zenon, <1>11, RestLate
  <2> QED
    BY <1>1, <1>11, <2>1, <2>2, <2>3
<1>12. ASSUME Board!DashboardNext, UNCHANGED <<rekey, trend>>
      PROVE  PageInv' /\ route' \in Pages /\ late' \subseteq Targets /\ [TrendNext]_trend
  <2>1. BoardInv' /\ route = "dashboard" /\ route' = route
    BY <1>1, <1>12, BoardStep DEF PageInv, Board!Here
  <2>2. PageInv'
    BY <1>12, <2>1, ElsewhereKeeps
  <2>3. late' = late
    BY Zenon, <1>12, RestLate
  <2> QED
    BY <1>1, <1>12, <2>1, <2>2, <2>3
<1>13. ASSUME Events!EventsNext, UNCHANGED <<rekey, trend>>
      PROVE  PageInv' /\ route' \in Pages /\ late' \subseteq Targets /\ [TrendNext]_trend
  <2>1. EventsInv' /\ route \in {"events", "logs"} /\ route' = route
    BY <1>1, <1>13, EventsStep DEF PageInv, Events!InEvents, Events!InLogs
  <2>2. PageInv'
    BY <1>13, <2>1, ElsewhereKeeps
  <2>3. late' = late
    BY Zenon, <1>13, RestLate
  <2> QED
    BY <1>1, <1>13, <2>1, <2>2, <2>3
<1> QED
  BY <1>3, <1>4, <1>5, <1>6, <1>7, <1>8, <1>9, <1>10, <1>11, <1>12, <1>13 DEF PageStep

LEMMA PagesInit == Init => PagesInv /\ TrendStart
<1> SUFFICES ASSUME Init PROVE PagesInv /\ TrendStart
  OBVIOUS
<1>1. route \in Pages /\ late \subseteq Targets /\ TrendStart
  BY DEF Init, Pages
<1>2. TestGood(test) /\ PingGood(ping)
  <2>1. 0 \in 0..MaxPings
    BY Bounds
  <2> QED
    BY <2>1, ClosedGood, PingClosedGood DEF Init
<1>3. ChangeGood(rekey, route, page)
  <2>1. ~Endpoints!NoRekey.here /\ Endpoints!NoRekey \in Endpoints!Rekey
    BY DEF Endpoints!NoRekey, Endpoints!Rekey, Endpoints!Ends
  <2> QED
    BY <2>1 DEF Init, ChangeGood
<1>4. PageInv
  BY <1>3, BoardAppears
     DEF Init, PageInv, TunnelInv, ServiceInv, TunnelsInv, EndpointsInv, CardsInv, BoardInv,
         EventsInv, Tunnel!Here, Service!Here, Tunnels!Here, Endpoints!InList,
         Endpoints!InDetails, ServiceList!Here, Events!InEvents, Events!InLogs
<1> QED
  BY <1>1, <1>2, <1>4, TrendInitInv DEF PagesInv

\* Every step keeps the invariant, and is one of the hook or leaves it alone.
LEMMA PagesStep == PagesInv /\ [Next]_vars => PagesInv' /\ [TrendNext]_trend
<1> SUFFICES ASSUME PagesInv, [Next]_vars PROVE PagesInv' /\ [TrendNext]_trend
  OBVIOUS
<1>1. /\ route \in Pages /\ late \subseteq Targets /\ PageInv /\ TrendInv
      /\ TestGood(test) /\ PingGood(ping)
  BY DEF PagesInv
<1>2. CASE PageStep /\ UNCHANGED dialogs
  <2>1. /\ PageInv' /\ route' \in Pages /\ late' \subseteq Targets
        /\ [TrendNext]_trend
    BY <1>2, PageStepKeeps
  <2>2. TrendInv'
    BY <1>1, <2>1, TrendStepInv
  <2>3. TestGood(test') /\ PingGood(ping')
    BY <1>1, <1>2 DEF dialogs
  <2> QED
    BY <2>1, <2>2, <2>3 DEF PagesInv
<1>3. CASE UNCHANGED <<route, page, late, rekey, trend>> /\ TestGood(test') /\ PingGood(ping')
  <2>1. PageInv' /\ route' = route /\ [TrendNext]_trend
    BY <1>1, <1>3, PageUnchanged
  <2>2. TrendInv'
    BY <1>1, <2>1, TrendStepInv
  <2> QED
    BY <1>1, <1>3, <2>1, <2>2 DEF PagesInv
<1>4. CASE DialogStep /\ UNCHANGED <<route, page, late, rekey, trend>>
  <2>1. /\ Network!TestNext \/ Network!OpenTest \/ UNCHANGED test
        /\ Tcping!PingNext \/ Tcping!OpenPing \/ UNCHANGED ping
    BY Zenon, <1>4 DEF DialogStep, DialogOpens
  <2>2. TestGood(test')
    BY <1>1, <2>1, TestStep
  <2>3. PingGood(ping')
    BY <1>1, <2>1, PingStep
  <2> QED
    BY <1>3, <1>4, <2>2, <2>3
<1>5. CASE UNCHANGED <<route, page, late, rekey, trend, dialogs>>
  BY <1>1, <1>3, <1>5 DEF dialogs
<1>6. CASE UNCHANGED vars
  BY <1>5, <1>6 DEF vars
<1> QED
  BY <1>2, <1>4, <1>5, <1>6 DEF Next

LEMMA PagesInvariance == Spec => []PagesInv
  BY PagesInit, PagesStep, PTL DEF Spec

\* Without a change of the route a page changes by its own steps only.
LEMMA OwnSteps ==
    ASSUME PagesInv, [Next]_vars, route' = route
    PROVE  \/ page' = page
           \/ route = "tunnels" /\ Tunnels!TunnelsNext
           \/ route = "services" /\ ServiceList!ServicesNext
           \/ route \notin {"tunnels", "services"}
<1>1. page' = page \/ PageStep
  BY Zenon DEF Next, vars
<1>2. CASE PageStep
  <2>1. CASE \E p \in Pages : Go(p)
    BY <2>1 DEF Go, Appears
  <2>2. CASE Quits
    BY <2>2 DEF Quits, Service!ServiceQuits, Service!Here, Endpoints!EndpointQuits,
                Endpoints!InDetails, Events!LogsQuit, Events!InLogs
  <2>3. CASE Navigates \/ NeverNavigates
    <3>1. page' = page \/ \E p \in late : p # route /\ route' = p
      BY Zenon, <2>3 DEF Navigates, NeverNavigates, Appears
    <3> QED
      BY <3>1
  <2>4. CASE Tunnel!DetailsNext
    BY <2>4, TunnelFrame
  <2>5. CASE Service!ServiceNext
    BY <2>5, ServiceFrame
  <2>6. CASE Tunnels!TunnelsNext
    BY <2>6, TunnelsStep DEF PagesInv, PageInv, Tunnels!Here
  <2>7. CASE Endpoints!EndpointsNext \/ Endpoints!RekeyNext
    <3>1. route \in {"endpoints", "endpoint"} \/ page' = page
      BY <2>7, EndpointsElsewhere
    <3> QED
      BY <3>1
  <2>8. CASE ServiceList!ServicesNext
    BY <2>8, CardsStep DEF PagesInv, PageInv, ServiceList!Here
  <2>9. CASE Board!DashboardNext
    BY <2>9, BoardStep DEF PagesInv, PageInv, Board!Here
  <2>10. CASE Events!EventsNext
    BY <2>10, EventsStep DEF PagesInv, PageInv, Events!InEvents, Events!InLogs
  <2> QED
    BY <1>2, <2>1, <2>2, <2>3, <2>4, <2>5, <2>6, <2>7, <2>8, <2>9, <2>10 DEF PageStep
<1> QED
  BY <1>1, <1>2

-----------------------------------------------------------------------------
(* The table of tunnels                                                    *)

TableAll ==
    [rows : SUBSET Ids, running : SUBSET Ids, all : BOOLEAN, keys : SUBSET TableForm!Keys,
     dialog : TableForm!TableDialogs]

\* What runs is in the list.
TablePicks(n) == {p \in TableAll : p.running \subseteq p.rows}

TableFields == TableForm!Operations \cup TableForm!Keys

TableRequests(n) == Requests(TableFields)

\* A tunnel that is to be deleted is one.
TableExtra(f, n) == f.pick.dialog = "erase" => f.target \in Ids

TableFit(f, n) ==
    Fit(f, n, TableFields, TablePicks(n), TableRequests(n), "many") /\ TableExtra(f, n)

\* A step keeps the form typed, and submits what is shown.
TableGoes(n) == TableFit(form', n) /\ (Quiet \/ TableForm!TableSubmitsShown(Last))

LEMMA TableMoves ==
    ASSUME NEW n, TableFit(form, n), Whole(n),
           Still \/ Stopped \/ Asked \/ Heard \/ Replied \/ AskedAgain,
           form'.pick \in TablePicks(n), form'.filled \subseteq TableFields,
           Rows(form'.rules, TableFields), TableExtra(form', n)
    PROVE  TableGoes(n)
  BY Steps DEF TableFit, TableGoes

LEMMA TableSends ==
    ASSUME NEW n, TableFit(form, n), NEW r \in TableRequests(n), Submits(r),
           form'.busy \in BOOLEAN, Whole(n),
           form'.pick \in TablePicks(n), form'.filled \subseteq TableFields,
           Rows(form'.rules, TableFields), TableExtra(form', n), TableForm!TableSubmitsShown(r)
    PROVE  TableGoes(n)
<1>1. Fit(form', n, TableFields, TablePicks(n), TableRequests(n), "many") /\ Last = r
  BY Submissions DEF TableFit
<1> QED
  BY <1>1 DEF TableFit, TableGoes

LEMMA TableTyped ==
    ASSUME NEW n, TableFit(form, n), NEW fields \in SUBSET TableFields, TableForm!Types(fields)
    PROVE  /\ Whole(n) /\ Still /\ Filled
           /\ form'.filled \subseteq form.filled \cup fields /\ form'.filled \subseteq TableFields
<1>1. PICK h \in SUBSET (form.filled \cup fields) : form' = [form EXCEPT !.filled = h]
  BY DEF TableForm!Types, TableForm!Typings
<1> QED
  BY <1>1 DEF TableFit, Fit, Shaped, Whole, Still, Filled

LEMMA TablePick ==
    ASSUME NEW n, NEW p
    PROVE  p \in TablePicks(n) <=> p \in TableAll /\ p.running \subseteq p.rows
  BY DEF TablePicks

LEMMA TableKeys ==
    /\ Ids \subseteq TableForm!Keys
    /\ TableForm!Keys \cap TableForm!Operations = {}
<1>1. TableForm!Skeleton \notin TableForm!Operations
  BY DEF TableForm!Skeleton, TableForm!Operations
<1>2. TableForm!Keys = Ids \cup {TableForm!Skeleton}
  BY DEF TableForm!Keys
<1> HIDE DEF TableForm!Skeleton
<1> QED
  BY <1>1, <1>2, IdsAssumption

LEMMA TableRequest ==
    ASSUME NEW n, NEW o \in Ids \cup {NoId}, NEW op \in TableForm!Operations,
           NEW ids \in SUBSET TableForm!Keys
    PROVE  TableForm!Request(o, {op} \cup ids) \in TableRequests(n)
<1>1. {op} \cup ids \in SUBSET TableFields
  BY DEF TableFields
<1> HIDE DEF TableFields
<1> QED
  BY <1>1, EmptySeq DEF TableForm!Request, TableRequests, Requests

\* An operation on what is selected, or on a row.
LEMMA TableActs ==
    ASSUME NEW n \in TableForm!TableFormNames, TableFit(form, n), NEW o \in Ids \cup {NoId},
           NEW op \in TableForm!Operations, NEW ids \in SUBSET TableForm!Keys,
           TableForm!Acts(o, op, ids),
           TableForm!TableSubmitsShown(TableForm!Request(o, {op} \cup ids))
    PROVE  TableGoes(n)
<1> DEFINE r == TableForm!Request(o, {op} \cup ids)
<1>1. /\ form.name = n /\ form.pick \in TablePicks(n) /\ form.filled \subseteq TableFields
      /\ form.target \in Ids \cup {NoId} /\ form.shown \in Ids \cup {NoId}
      /\ form.open \in BOOLEAN /\ form.busy \in BOOLEAN /\ Rows(form.rules, TableFields)
      /\ Shaped(form)
  BY DEF TableFit, Fit
<1>2. r \in TableRequests(n)
  BY TableRequest
<1> HIDE DEF r
<1>3. /\ Len(form.sent) < MaxSent
      /\ form' = [form EXCEPT !.sent = Append(@, r), !.pick.dialog = "none"]
  BY DEF TableForm!Acts, r
<1>4. /\ Whole(n) /\ form'.sent = Append(form.sent, r)
      /\ form'.asked = form.asked /\ form'.loading = form.loading
      /\ form'.busy = form.busy /\ form'.filled = form.filled /\ form'.rules = form.rules
      /\ form'.pick = [form.pick EXCEPT !.dialog = "none"]
  BY <1>1, <1>3 DEF Whole, Shaped
<1>6. Submits(r)
  BY <1>3, <1>4 DEF Submits
<1>7. form'.pick \in TableAll /\ form'.pick.running = form.pick.running
      /\ form'.pick.rows = form.pick.rows /\ form'.pick.dialog = "none"
  BY <1>1, <1>4, TablePick DEF TableAll, TableForm!TableDialogs
<1>8. form'.pick \in TablePicks(n)
  BY <1>1, <1>7, TablePick
<1>9. TableExtra(form', n)
  BY <1>7 DEF TableExtra
<1>10. TableForm!TableSubmitsShown(r)
  BY DEF r
<1> QED
  BY <1>1, <1>2, <1>3, <1>4, <1>6, <1>8, <1>9, <1>10, TableSends

\* An operation on a row is for a tunnel.
LEMMA RowActs ==
    ASSUME NEW n \in TableForm!TableFormNames, TableFit(form, n), NEW o \in Ids,
           NEW op \in TableForm!Operations, TableForm!Acts(o, op, {})
    PROVE  TableGoes(n)
<1>1. TableForm!Request(o, {op} \cup {}).to = o /\ o # NoId
  BY TrendNilAssumption DEF TableForm!Request
<1>2. TableForm!TableSubmitsShown(TableForm!Request(o, {op} \cup {}))
  BY <1>1 DEF TableForm!TableSubmitsShown
<1> QED
  BY <1>2, TableActs

\* Other rows, another selection, another dialog.
LEMMA TableTurns ==
    ASSUME NEW n \in TableForm!TableFormNames, TableFit(form, n), NEW p \in TablePicks(n),
           p.dialog = "erase" => form.target \in Ids,
           form' = [form EXCEPT !.pick = p]
    PROVE  TableGoes(n)
<1>1. /\ Whole(n) /\ Still /\ form'.target = form.target /\ form'.filled = form.filled
      /\ form'.rules = form.rules /\ form'.pick = p
  BY DEF TableFit, Fit, Whole, Still, Shaped
<1>2. form'.filled \subseteq TableFields /\ Rows(form'.rules, TableFields)
  BY <1>1 DEF TableFit, Fit
<1>3. TableExtra(form', n)
  BY <1>1 DEF TableExtra
<1> QED
  BY <1>1, <1>2, <1>3, TableMoves

LEMMA TableSelects ==
    ASSUME NEW n \in TableForm!TableFormNames, TableFit(form, n), NEW all \in BOOLEAN,
           NEW keys \in SUBSET TableForm!Keys, TableForm!Selects(all, keys)
    PROVE  TableGoes(n)
<1> DEFINE p == [[form.pick EXCEPT !.all = all] EXCEPT !.keys = keys]
<1>1. form.pick \in TablePicks(n) /\ Shaped(form) /\ TableExtra(form, n)
  BY DEF TableFit, Fit
<1>2. /\ p \in TableAll /\ p.running = form.pick.running /\ p.rows = form.pick.rows
      /\ p.dialog = form.pick.dialog
  BY <1>1, TablePick DEF TableAll
<1>3. form' = [form EXCEPT !.pick = p]
  BY <1>1 DEF TableForm!Selects, Shaped
<1> HIDE DEF p
<1>4. p \in TablePicks(n)
  BY <1>1, <1>2, TablePick
<1> QED
  BY <1>1, <1>2, <1>3, <1>4, TableTurns DEF TableExtra

LEMMA TableShows ==
    ASSUME NEW n \in TableForm!TableFormNames, TableFit(form, n), NEW d \in {"deletion", "export"},
           TableForm!Shows(d)
    PROVE  TableGoes(n)
<1> DEFINE p == [form.pick EXCEPT !.dialog = d]
<1>1. form.pick \in TablePicks(n) /\ Shaped(form)
  BY DEF TableFit, Fit
<1>2. /\ p \in TableAll /\ p.running = form.pick.running /\ p.rows = form.pick.rows
      /\ p.dialog = d
  BY <1>1, TablePick DEF TableAll, TableForm!TableDialogs
<1>3. form' = [form EXCEPT !.pick = p]
  BY <1>1 DEF TableForm!Shows, Shaped
<1> HIDE DEF p
<1>4. p \in TablePicks(n) /\ p.dialog # "erase"
  BY <1>1, <1>2, TablePick
<1> QED
  BY <1>3, <1>4, TableTurns

LEMMA SelectedKeys ==
    ASSUME NEW n, TableFit(form, n)
    PROVE  TableForm!Selected \in SUBSET TableForm!Keys /\ TableForm!Listed \in SUBSET Ids
<1>1. form.pick.rows \in SUBSET Ids /\ form.pick.keys \in SUBSET TableForm!Keys
  BY TablePick DEF TableFit, Fit, TableAll
<1> QED
  BY <1>1, TableKeys DEF TableForm!Selected, TableForm!Listed

\* What is left of a table after a success.
LEMMA SucceededIs ==
    ASSUME NEW n, TableFit(form, n), NEW r
    PROVE  \E p \in TablePicks(n) : /\ p.dialog = form.pick.dialog
                                    /\ TableForm!Succeeded(r) = [form EXCEPT !.pick = p]
<1>1. /\ form.pick \in TableAll /\ Shaped(form) /\ form.pick \in TablePicks(n)
      /\ form.pick.running \subseteq form.pick.rows
  BY TablePick DEF TableFit, Fit
<1>2. form = [form EXCEPT !.pick = form.pick]
  BY <1>1 DEF Shaped
<1>3. ASSUME NEW u \in SUBSET form.pick.rows, TableForm!Succeeded(r) = [form EXCEPT !.pick.running = u]
      PROVE  \E p \in TablePicks(n) : /\ p.dialog = form.pick.dialog
                                      /\ TableForm!Succeeded(r) = [form EXCEPT !.pick = p]
  <2> DEFINE p == [form.pick EXCEPT !.running = u]
  <2>1. p \in TableAll /\ p.dialog = form.pick.dialog /\ p.running \subseteq p.rows
    BY <1>1 DEF TableAll
  <2>2. TableForm!Succeeded(r) = [form EXCEPT !.pick = p]
    BY <1>1, <1>3 DEF Shaped
  <2> HIDE DEF p
  <2>3. p \in TablePicks(n)
    BY <2>1, TablePick
  <2> QED
    BY <2>1, <2>2, <2>3
<1>4. CASE "delete" \notin r.has /\ r.to # NoId
  <2>1. TableForm!Succeeded(r) = TableForm!Changed(r)
    BY <1>4 DEF TableForm!Succeeded
  <2>2. CASE "stop" \in r.has
    <3>1. TableForm!Succeeded(r) = [form EXCEPT !.pick.running = form.pick.running \ {r.to}]
      BY <1>1, <2>1, <2>2 DEF TableForm!Changed, Shaped
    <3>2. form.pick.running \ {r.to} \in SUBSET form.pick.rows
      BY <1>1
    <3> QED
      BY <1>3, <3>1, <3>2
  <2>3. CASE "stop" \notin r.has
    <3>1. TableForm!Succeeded(r)
             = [form EXCEPT !.pick.running = form.pick.running \cup ({r.to} \cap form.pick.rows)]
      BY <1>1, <2>1, <2>3 DEF TableForm!Changed, Shaped
    <3>2. form.pick.running \cup ({r.to} \cap form.pick.rows) \in SUBSET form.pick.rows
      BY <1>1
    <3> QED
      BY <1>3, <3>1, <3>2
  <2> QED
    BY <2>2, <2>3
<1>5. CASE "delete" \in r.has /\ r.to = NoId
  <2> DEFINE p == [[form.pick EXCEPT !.all = FALSE] EXCEPT !.keys = {}]
  <2>1. p \in TableAll /\ p.dialog = form.pick.dialog /\ p.running \subseteq p.rows
    BY <1>1 DEF TableAll
  <2>2. TableForm!Succeeded(r) = [form EXCEPT !.pick = p]
    BY <1>1, <1>5 DEF TableForm!Succeeded, Shaped
  <2> HIDE DEF p
  <2>3. p \in TablePicks(n)
    BY <2>1, TablePick
  <2> QED
    BY <2>1, <2>2, <2>3
<1>6. CASE ~("delete" \notin r.has /\ r.to # NoId) /\ ~("delete" \in r.has /\ r.to = NoId)
  <2>1. TableForm!Succeeded(r) = form
    BY <1>6 DEF TableForm!Succeeded
  <2> QED
    BY <1>1, <1>2, <2>1
<1> QED
  BY <1>4, <1>5, <1>6

\* The list has come, or what a success makes of it.
LEMMA TableHears ==
    ASSUME NEW n \in TableForm!TableFormNames, TableFit(form, n), NEW i \in DOMAIN form.asked,
           NEW p \in TablePicks(n), p.dialog = form.pick.dialog,
           TableForm!Loaded([form EXCEPT !.pick = p], i)
    PROVE  TableGoes(n)
<1>1. form' = [form EXCEPT !.pick = p, !.asked = Form!Without(form.asked, i), !.loading = FALSE]
  BY DEF TableForm!Loaded, TableForm!Without, Form!Without, TableFit, Fit, Shaped
<1>2. /\ Whole(n) /\ Heard /\ form'.target = form.target /\ form'.filled = form.filled
      /\ form'.rules = form.rules /\ form'.pick = p
  BY <1>1 DEF TableFit, Fit, Whole, Heard, Shaped
<1>3. form'.filled \subseteq TableFields /\ Rows(form'.rules, TableFields)
  BY <1>2 DEF TableFit, Fit
<1>4. TableExtra(form', n)
  BY <1>2 DEF TableFit, TableExtra
<1> QED
  BY <1>2, <1>3, <1>4, TableMoves

LEMMA TableAgain ==
    ASSUME NEW n \in TableForm!TableFormNames, TableFit(form, n), NEW i \in DOMAIN form.sent,
           NEW p \in TablePicks(n), p.dialog = form.pick.dialog, Len(form.asked) < MaxAsked,
           TableForm!Settled([[form EXCEPT !.pick = p]
                                EXCEPT !.asked = Append(@, NoId), !.loading = TRUE], i)
    PROVE  TableGoes(n)
<1>1. /\ form.name = n /\ form.open \in BOOLEAN /\ form.target \in Ids \cup {NoId}
      /\ form.shown \in Ids \cup {NoId} /\ Shaped(form)
  BY DEF TableFit, Fit
<1>4. /\ Whole(n) /\ AskedAgain /\ form'.target = form.target /\ form'.filled = form.filled
      /\ form'.rules = form.rules /\ form'.pick = p
  BY <1>1 DEF TableForm!Settled, TableForm!Without, Form!Without, Whole, AskedAgain, Shaped
<1>5. form'.filled \subseteq TableFields /\ Rows(form'.rules, TableFields)
  BY <1>4 DEF TableFit, Fit
<1>6. TableExtra(form', n)
  BY <1>4 DEF TableFit, TableExtra
<1> QED
  BY <1>4, <1>5, <1>6, TableMoves

\* Whatever is done in a form, it stays typed and shows what it submits.
LEMMA TableFormsStep ==
    ASSUME NEW n \in TableForm!TableFormNames, TableFit(form, n), TableForm!TableFormsNext
    PROVE  TableGoes(n)
<1>n. /\ form.name = n /\ form.pick \in TablePicks(n) /\ form.filled \subseteq TableFields
      /\ form.target \in Ids \cup {NoId} /\ form.shown \in Ids \cup {NoId}
      /\ form.open \in BOOLEAN /\ Rows(form.rules, TableFields) /\ Shaped(form) /\ TableExtra(form, n)
      /\ \A i \in DOMAIN form.asked : form.asked[i] \in Ids \cup {NoId}
  BY DEF TableFit, Fit, Asking
<1> USE <1>n
<1>1. CASE TableForm!TableRefreshes
  <2>1. /\ Whole(n) /\ Asked /\ form'.pick = form.pick /\ form'.filled = form.filled
        /\ form'.rules = form.rules /\ form'.target = form.target
    BY <1>1 DEF TableForm!TableRefreshes, TableForm!Asks, Whole, Asked, Shaped
  <2>2. TableExtra(form', n)
    BY <2>1 DEF TableExtra
  <2> QED
    BY <2>1, <2>2, TableMoves
<1>2. CASE TableForm!ToggleRow
  <2>1. PICK keys \in SUBSET TableForm!Keys : TableForm!Selects(FALSE, keys)
    <3>1. PICK k \in TableForm!OnScreen :
             LET before == IF form.pick.all THEN TableForm!OnScreen ELSE form.pick.keys
             IN  TableForm!Selects(FALSE, IF k \in before THEN before \ {k} ELSE before \cup {k})
      BY <1>2 DEF TableForm!ToggleRow
    <3>2. form.pick.rows \in SUBSET Ids /\ form.pick.keys \in SUBSET TableForm!Keys
      BY TablePick DEF TableAll
    <3>3. TableForm!OnScreen \in SUBSET TableForm!Keys
      BY <3>2, TableKeys DEF TableForm!OnScreen, TableForm!Keys
    <3> QED
      BY <3>1, <3>2, <3>3
  <2> QED
    BY <2>1, TableSelects
<1>3. CASE TableForm!ToggleAll
  <2>1. TableForm!Selects(FALSE, {}) \/ TableForm!Selects(TRUE, {})
    BY <1>3 DEF TableForm!ToggleAll
  <2> QED
    BY <2>1, TableSelects
<1>4. CASE TableForm!BatchStart
  <2> DEFINE ids == TableForm!Listed \ form.pick.running
             h == {"start"} \cup ids
  <2>1. /\ TableForm!Acts(NoId, "start", ids) /\ ids # {}
    BY <1>4 DEF TableForm!BatchStart
  <2>2. ids \in SUBSET TableForm!Keys /\ ids \subseteq Ids /\ ids \subseteq form.pick.rows
    BY SelectedKeys, TableKeys DEF TableForm!Listed
  <2>3. "start" \in TableForm!Operations
    BY DEF TableForm!Operations
  <2>4. ids \cap TableForm!Operations = {} /\ h \ TableForm!Operations = ids
    BY <2>2, <2>3, TableKeys
  <2>5. "delete" \notin h
    BY <2>4 DEF TableForm!Operations
  <2>6. h \cap {"stop", "restart"} = {} /\ ids \cap form.pick.running = {}
    BY <2>4 DEF TableForm!Operations
  <2>7. TableForm!Request(NoId, h).has = h
    BY DEF TableForm!Request
  <2>8. TableForm!TableSubmitsShown(TableForm!Request(NoId, h))
    BY <2>1, <2>2, <2>4, <2>5, <2>6, <2>7 DEF TableForm!TableSubmitsShown
  <2> HIDE DEF ids
  <2> QED
    BY <2>1, <2>2, <2>3, <2>8, TableActs
<1>5. CASE TableForm!BatchStop
  <2> DEFINE ids == TableForm!Listed \cap form.pick.running
             h == {"stop"} \cup ids
  <2>1. /\ TableForm!Acts(NoId, "stop", ids) /\ ids # {}
    BY <1>5 DEF TableForm!BatchStop
  <2>2. ids \in SUBSET TableForm!Keys /\ ids \subseteq Ids /\ ids \subseteq form.pick.rows
    BY SelectedKeys, TableKeys DEF TableForm!Listed
  <2>3. "stop" \in TableForm!Operations
    BY DEF TableForm!Operations
  <2>4. ids \cap TableForm!Operations = {} /\ h \ TableForm!Operations = ids
    BY <2>2, <2>3, TableKeys
  <2>5. "delete" \notin h
    BY <2>4 DEF TableForm!Operations
  <2>6. "start" \notin h /\ ids \subseteq form.pick.running
    BY <2>4 DEF TableForm!Operations
  <2>7. TableForm!Request(NoId, h).has = h
    BY DEF TableForm!Request
  <2>8. TableForm!TableSubmitsShown(TableForm!Request(NoId, h))
    BY <2>1, <2>2, <2>4, <2>5, <2>6, <2>7 DEF TableForm!TableSubmitsShown
  <2> HIDE DEF ids
  <2> QED
    BY <2>1, <2>2, <2>3, <2>8, TableActs
<1>6. CASE TableForm!BatchRestart
  <2> DEFINE ids == TableForm!Listed \cap form.pick.running
             h == {"restart"} \cup ids
  <2>1. /\ TableForm!Acts(NoId, "restart", ids) /\ ids # {}
    BY <1>6 DEF TableForm!BatchRestart
  <2>2. ids \in SUBSET TableForm!Keys /\ ids \subseteq Ids /\ ids \subseteq form.pick.rows
    BY SelectedKeys, TableKeys DEF TableForm!Listed
  <2>3. "restart" \in TableForm!Operations
    BY DEF TableForm!Operations
  <2>4. ids \cap TableForm!Operations = {} /\ h \ TableForm!Operations = ids
    BY <2>2, <2>3, TableKeys
  <2>5. "delete" \notin h
    BY <2>4 DEF TableForm!Operations
  <2>6. "start" \notin h /\ ids \subseteq form.pick.running
    BY <2>4 DEF TableForm!Operations
  <2>7. TableForm!Request(NoId, h).has = h
    BY DEF TableForm!Request
  <2>8. TableForm!TableSubmitsShown(TableForm!Request(NoId, h))
    BY <2>1, <2>2, <2>4, <2>5, <2>6, <2>7 DEF TableForm!TableSubmitsShown
  <2> HIDE DEF ids
  <2> QED
    BY <2>1, <2>2, <2>3, <2>8, TableActs
<1>7. CASE TableForm!ShowBatchDelete
  <2>1. TableForm!Shows("deletion")
    BY <1>7 DEF TableForm!ShowBatchDelete
  <2> QED
    BY <2>1, TableShows
<1>8. CASE TableForm!BatchDelete
  <2> DEFINE ids == TableForm!Selected
             h == {"delete"} \cup ids
  <2>1. TableForm!Acts(NoId, "delete", ids)
    BY <1>8 DEF TableForm!BatchDelete
  <2>2. ids \in SUBSET TableForm!Keys
    BY SelectedKeys
  <2>3. "delete" \in TableForm!Operations
    BY DEF TableForm!Operations
  <2>4. ids \cap TableForm!Operations = {} /\ h \ TableForm!Operations = ids
    BY <2>2, <2>3, TableKeys
  <2>5. "delete" \in h /\ "start" \notin h /\ h \cap {"stop", "restart"} = {}
    BY <2>4 DEF TableForm!Operations
  <2>6. TableForm!Request(NoId, h).has = h
    BY DEF TableForm!Request
  <2>7. Cardinality(ids) = TableForm!SelectedCount
    BY DEF TableForm!SelectedCount, TableForm!Cardinality, Cardinality
  <2>8. TableForm!TableSubmitsShown(TableForm!Request(NoId, h))
    BY <2>4, <2>5, <2>6 DEF TableForm!TableSubmitsShown, TableForm!SelectedCount
  <2> HIDE DEF ids
  <2> QED
    BY <2>1, <2>2, <2>3, <2>8, TableActs
<1>9. CASE TableForm!Export
  <2>1. TableForm!Shows("export")
    BY <1>9 DEF TableForm!Export
  <2> QED
    BY <2>1, TableShows
<1>10. CASE TableForm!TableDialogCloses
  <2>1. form' = [form EXCEPT !.pick.dialog = "none", !.target = NoId]
    BY <1>10 DEF TableForm!TableDialogCloses
  <2>2. /\ Whole(n) /\ Still /\ form'.pick = [form.pick EXCEPT !.dialog = "none"]
        /\ form'.filled = form.filled /\ form'.rules = form.rules
    BY <2>1 DEF Whole, Still, Shaped
  <2>3. /\ form'.pick \in TableAll /\ form'.pick.running = form.pick.running
        /\ form'.pick.rows = form.pick.rows /\ form'.pick.dialog = "none"
    BY <2>2, TablePick DEF TableAll, TableForm!TableDialogs
  <2>4. form'.pick \in TablePicks(n)
    BY <2>3, TablePick
  <2>5. TableExtra(form', n)
    BY <2>3 DEF TableExtra
  <2> QED
    BY <2>2, <2>4, <2>5, TableMoves
<1>11. CASE TableForm!RowToggles
  <2>1. PICK k \in Ids : TableForm!Acts(k, IF k \in form.pick.running THEN "stop" ELSE "start", {})
    BY <1>11 DEF TableForm!RowToggles
  <2>2. TableForm!Acts(k, "stop", {}) \/ TableForm!Acts(k, "start", {})
    BY <2>1
  <2>3. "stop" \in TableForm!Operations /\ "start" \in TableForm!Operations
    BY DEF TableForm!Operations
  <2> QED
    BY <2>2, <2>3, RowActs
<1>12. CASE TableForm!RowRestarts
  <2>1. PICK k \in form.pick.running : TableForm!Acts(k, "restart", {})
    BY <1>12 DEF TableForm!RowRestarts
  <2>2. k \in Ids /\ "restart" \in TableForm!Operations
    BY TablePick DEF TableAll, TableForm!Operations
  <2> QED
    BY <2>1, <2>2, RowActs
<1>13. CASE TableForm!RowErases
  <2>1. PICK k \in Ids : form' = [form EXCEPT !.pick.dialog = "erase", !.target = k]
    BY <1>13 DEF TableForm!RowErases
  <2>2. /\ Whole(n) /\ Still /\ form'.pick = [form.pick EXCEPT !.dialog = "erase"]
        /\ form'.filled = form.filled /\ form'.rules = form.rules /\ form'.target \in Ids
    BY <2>1 DEF Whole, Still, Shaped
  <2>3. /\ form'.pick \in TableAll /\ form'.pick.running = form.pick.running
        /\ form'.pick.rows = form.pick.rows
    BY <2>2, TablePick DEF TableAll, TableForm!TableDialogs
  <2>4. form'.pick \in TablePicks(n)
    BY <2>3, TablePick
  <2>5. TableExtra(form', n)
    BY <2>2 DEF TableExtra
  <2> QED
    BY <2>2, <2>4, <2>5, TableMoves
<1>14. CASE TableForm!RowDeletes
  <2> DEFINE r == TableForm!Request(form.target, {"delete"})
  <2>1. /\ Len(form.sent) < MaxSent /\ form.target \in Ids
        /\ form' = [form EXCEPT !.sent = Append(@, r), !.pick.dialog = "none", !.target = NoId]
    BY <1>14 DEF TableForm!RowDeletes, TableForm!In, TableExtra
  <2>2. r \in TableRequests(n)
    <3>1. "delete" \in TableForm!Operations /\ {"delete"} = {"delete"} \cup {}
      BY DEF TableForm!Operations
    <3> QED
      BY <3>1, TableRequest
  <2>3. r.to # NoId
    BY <2>1, TrendNilAssumption DEF TableForm!Request
  <2> HIDE DEF r
  <2>4. /\ Whole(n) /\ form'.sent = Append(form.sent, r) /\ form'.asked = form.asked
        /\ form'.loading = form.loading /\ form'.busy = form.busy
        /\ form'.filled = form.filled /\ form'.rules = form.rules
        /\ form'.pick = [form.pick EXCEPT !.dialog = "none"]
    BY <2>1 DEF Whole, Shaped
  <2>5. Submits(r)
    BY <2>1, <2>4 DEF Submits
  <2>6. /\ form'.pick \in TableAll /\ form'.pick.running = form.pick.running
        /\ form'.pick.rows = form.pick.rows /\ form'.pick.dialog = "none"
    BY <2>4, TablePick DEF TableAll, TableForm!TableDialogs
  <2>7. form'.pick \in TablePicks(n)
    BY <2>6, TablePick
  <2>8. TableExtra(form', n)
    BY <2>6 DEF TableExtra
  <2>9. form'.busy \in BOOLEAN
    BY <2>4 DEF TableFit, Fit
  <2>10. TableForm!TableSubmitsShown(r)
    BY <2>3 DEF TableForm!TableSubmitsShown
  <2> QED
    BY <2>1, <2>2, <2>4, <2>5, <2>7, <2>8, <2>9, <2>10, TableSends
<1>15. ASSUME NEW i \in DOMAIN form.asked, TableForm!TableAnswered(i)
      PROVE  TableGoes(n)
  <2>1. CASE TableForm!Loaded(form, i)
    <3>1. form = [form EXCEPT !.pick = form.pick]
      BY DEF Shaped
    <3> QED
      BY <2>1, <3>1, TableHears
  <2>2. ASSUME NEW rows \in SUBSET Ids, NEW running \in SUBSET rows,
               TableForm!Loaded([form EXCEPT !.pick.rows = rows, !.pick.running = running], i)
        PROVE  TableGoes(n)
    <3> DEFINE q == [form.pick EXCEPT !.rows = rows]
               p == [q EXCEPT !.running = running]
    <3>5. q \in TableAll /\ q.rows = rows /\ q.dialog = form.pick.dialog
      BY TablePick DEF TableAll
    <3>6. running \in SUBSET Ids
      OBVIOUS
    <3>1. /\ p \in TableAll /\ p.running \subseteq p.rows /\ p.dialog = form.pick.dialog
      <4> HIDE DEF q
      <4> QED
        BY <3>5, <3>6 DEF TableAll
    <3>2. [form EXCEPT !.pick.rows = rows, !.pick.running = running] = [form EXCEPT !.pick = p]
      BY DEF Shaped
    <3> HIDE DEF p
    <3>3. TableForm!Loaded([form EXCEPT !.pick = p], i)
      BY <2>2, <3>2
    <3>4. p \in TablePicks(n)
      BY <3>1, TablePick
    <3> QED
      BY <3>1, <3>3, <3>4, TableHears
  <2> QED
    BY <1>15, <2>1, <2>2 DEF TableForm!TableAnswered
<1>16. ASSUME NEW i \in DOMAIN form.sent, TableForm!TableSettled(i)
      PROVE  TableGoes(n)
  <2>1. CASE TableForm!Settled(form, i)
    <3>1. /\ Whole(n) /\ Replied /\ form'.pick = form.pick /\ form'.filled = form.filled
          /\ form'.rules = form.rules /\ form'.target = form.target
      BY <2>1 DEF TableForm!Settled, TableForm!Without, Form!Without, Whole, Replied, Shaped
    <3>2. TableExtra(form', n)
      BY <3>1 DEF TableExtra
    <3> QED
      BY <3>1, <3>2, TableMoves
  <2>2. CASE /\ Len(form.asked) < MaxAsked
             /\ TableForm!Settled([TableForm!Succeeded(form.sent[i])
                                     EXCEPT !.asked = Append(@, NoId), !.loading = TRUE], i)
    <3> DEFINE f == TableForm!Succeeded(form.sent[i])
    <3>1. PICK p \in TablePicks(n) : p.dialog = form.pick.dialog /\ f = [form EXCEPT !.pick = p]
      BY SucceededIs
    <3>2. TableForm!Settled([[form EXCEPT !.pick = p]
                               EXCEPT !.asked = Append(@, NoId), !.loading = TRUE], i)
      BY <2>2, <3>1
    <3> HIDE DEF f
    <3> QED
      BY <2>2, <3>1, <3>2, TableAgain
  <2> QED
    BY <1>16, <2>1, <2>2 DEF TableForm!TableSettled
<1> QED
  BY <1>1, <1>2, <1>3, <1>4, <1>5, <1>6, <1>7, <1>8, <1>9, <1>10, <1>11, <1>12, <1>13, <1>14,
     <1>15, <1>16
     DEF TableForm!TableFormsNext

LEMMA TableStarts ==
    ASSUME NEW q, NEW f \in TableForm!TableFormsOf(q)
    PROVE  f.name \in TableForm!TableFormNames /\ TableFit(f, f.name)
<1>1. f = [name |-> "table", open |-> TRUE, target |-> NoId, shown |-> NoId,
           pick |-> [rows |-> {}, running |-> {}, all |-> FALSE, keys |-> {}, dialog |-> "none"],
           filled |-> {}, rules |-> <<>>, asked |-> <<NoId>>, loading |-> TRUE, busy |-> FALSE,
           sent |-> <<>>]
  BY DEF TableForm!TableFormsOf, TableForm!TableStart, TableForm!FormOf
<1>2. f.pick \in TableAll /\ f.pick.running \subseteq f.pick.rows /\ f.pick.dialog # "erase"
  BY <1>1 DEF TableAll, TableForm!TableDialogs
<1>3. f.pick \in TablePicks("table")
  BY <1>2, TablePick
<1>4. /\ Shaped(f) /\ f.name = "table" /\ f.open \in BOOLEAN /\ f.loading \in BOOLEAN
      /\ f.busy = FALSE /\ f.target = NoId /\ f.shown = NoId /\ f.filled \subseteq TableFields
      /\ f.rules = <<>> /\ f.asked = <<NoId>> /\ f.sent = <<>>
  BY <1>1 DEF Shaped
<1>5. TableExtra(f, "table")
  BY <1>2 DEF TableExtra
<1> QED
  BY <1>3, <1>4, <1>5, Begins DEF TableFit, TableForm!TableFormNames

-----------------------------------------------------------------------------
(* The sign-in form and the guide                                          *)

LoginPicks == [bound : AccountForm!Bindings, shut : BOOLEAN]

GuidePicks == [step : 1..3, modes : SUBSET AccountForm!Modes]

AccountPicks(n) == IF n = "login" THEN LoginPicks ELSE GuidePicks

AccountFields == AccountForm!AccountFields

AccountRequests(n) == {r \in Requests(AccountFields) : r.has = {"username", "password"}}

\* The form of sign-in looks at no flag.
AccountMode(n) == IF n = "login" THEN "many" ELSE "flag"

\* Nobody reaches the third step of the guide without the fields of the second.
AccountExtra(f, n) == n = "guide" /\ f.pick.step = 3 => AccountFields \subseteq f.filled

AccountFit(f, n) ==
    Fit(f, n, AccountFields, AccountPicks(n), AccountRequests(n), AccountMode(n)) /\ AccountExtra(f, n)

\* A step keeps the form typed, and submits what is shown.
AccountGoes(n) == AccountFit(form', n) /\ (Quiet \/ AccountForm!AccountSubmitsShown(Last))

LEMMA AccountMoves ==
    ASSUME NEW n, AccountFit(form, n), Whole(n),
           Still \/ Stopped \/ Asked \/ Heard \/ Replied \/ AskedAgain,
           form'.pick \in AccountPicks(n), form'.filled \subseteq AccountFields,
           Rows(form'.rules, AccountFields), AccountExtra(form', n)
    PROVE  AccountGoes(n)
  BY Steps DEF AccountFit, AccountGoes

LEMMA AccountSends ==
    ASSUME NEW n, AccountFit(form, n), NEW r \in AccountRequests(n), Submits(r),
           (AccountMode(n) = "flag" => ~form.busy /\ form'.busy = TRUE), form'.busy \in BOOLEAN, Whole(n),
           form'.pick \in AccountPicks(n), form'.filled \subseteq AccountFields,
           Rows(form'.rules, AccountFields), AccountExtra(form', n), AccountForm!AccountSubmitsShown(r)
    PROVE  AccountGoes(n)
<1>1. Fit(form', n, AccountFields, AccountPicks(n), AccountRequests(n), AccountMode(n)) /\ Last = r
  BY Submissions DEF AccountFit, AccountMode
<1> QED
  BY <1>1 DEF AccountFit, AccountGoes

LEMMA AccountTyped ==
    ASSUME NEW n, AccountFit(form, n), NEW fields \in SUBSET AccountFields, AccountForm!Types(fields)
    PROVE  /\ Whole(n) /\ Still /\ Filled
           /\ form'.filled \subseteq form.filled \cup fields /\ form'.filled \subseteq AccountFields
<1>1. PICK h \in SUBSET (form.filled \cup fields) : form' = [form EXCEPT !.filled = h]
  BY DEF AccountForm!Types, AccountForm!Typings
<1> QED
  BY <1>1 DEF AccountFit, Fit, Shaped, Whole, Still, Filled

LEMMA AccountHas == AccountFields = {"username", "password", "confirm"}
  BY DEF AccountFields, AccountForm!AccountFields

LEMMA AccountNames ==
    /\ AccountForm!AccountFormNames = {"login", "guide"}
    /\ AccountPicks("login") = LoginPicks /\ AccountPicks("guide") = GuidePicks
  BY DEF AccountForm!AccountFormNames, AccountPicks

LEMMA AccountRequest ==
    ASSUME NEW n
    PROVE  AccountForm!Request(NoId, {"username", "password"}) \in AccountRequests(n)
  BY EmptySeq, AccountHas DEF AccountForm!Request, AccountRequests, Requests

\* Whatever is done in a form, it stays typed and shows what it submits.
LEMMA AccountFormsStep ==
    ASSUME NEW n \in AccountForm!AccountFormNames, AccountFit(form, n), AccountForm!AccountFormsNext
    PROVE  AccountGoes(n)
<1>n. /\ form.name = n /\ form.pick \in AccountPicks(n) /\ form.filled \subseteq AccountFields
      /\ form.target \in Ids \cup {NoId} /\ form.shown \in Ids \cup {NoId}
      /\ form.open \in BOOLEAN /\ Rows(form.rules, AccountFields) /\ Shaped(form) /\ AccountExtra(form, n)
      /\ \A i \in DOMAIN form.asked : form.asked[i] \in Ids \cup {NoId}
  BY DEF AccountFit, Fit, Asking
<1> USE <1>n
<1>1. CASE AccountForm!LoginTypes
  <2>1. n = "login" /\ AccountPicks(n) = LoginPicks /\ form.pick \in LoginPicks
    BY <1>1
       DEF AccountForm!LoginTypes, AccountForm!Named, AccountForm!LoginShown, AccountPicks
  <2>2. {"username", "password"} \in SUBSET AccountFields
    BY AccountHas
  <2>3. /\ Whole(n) /\ Still /\ Filled
        /\ form'.filled \subseteq form.filled \cup {"username", "password"}
        /\ form'.filled \subseteq AccountFields
    BY <1>1, <2>2, AccountTyped DEF AccountForm!LoginTypes
  <2>4. AccountExtra(form', n)
    BY <2>1, <2>3 DEF Filled, AccountExtra, LoginPicks
  <2> QED
    BY <2>1, <2>3, <2>4, AccountMoves DEF Filled
<1>2. CASE AccountForm!LoginSubmits
  <2>1. n = "login" /\ AccountPicks(n) = LoginPicks /\ form.pick \in LoginPicks
    BY <1>2
       DEF AccountForm!LoginSubmits, AccountForm!Named, AccountForm!LoginShown, AccountPicks
  <2>2. AccountForm!Sends(AccountForm!Request(NoId, {"username", "password"}))
    BY <1>2, <2>1, AccountHas DEF AccountForm!LoginSubmits, AccountExtra, AccountForm!GuideAt
  <2>3. /\ Submits(AccountForm!Request(NoId, {"username", "password"})) /\ form'.busy = TRUE
        /\ Whole(n) /\ Filled /\ form'.filled = form.filled
    BY <2>1, <2>2 DEF AccountForm!Sends, Submits, Whole, Filled, Shaped
  <2>4. AccountMode(n) = "flag" => ~form.busy
    BY <1>2, <2>1 DEF AccountForm!LoginSubmits, AccountMode
  <2>5. AccountForm!AccountSubmitsShown(AccountForm!Request(NoId, {"username", "password"}))
    BY <1>2, <2>1 DEF AccountForm!LoginSubmits, AccountForm!AccountSubmitsShown, AccountForm!LoginShown, AccountForm!Named
  <2>6. AccountExtra(form', n)
    BY <2>3 DEF Filled, AccountExtra
  <2>7. AccountForm!Request(NoId, {"username", "password"}) \in AccountRequests(n)
    BY AccountRequest
  <2>8. AccountMode(n) = "flag" => ~form.busy /\ form'.busy = TRUE
    BY <2>3, <2>4
  <2> QED
    BY <2>1, <2>3, <2>5, <2>6, <2>7, <2>8, AccountSends DEF Filled
<1>3. CASE AccountForm!GuideTypes
  <2>1. n = "guide" /\ AccountPicks(n) = GuidePicks /\ form.pick \in GuidePicks
    BY <1>3
       DEF AccountForm!GuideTypes, AccountForm!Named, AccountForm!GuideAt, AccountPicks
  <2>2. AccountForm!AccountFields \in SUBSET AccountFields
    BY AccountHas DEF AccountFields
  <2>3. /\ Whole(n) /\ Still /\ Filled
        /\ form'.filled \subseteq form.filled \cup AccountForm!AccountFields
        /\ form'.filled \subseteq AccountFields
    BY <1>3, <2>2, AccountTyped DEF AccountForm!GuideTypes
  <2>4. AccountExtra(form', n)
    BY <2>1, <2>3, <1>3
       DEF Filled, AccountExtra, GuidePicks, AccountForm!GuideTypes, AccountForm!GuideAt,
           AccountForm!Named
  <2> QED
    BY <2>1, <2>3, <2>4, AccountMoves DEF Filled
<1>4. CASE AccountForm!GuideNext
  <2>1. n = "guide" /\ AccountPicks(n) = GuidePicks /\ form.pick \in GuidePicks
    BY <1>4 DEF AccountForm!GuideNext, AccountForm!Named, AccountPicks
  <2>2. form.pick.step \in 1..3 /\ (form.pick.step + 1) \in 1..3 /\ form' = [form EXCEPT !.pick.step = (form.pick.step + 1)]
    BY <1>4, <2>1 DEF AccountForm!GuideNext, GuidePicks, AccountForm!GuideTurns
  <2>3. /\ Whole(n) /\ Still /\ form'.filled = form.filled /\ form'.rules = form.rules
        /\ form'.pick = [form.pick EXCEPT !.step = (form.pick.step + 1)]
    BY <2>1, <2>2 DEF Whole, Still, Shaped
  <2>4. form'.pick \in GuidePicks /\ form'.pick.step = (form.pick.step + 1)
    BY <2>1, <2>2, <2>3 DEF GuidePicks
  <2>5. AccountExtra(form', n)
    BY <1>4, <2>2, <2>3, <2>4 DEF AccountForm!GuideNext, AccountExtra, AccountFields
  <2> QED
    BY <2>1, <2>3, <2>4, <2>5, AccountMoves
<1>5. CASE AccountForm!GuideBack
  <2>1. n = "guide" /\ AccountPicks(n) = GuidePicks /\ form.pick \in GuidePicks
    BY <1>5 DEF AccountForm!GuideBack, AccountForm!Named, AccountPicks
  <2>2. form.pick.step \in 1..3 /\ (form.pick.step - 1) \in 1..3 /\ form' = [form EXCEPT !.pick.step = (form.pick.step - 1)]
    BY <1>5, <2>1 DEF AccountForm!GuideBack, GuidePicks, AccountForm!GuideTurns
  <2>3. /\ Whole(n) /\ Still /\ form'.filled = form.filled /\ form'.rules = form.rules
        /\ form'.pick = [form.pick EXCEPT !.step = (form.pick.step - 1)]
    BY <2>1, <2>2 DEF Whole, Still, Shaped
  <2>4. form'.pick \in GuidePicks /\ form'.pick.step = (form.pick.step - 1)
    BY <2>1, <2>2, <2>3 DEF GuidePicks
  <2>5. AccountExtra(form', n)
    BY <1>5, <2>2, <2>3, <2>4 DEF AccountForm!GuideBack, AccountExtra, AccountFields
  <2> QED
    BY <2>1, <2>3, <2>4, <2>5, AccountMoves
<1>6. CASE AccountForm!GuideModes
  <2>1. n = "guide" /\ AccountPicks(n) = GuidePicks /\ form.pick \in GuidePicks
    BY <1>6
       DEF AccountForm!GuideModes, AccountForm!Named, AccountForm!GuideAt, AccountPicks
  <2>2. PICK s \in SUBSET AccountForm!Modes : form' = [form EXCEPT !.pick.modes = s]
    BY <1>6, <2>1 DEF AccountForm!GuideModes, GuidePicks, Shaped
  <2>3. /\ Whole(n) /\ Still /\ form'.filled = form.filled /\ form'.rules = form.rules
        /\ form'.pick = [form.pick EXCEPT !.modes = s]
    BY <2>1, <2>2 DEF Whole, Still, Shaped
  <2>4. form'.pick \in GuidePicks /\ form'.pick.step = form.pick.step
    BY <2>1, <2>3 DEF GuidePicks
  <2>5. AccountExtra(form', n)
    BY <2>1, <2>3, <2>4 DEF AccountExtra
  <2> QED
    BY <2>1, <2>3, <2>4, <2>5, AccountMoves
<1>7. CASE AccountForm!GuideSubmits
  <2>1. n = "guide" /\ AccountPicks(n) = GuidePicks /\ form.pick \in GuidePicks
    BY <1>7
       DEF AccountForm!GuideSubmits, AccountForm!Named, AccountForm!GuideAt, AccountPicks
  <2>2. AccountForm!Sends(AccountForm!Request(NoId, {"username", "password"}))
    BY <1>7, <2>1, AccountHas DEF AccountForm!GuideSubmits, AccountExtra, AccountForm!GuideAt
  <2>3. /\ Submits(AccountForm!Request(NoId, {"username", "password"})) /\ form'.busy = TRUE
        /\ Whole(n) /\ Filled /\ form'.filled = form.filled
    BY <2>1, <2>2 DEF AccountForm!Sends, Submits, Whole, Filled, Shaped
  <2>4. AccountMode(n) = "flag" => ~form.busy
    BY <1>7, <2>1 DEF AccountForm!GuideSubmits, AccountMode
  <2>5. AccountForm!AccountSubmitsShown(AccountForm!Request(NoId, {"username", "password"}))
    BY <1>7, <2>1 DEF AccountForm!GuideSubmits, AccountForm!AccountSubmitsShown, AccountForm!LoginShown, AccountForm!Named
  <2>6. AccountExtra(form', n)
    BY <2>3 DEF Filled, AccountExtra
  <2>7. AccountForm!Request(NoId, {"username", "password"}) \in AccountRequests(n)
    BY AccountRequest
  <2>8. AccountMode(n) = "flag" => ~form.busy /\ form'.busy = TRUE
    BY <2>3, <2>4
  <2> QED
    BY <2>1, <2>3, <2>5, <2>6, <2>7, <2>8, AccountSends DEF Filled
<1>8. ASSUME NEW i \in DOMAIN form.asked, AccountForm!LoginHeard(i)
      PROVE  AccountGoes(n)
  <2>1. n = "login" /\ AccountPicks(n) = LoginPicks /\ form.pick \in LoginPicks
    BY <1>8 DEF AccountForm!LoginHeard, AccountForm!Named, AccountPicks
  <2>2. CASE AccountForm!Loaded(form, i)
    <3>1. Whole(n) /\ Heard
      BY <2>1, <2>2
         DEF AccountForm!Loaded, AccountForm!Without, Form!Without, Whole, Heard, Shaped
    <3>2. /\ form'.pick \in LoginPicks /\ form'.filled \subseteq AccountFields
          /\ Rows(form'.rules, AccountFields)
      BY <2>1, <2>2, AccountHas
         DEF AccountForm!Loaded, AccountForm!Without, Shaped, LoginPicks
    <3>3. AccountExtra(form', n)
      BY <2>1, <2>2
         DEF AccountForm!Loaded, AccountForm!Without, Shaped, AccountExtra, LoginPicks
    <3> QED
      BY <2>1, <3>1, <3>2, <3>3, AccountMoves
  <2>3. ASSUME NEW b \in AccountForm!Bindings, NEW s \in BOOLEAN, AccountForm!Loaded([form EXCEPT !.pick = [bound |-> b, shut |-> s]], i)
       PROVE  AccountGoes(n)
    <3>1. Whole(n) /\ Heard
      BY <2>1, <2>3
         DEF AccountForm!Loaded, AccountForm!Without, Form!Without, Whole, Heard, Shaped
    <3>2. /\ form'.pick \in LoginPicks /\ form'.filled \subseteq AccountFields
          /\ Rows(form'.rules, AccountFields)
      BY <2>1, <2>3, AccountHas
         DEF AccountForm!Loaded, AccountForm!Without, Shaped, LoginPicks
    <3>3. AccountExtra(form', n)
      BY <2>1, <2>3
         DEF AccountForm!Loaded, AccountForm!Without, Shaped, AccountExtra, LoginPicks
    <3> QED
      BY <2>1, <3>1, <3>2, <3>3, AccountMoves
  <2> QED
    BY <1>8, <2>2, <2>3 DEF AccountForm!LoginHeard
<1>9. ASSUME NEW i \in DOMAIN form.sent, AccountForm!LoginSettled(i)
      PROVE  AccountGoes(n)
  <2>1. n = "login" /\ AccountPicks(n) = LoginPicks /\ form.pick \in LoginPicks
    BY <1>9 DEF AccountForm!LoginSettled, AccountForm!Named, AccountPicks
  <2>2. Whole(n) /\ Replied
    BY <1>9, <2>1
       DEF AccountForm!LoginSettled, AccountForm!Named, AccountForm!Settled,
           AccountForm!Without, Whole, Replied, Shaped, Form!Without
  <2>3. /\ form'.pick \in LoginPicks /\ form'.filled \subseteq AccountFields
        /\ Rows(form'.rules, AccountFields)
    BY <1>9, <2>1, AccountHas
       DEF AccountForm!LoginSettled, AccountForm!Named, AccountForm!Settled,
           AccountForm!Without, Shaped, LoginPicks
  <2>4. AccountExtra(form', n)
    BY <1>9, <2>1
       DEF AccountForm!LoginSettled, AccountForm!Named, AccountForm!Settled,
           AccountForm!Without, Shaped, AccountExtra, LoginPicks
  <2> QED
    BY <2>1, <2>2, <2>3, <2>4, AccountMoves
<1>10. ASSUME NEW i \in DOMAIN form.sent, AccountForm!GuideSettled(i)
      PROVE  AccountGoes(n)
  <2>1. n = "guide" /\ AccountPicks(n) = GuidePicks /\ form.pick \in GuidePicks
    BY <1>10 DEF AccountForm!GuideSettled, AccountForm!Named, AccountPicks
  <2>2. Whole(n) /\ Replied
    BY <1>10, <2>1
       DEF AccountForm!GuideSettled, AccountForm!Named, AccountForm!Settled,
           AccountForm!Without, Whole, Replied, Shaped, Form!Without
  <2>3. /\ form'.pick \in GuidePicks /\ form'.filled \subseteq AccountFields
        /\ Rows(form'.rules, AccountFields)
    BY <1>10, <2>1, AccountHas
       DEF AccountForm!GuideSettled, AccountForm!Named, AccountForm!Settled,
           AccountForm!Without, Shaped, GuidePicks
  <2>4. AccountExtra(form', n)
    BY <1>10, <2>1
       DEF AccountForm!GuideSettled, AccountForm!Named, AccountForm!Settled,
           AccountForm!Without, Shaped, AccountExtra, GuidePicks
  <2> QED
    BY <2>1, <2>2, <2>3, <2>4, AccountMoves
<1> QED
  BY <1>1, <1>2, <1>3, <1>4, <1>5, <1>6, <1>7, <1>8, <1>9, <1>10
     DEF AccountForm!AccountFormsNext

LEMMA AccountStarts ==
    ASSUME NEW p, NEW f \in AccountForm!AccountFormsOf(p)
    PROVE  f.name \in AccountForm!AccountFormNames /\ AccountFit(f, f.name)
<1>1. CASE f = AccountForm!LoginStart
  <2>1. f = [name |-> "login", open |-> TRUE, target |-> NoId, shown |-> NoId,
             pick |-> [bound |-> "none", shut |-> FALSE], filled |-> {}, rules |-> <<>>,
             asked |-> <<NoId>>, loading |-> FALSE, busy |-> FALSE, sent |-> <<>>]
    BY <1>1 DEF AccountForm!LoginStart, AccountForm!FormOf
  <2>2. f.pick \in AccountPicks("login")
    BY <2>1, AccountNames DEF LoginPicks, AccountForm!Bindings
  <2>3. /\ Shaped(f) /\ f.name = "login" /\ f.open \in BOOLEAN /\ f.loading \in BOOLEAN
        /\ f.busy = FALSE /\ f.target = NoId /\ f.shown = NoId /\ f.filled \subseteq AccountFields
        /\ f.rules = <<>> /\ f.asked = <<NoId>> /\ f.sent = <<>>
    BY <2>1 DEF Shaped
  <2>4. AccountExtra(f, "login")
    BY DEF AccountExtra
  <2> QED
    BY <2>2, <2>3, <2>4, Begins, AccountNames DEF AccountFit
<1>2. CASE f = AccountForm!GuideStart
  <2>1. f = [name |-> "guide", open |-> TRUE, target |-> NoId, shown |-> NoId,
             pick |-> [step |-> 1, modes |-> {"privacy"}], filled |-> {}, rules |-> <<>>,
             asked |-> <<>>, loading |-> FALSE, busy |-> FALSE, sent |-> <<>>]
    BY <1>2 DEF AccountForm!GuideStart, AccountForm!FormOf
  <2>2. f.pick \in AccountPicks("guide") /\ f.pick.step = 1
    <3>1. f.pick = [step |-> 1, modes |-> {"privacy"}]
      BY <2>1
    <3>2. 1 \in 1..3 /\ {"privacy"} \in SUBSET AccountForm!Modes
      BY DEF AccountForm!Modes
    <3>3. [step |-> 1, modes |-> {"privacy"}] \in GuidePicks
      BY <3>2 DEF GuidePicks
    <3>4. f.pick.step = 1
      BY <3>1
    <3> QED
      BY <3>1, <3>3, <3>4, AccountNames
  <2>3. /\ Shaped(f) /\ f.name = "guide" /\ f.open \in BOOLEAN /\ f.loading = FALSE
        /\ f.busy = FALSE /\ f.target = NoId /\ f.shown = NoId /\ f.filled \subseteq AccountFields
        /\ f.rules = <<>> /\ f.asked = <<>> /\ f.sent = <<>>
    BY <2>1 DEF Shaped
  <2>4. AccountExtra(f, "guide")
    BY <2>2 DEF AccountExtra
  <2> QED
    BY <2>2, <2>3, <2>4, Begins, AccountNames DEF AccountFit
<1> QED
  BY <1>1, <1>2 DEF AccountForm!AccountFormsOf

-----------------------------------------------------------------------------
(* The preferences of the user                                             *)

PreferencePicks ==
    [kind : Preference!Kinds, saved : Preference!Settings, kept : Preference!Themes,
     news : Preference!Tabs \cup {"none"},
     tabs : [Preference!Tabs -> [settings : Preference!Settings, theme : Preference!Themes]]]

\* The tab t shows the theme that is kept, and its settings say so.
Follows(p, t) == p.tabs[t].theme = p.kept /\ p.tabs[t].settings.theme = p.kept

\* All agree.
Agreed(p) == p.saved.theme = p.kept /\ \A t \in Preference!Tabs : Follows(p, t)

\* The tab the theme is on its way to shows the theme its settings name, and may have saved
\* it once more; the other tab follows.
Lags(p) ==
    /\ p.saved.theme \in {p.kept, p.tabs[p.news].settings.theme}
    /\ p.tabs[p.news].settings.theme = p.tabs[p.news].theme
    /\ \A t \in Preference!Tabs \ {p.news} : Follows(p, t)

ThemeFollows(p) == IF p.news = "none" THEN Agreed(p) ELSE Lags(p)

PreferenceFit(f, n) ==
    Fit(f, n, {}, PreferencePicks, {}, "flag") /\ ThemeFollows(f.pick)

PreferenceGoes(n) == PreferenceFit(form', n) /\ Quiet

LEMMA TabsAre ==
    /\ Preference!Tabs = {"here", "there"} /\ "none" \notin Preference!Tabs
    /\ \A t, u \in Preference!Tabs : t # u => \A x \in Preference!Tabs : x = t \/ x = u
  BY DEF Preference!Tabs

LEMMA OtherTab ==
    ASSUME NEW t \in Preference!Tabs
    PROVE  /\ (CHOOSE u \in Preference!Tabs : u # t) \in Preference!Tabs
           /\ (CHOOSE u \in Preference!Tabs : u # t) # t
<1>1. \E u \in Preference!Tabs : u # t
  BY DEF Preference!Tabs
<1> QED
  BY <1>1

LEMMA TabIs ==
    ASSUME NEW p \in PreferencePicks, NEW t \in Preference!Tabs
    PROVE  /\ p.tabs[t].settings \in Preference!Settings /\ p.tabs[t].theme \in Preference!Themes
           /\ p.tabs[t].settings.theme \in Preference!Themes
           /\ p.tabs[t].settings.changed \in BOOLEAN
           /\ p.kept \in Preference!Themes /\ p.saved \in Preference!Settings
           /\ p.news \in Preference!Tabs \cup {"none"} /\ p.kind \in Preference!Kinds
<1>1. p.tabs[t] \in [settings : Preference!Settings, theme : Preference!Themes]
  BY DEF PreferencePicks
<1>2. p.tabs[t].settings \in Preference!Settings /\ p.tabs[t].theme \in Preference!Themes
  BY <1>1
<1>3. /\ p.tabs[t].settings.theme \in Preference!Themes
      /\ p.tabs[t].settings.changed \in BOOLEAN
  BY <1>2 DEF Preference!Settings
<1>4. /\ p.kept \in Preference!Themes /\ p.saved \in Preference!Settings
      /\ p.news \in Preference!Tabs \cup {"none"} /\ p.kind \in Preference!Kinds
  BY DEF PreferencePicks
<1> QED
  BY <1>2, <1>3, <1>4

\* q differs from p in the tab t and in what is kept beside the tabs.
TabSet(p, q, t, settings, theme) ==
    /\ q.tabs[t].settings = settings /\ q.tabs[t].theme = theme
    /\ \A u \in Preference!Tabs : u # t => q.tabs[u] = p.tabs[u]

LEMMA TabChanges ==
    ASSUME NEW p \in PreferencePicks, NEW t \in Preference!Tabs,
           NEW s \in Preference!Settings, NEW v \in Preference!Themes,
           NEW q, q = [p EXCEPT !.tabs[t] = [settings |-> s, theme |-> v]]
    PROVE  /\ q \in PreferencePicks /\ TabSet(p, q, t, s, v)
           /\ q.saved = p.saved /\ q.kept = p.kept /\ q.news = p.news
<1> DEFINE T == [settings : Preference!Settings, theme : Preference!Themes]
           w == [p.tabs EXCEPT ![t] = [settings |-> s, theme |-> v]]
<1>1. p.tabs \in [Preference!Tabs -> T]
  BY DEF PreferencePicks
<1>2. [settings |-> s, theme |-> v] \in T
  OBVIOUS
<1>3. w \in [Preference!Tabs -> T] /\ w[t] = [settings |-> s, theme |-> v]
      /\ \A u \in Preference!Tabs : u # t => w[u] = p.tabs[u]
  <2> HIDE DEF T
  <2> QED
    BY <1>1, <1>2
<1>4. q = [p EXCEPT !.tabs = w]
  OBVIOUS
<1> HIDE DEF w, T
<1>5. q \in PreferencePicks /\ q.tabs = w /\ q.saved = p.saved /\ q.kept = p.kept /\ q.news = p.news
  BY <1>3, <1>4 DEF PreferencePicks, T
<1> QED
  BY <1>3, <1>5 DEF TabSet

LEMMA SavedIs ==
    ASSUME NEW p \in PreferencePicks, NEW t \in Preference!Tabs, NEW s \in Preference!Settings,
           NEW q, q = Preference!SavedAs(p, t, s)
    PROVE  /\ q \in PreferencePicks /\ TabSet(p, q, t, s, p.tabs[t].theme)
           /\ q.saved = s /\ q.kept = p.kept /\ q.news = p.news
<1> DEFINE r == [p EXCEPT !.tabs[t].settings = s]
<1>1. r = [p EXCEPT !.tabs[t] = [settings |-> s, theme |-> p.tabs[t].theme]]
  <2>1. p.tabs[t] \in [settings : Preference!Settings, theme : Preference!Themes]
    BY DEF PreferencePicks
  <2>2. [p.tabs[t] EXCEPT !.settings = s] = [settings |-> s, theme |-> p.tabs[t].theme]
    BY <2>1
  <2> QED
    BY <2>2
<1>2. q = [r EXCEPT !.saved = s]
  BY DEF Preference!SavedAs
<1> HIDE DEF r
<1>3. /\ r \in PreferencePicks /\ TabSet(p, r, t, s, p.tabs[t].theme)
      /\ r.kept = p.kept /\ r.news = p.news
  BY <1>1, TabChanges, TabIs
<1>4. q \in PreferencePicks /\ q.tabs = r.tabs /\ q.saved = s /\ q.kept = r.kept /\ q.news = r.news
  BY <1>2, <1>3 DEF PreferencePicks
<1> QED
  BY <1>3, <1>4 DEF TabSet

LEMMA ThemedIs ==
    ASSUME NEW p \in PreferencePicks, NEW t \in Preference!Tabs, NEW v \in Preference!Themes,
           NEW q, q = Preference!Themed(p, t, v)
    PROVE  /\ q \in PreferencePicks /\ TabSet(p, q, t, p.tabs[t].settings, v)
           /\ q.saved = p.saved /\ q.kept = v
           /\ IF p.kept = v THEN q.news = p.news ELSE q.news \in Preference!Tabs \ {t}
<1> DEFINE r == [p EXCEPT !.tabs[t].theme = v]
           w == IF p.kept = v THEN p.news ELSE CHOOSE u \in Preference!Tabs : u # t
<1>1. r = [p EXCEPT !.tabs[t] = [settings |-> p.tabs[t].settings, theme |-> v]]
  <2>1. p.tabs[t] \in [settings : Preference!Settings, theme : Preference!Themes]
    BY DEF PreferencePicks
  <2>2. [p.tabs[t] EXCEPT !.theme = v] = [settings |-> p.tabs[t].settings, theme |-> v]
    BY <2>1
  <2> QED
    BY <2>2
<1>2. /\ w \in Preference!Tabs \cup {"none"}
      /\ IF p.kept = v THEN w = p.news ELSE w \in Preference!Tabs \ {t}
  BY OtherTab, TabIs
<1>3. q = [r EXCEPT !.kept = v, !.news = w]
  <2>1. r.news = p.news
    BY <1>1, TabChanges, TabIs
  <2> QED
    BY <2>1 DEF Preference!Themed
<1> HIDE DEF r, w
<1>4. /\ r \in PreferencePicks /\ TabSet(p, r, t, p.tabs[t].settings, v) /\ r.saved = p.saved
  BY <1>1, TabChanges, TabIs
<1>5. q \in PreferencePicks /\ q.tabs = r.tabs /\ q.saved = r.saved /\ q.kept = v /\ q.news = w
  BY <1>2, <1>3, <1>4 DEF PreferencePicks
<1> QED
  BY <1>2, <1>4, <1>5 DEF TabSet

LEMMA FollowedIs ==
    ASSUME NEW p \in PreferencePicks, NEW t \in Preference!Tabs,
           NEW q, q = Preference!Followed(p, t)
    PROVE  /\ q \in PreferencePicks /\ q.kept = p.kept /\ q.news = p.news
           /\ q.tabs[t].theme = p.tabs[t].theme /\ q.tabs[t].settings.theme = p.tabs[t].theme
           /\ \A u \in Preference!Tabs : u # t => q.tabs[u] = p.tabs[u]
           /\ q.saved.theme = IF p.tabs[t].settings.theme = p.tabs[t].theme THEN p.saved.theme
                              ELSE p.tabs[t].theme
<1> DEFINE s == [p.tabs[t].settings EXCEPT !.theme = p.tabs[t].theme]
<1>1. s \in Preference!Settings /\ s.theme = p.tabs[t].theme
  BY TabIs DEF Preference!Settings
<1>2. CASE p.tabs[t].settings.theme = p.tabs[t].theme
  BY <1>2 DEF Preference!Followed
<1>3. CASE p.tabs[t].settings.theme # p.tabs[t].theme
  <2>1. q = Preference!SavedAs(p, t, s)
    BY <1>3 DEF Preference!Followed
  <2> HIDE DEF s
  <2>2. /\ q \in PreferencePicks /\ TabSet(p, q, t, s, p.tabs[t].theme)
        /\ q.saved = s /\ q.kept = p.kept /\ q.news = p.news
    BY <1>1, <2>1, SavedIs
  <2> QED
    BY <1>1, <1>3, <2>2 DEF TabSet
<1> QED
  BY <1>2, <1>3

-----------------------------------------------------------------------------
(* A theme is chosen when no other is on its way.                          *)

\* A tab whose settings and theme are v, however it came to it, leaves the other behind.
LEMMA ThemeIsChosen ==
    ASSUME NEW p \in PreferencePicks, Agreed(p), p.news = "none",
           NEW t \in Preference!Tabs, NEW v \in Preference!Themes,
           NEW r \in PreferencePicks, r.kept = p.kept, r.news = "none",
           \A u \in Preference!Tabs : u # t => r.tabs[u] = p.tabs[u],
           r.saved.theme = r.tabs[t].settings.theme, r.saved.theme \in {p.kept, v},
           NEW q, q = Preference!Followed(Preference!Themed(r, t, v), t)
    PROVE  q \in PreferencePicks /\ ThemeFollows(q)
<1> DEFINE m == Preference!Themed(r, t, v)
<1>1. /\ m \in PreferencePicks /\ m.tabs[t].settings = r.tabs[t].settings /\ m.tabs[t].theme = v
      /\ \A u \in Preference!Tabs : u # t => m.tabs[u] = p.tabs[u]
      /\ m.saved = r.saved /\ m.kept = v
      /\ IF p.kept = v THEN m.news = "none" ELSE m.news \in Preference!Tabs \ {t}
  BY ThemedIs DEF TabSet
<1>2. q = Preference!Followed(m, t)
  OBVIOUS
<1> HIDE DEF m
<1>3. /\ q \in PreferencePicks /\ q.kept = v /\ q.news = m.news
      /\ q.tabs[t].theme = v /\ q.tabs[t].settings.theme = v
      /\ \A u \in Preference!Tabs : u # t => q.tabs[u] = p.tabs[u]
      /\ q.saved.theme = v
  <2>1. /\ q \in PreferencePicks /\ q.kept = m.kept /\ q.news = m.news
        /\ q.tabs[t].theme = m.tabs[t].theme /\ q.tabs[t].settings.theme = m.tabs[t].theme
        /\ \A u \in Preference!Tabs : u # t => q.tabs[u] = m.tabs[u]
        /\ q.saved.theme = IF m.tabs[t].settings.theme = m.tabs[t].theme THEN m.saved.theme
                           ELSE m.tabs[t].theme
    BY <1>1, <1>2, FollowedIs
  <2>2. q.saved.theme = v
    BY <1>1, <2>1
  <2>3. \A u \in Preference!Tabs : u # t => q.tabs[u] = p.tabs[u]
    BY <1>1, <2>1
  <2> QED
    BY <1>1, <2>1, <2>2, <2>3
<1>4. \A u \in Preference!Tabs : p.tabs[u].theme = p.kept /\ p.tabs[u].settings.theme = p.kept
  BY DEF Agreed, Follows
<1>5. CASE p.kept = v
  BY <1>1, <1>3, <1>4, <1>5 DEF ThemeFollows, Agreed, Follows
<1>6. CASE p.kept # v
  <2>1. m.news \in Preference!Tabs /\ m.news # t /\ m.news # "none"
    BY <1>1, <1>6, TabsAre
  <2>2. \A u \in Preference!Tabs \ {m.news} : u = t
    BY <2>1, TabsAre
  <2>3. q.tabs[m.news].settings.theme = q.tabs[m.news].theme
    BY <1>3, <1>4, <2>1
  <2> QED
    BY <1>3, <2>1, <2>2, <2>3 DEF ThemeFollows, Lags, Follows
<1> QED
  BY <1>5, <1>6

\* updateTheme
LEMMA ThemeUpdates ==
    ASSUME NEW n, PreferenceFit(form, n), NEW t \in Preference!Tabs, Preference!UpdateTheme(t)
    PROVE  form' = [form EXCEPT !.pick = form'.pick]
           /\ form'.pick \in PreferencePicks /\ ThemeFollows(form'.pick)
<1> DEFINE p == form.pick
           s == p.tabs[t].settings
<1>1. PICK v \in Preference!Themes :
         form' = [form EXCEPT !.pick = Preference!Followed(Preference!Themed(
                     Preference!SavedAs(p, t, [s EXCEPT !.theme = v]), t, v), t)]
  BY DEF Preference!UpdateTheme, Preference!Becomes
<1> DEFINE w == [s EXCEPT !.theme = v]
           r == Preference!SavedAs(p, t, w)
           q == Preference!Followed(Preference!Themed(r, t, v), t)
<1>2. p \in PreferencePicks /\ p.news = "none" /\ Agreed(p)
  BY DEF PreferenceFit, Fit, Preference!UpdateTheme, ThemeFollows
<1>3. w \in Preference!Settings /\ w.theme = v
  BY <1>2, TabIs DEF Preference!Settings
<1>4. form' = [form EXCEPT !.pick = q]
  BY <1>1
<1>5. form'.pick = q
  BY <1>4 DEF PreferenceFit, Fit, Shaped
<1> HIDE DEF w
<1>6. /\ r \in PreferencePicks /\ r.kept = p.kept /\ r.news = p.news
      /\ \A u \in Preference!Tabs : u # t => r.tabs[u] = p.tabs[u]
      /\ r.saved = w /\ r.tabs[t].settings = w
  BY <1>2, <1>3, SavedIs DEF TabSet
<1> HIDE DEF r
<1>7. r.news = "none" /\ r.saved.theme = r.tabs[t].settings.theme /\ r.saved.theme \in {p.kept, v}
  BY <1>2, <1>3, <1>6
<1> HIDE DEF p
<1>8. q \in PreferencePicks /\ ThemeFollows(q)
  BY <1>2, <1>6, <1>7, ThemeIsChosen
<1> QED
  BY <1>4, <1>5, <1>8

\* A toggle saves the settings of its tab, its theme among them.
LEMMA Toggles ==
    ASSUME NEW n, PreferenceFit(form, n), NEW t \in Preference!Tabs, NEW kinds,
           Preference!Toggle(t, kinds)
    PROVE  form' = [form EXCEPT !.pick = form'.pick]
           /\ form'.pick \in PreferencePicks /\ ThemeFollows(form'.pick)
<1> DEFINE p == form.pick
           s == [p.tabs[t].settings EXCEPT !.changed = ~@]
           q == Preference!SavedAs(p, t, s)
<1>1. form' = [form EXCEPT !.pick = q]
  BY DEF Preference!Toggle, Preference!Becomes
<1>2. p \in PreferencePicks /\ ThemeFollows(p)
  BY DEF PreferenceFit, Fit
<1>3. s \in Preference!Settings /\ s.theme = p.tabs[t].settings.theme
  BY <1>2, TabIs DEF Preference!Settings
<1>4. form'.pick = q
  BY <1>1 DEF PreferenceFit, Fit, Shaped
<1> HIDE DEF s
<1>5. /\ q \in PreferencePicks /\ q.kept = p.kept /\ q.news = p.news /\ q.saved = s
      /\ q.tabs[t].settings = s /\ q.tabs[t].theme = p.tabs[t].theme
      /\ \A u \in Preference!Tabs : u # t => q.tabs[u] = p.tabs[u]
  BY <1>2, <1>3, SavedIs DEF TabSet
<1>6. p.news \in Preference!Tabs \cup {"none"}
  BY <1>2, TabIs
<1> HIDE DEF q, p
<1>7. \A u \in Preference!Tabs : /\ q.tabs[u].settings.theme = p.tabs[u].settings.theme
                                 /\ q.tabs[u].theme = p.tabs[u].theme
  BY <1>3, <1>5
<1>8. ASSUME p.news = "none"
      PROVE  ThemeFollows(q)
  BY <1>2, <1>3, <1>5, <1>7, <1>8 DEF ThemeFollows, Agreed, Follows
<1>9. ASSUME p.news # "none"
      PROVE  ThemeFollows(q)
  <2>1. p.news \in Preference!Tabs
    BY <1>6, <1>9
  <2>2. \A u \in Preference!Tabs \ {p.news} : Follows(p, u)
    BY <1>2, <1>9 DEF ThemeFollows, Lags
  <2>3. t # p.news => s.theme = p.kept
    BY <1>3, <2>2 DEF Follows
  <2>4. q.saved.theme \in {q.kept, q.tabs[q.news].settings.theme}
    BY <1>3, <1>5, <1>7, <2>1, <2>3
  <2> QED
    BY <1>2, <1>5, <1>7, <1>9, <2>1, <2>2, <2>4 DEF ThemeFollows, Lags, Follows
<1> QED
  BY <1>1, <1>4, <1>5, <1>8, <1>9

\* The theme-switch of the page of sign-in.
LEMMA LoginThemes ==
    ASSUME NEW n, PreferenceFit(form, n), Preference!LoginTheme
    PROVE  form' = [form EXCEPT !.pick = form'.pick]
           /\ form'.pick \in PreferencePicks /\ ThemeFollows(form'.pick)
<1> DEFINE p == form.pick
           v == IF p.tabs["there"].theme = "light" THEN "dark" ELSE "light"
           q == Preference!Followed(Preference!Themed(p, "there", v), "there")
<1>1. form' = [form EXCEPT !.pick = q]
  BY DEF Preference!LoginTheme, Preference!Becomes
<1>2. p \in PreferencePicks /\ p.news = "none" /\ Agreed(p)
  BY DEF PreferenceFit, Fit, Preference!LoginTheme, ThemeFollows
<1>3. v \in Preference!Themes /\ "there" \in Preference!Tabs
  BY DEF Preference!Themes, Preference!Tabs
<1>4. form'.pick = q
  BY <1>1 DEF PreferenceFit, Fit, Shaped
<1> HIDE DEF v, p
<1>5. p.saved.theme = p.tabs["there"].settings.theme /\ p.saved.theme = p.kept
  BY <1>2, <1>3 DEF Agreed, Follows
<1>6. q \in PreferencePicks /\ ThemeFollows(q)
  BY <1>2, <1>3, <1>5, ThemeIsChosen
<1> QED
  BY <1>1, <1>4, <1>6

\* The theme reaches the other tab, which names it in its settings and saves them.
LEMMA NewsCome ==
    ASSUME NEW n, PreferenceFit(form, n), Preference!NewsArrives
    PROVE  form' = [form EXCEPT !.pick = form'.pick]
           /\ form'.pick \in PreferencePicks /\ ThemeFollows(form'.pick)
<1> DEFINE p == form.pick
           t == p.news
           r == [p EXCEPT !.news = "none"]
           m == Preference!Themed(r, t, p.kept)
           q == Preference!Followed(m, t)
<1>1. form' = [form EXCEPT !.pick = q]
  BY DEF Preference!NewsArrives, Preference!Becomes
<1>2. p \in PreferencePicks /\ t # "none" /\ Lags(p)
  BY DEF PreferenceFit, Fit, Preference!NewsArrives, ThemeFollows
<1>3. form'.pick = q
  BY <1>1 DEF PreferenceFit, Fit, Shaped
<1>4. t \in Preference!Tabs /\ p.kept \in Preference!Themes
  BY <1>2 DEF PreferencePicks
<1>5. r \in PreferencePicks /\ r.news = "none" /\ r.kept = p.kept /\ r.saved = p.saved /\ r.tabs = p.tabs
  BY <1>2 DEF PreferencePicks
<1> HIDE DEF r
<1>6. /\ m \in PreferencePicks /\ TabSet(r, m, t, r.tabs[t].settings, p.kept)
      /\ m.saved = r.saved /\ m.kept = p.kept /\ m.news = r.news
  BY <1>4, <1>5, ThemedIs
<1> HIDE DEF m
<1>7. /\ q \in PreferencePicks /\ q.kept = m.kept /\ q.news = m.news
      /\ q.tabs[t].theme = m.tabs[t].theme /\ q.tabs[t].settings.theme = m.tabs[t].theme
      /\ \A u \in Preference!Tabs : u # t => q.tabs[u] = m.tabs[u]
      /\ q.saved.theme = IF m.tabs[t].settings.theme = m.tabs[t].theme THEN m.saved.theme
                         ELSE m.tabs[t].theme
  BY <1>4, <1>6, FollowedIs
<1> HIDE DEF q, t, p
<1>8. Follows(q, t)
  BY <1>6, <1>7 DEF TabSet, Follows
<1>9. \A u \in Preference!Tabs : u # t => Follows(q, u)
  <2>1. \A u \in Preference!Tabs : u # t => Follows(p, u)
    BY <1>2 DEF Lags, t
  <2> QED
    BY <1>5, <1>6, <1>7, <2>1 DEF TabSet, Follows
<1>10. p.saved.theme \in {p.kept, p.tabs[t].settings.theme}
  BY <1>2 DEF Lags, t
<1>11. q.saved.theme = q.kept
  BY <1>5, <1>6, <1>7, <1>10 DEF TabSet
<1> QED
  BY <1>1, <1>3, <1>5, <1>6, <1>7, <1>8, <1>9, <1>11 DEF ThemeFollows, Agreed

\* A tab is loaded again.
LEMMA TabsLoad ==
    ASSUME NEW n, PreferenceFit(form, n), Preference!TabLoads
    PROVE  form'.pick \in PreferencePicks /\ ThemeFollows(form'.pick)
           /\ \E o \in BOOLEAN : form' = [form EXCEPT !.open = o, !.pick = form'.pick]
<1> DEFINE p == form.pick
<1>1. PICK t \in Preference!Tabs :
         form' = [form EXCEPT !.open = @ /\ t # "here",
                              !.pick = Preference!Followed(Preference!Themed(
                                  [p EXCEPT !.tabs[t] = [settings |-> p.saved, theme |-> p.kept]],
                                  t, p.saved.theme), t)]
  BY DEF Preference!TabLoads
<1> DEFINE r == [p EXCEPT !.tabs[t] = [settings |-> p.saved, theme |-> p.kept]]
           q == Preference!Followed(Preference!Themed(r, t, p.saved.theme), t)
           o == form.open /\ t # "here"
<1>2. form' = [form EXCEPT !.open = o, !.pick = q]
  BY <1>1
<1>3. p \in PreferencePicks /\ p.news = "none" /\ Agreed(p)
  BY DEF PreferenceFit, Fit, Preference!TabLoads, ThemeFollows
<1>4. form'.pick = q
  BY <1>2 DEF PreferenceFit, Fit, Shaped
<1>5. o = TRUE \/ o = FALSE
  OBVIOUS
<1>6. /\ p.saved \in Preference!Settings /\ p.kept \in Preference!Themes
      /\ p.saved.theme = p.kept
  BY <1>3, TabIs DEF Agreed
<1> HIDE DEF p
<1>7. /\ r \in PreferencePicks /\ TabSet(p, r, t, p.saved, p.kept)
      /\ r.saved = p.saved /\ r.kept = p.kept /\ r.news = p.news
  BY <1>3, <1>6, TabChanges
<1> HIDE DEF r
<1>8. r.saved.theme = r.tabs[t].settings.theme
  BY <1>7 DEF TabSet
<1>9. \A u \in Preference!Tabs : u # t => r.tabs[u] = p.tabs[u]
  BY <1>7 DEF TabSet
<1>10. q \in PreferencePicks /\ ThemeFollows(q)
  BY <1>3, <1>6, <1>7, <1>8, <1>9, ThemeIsChosen
<1> HIDE DEF q, o
<1>11. \E x \in BOOLEAN : form' = [form EXCEPT !.open = x, !.pick = form'.pick]
  BY <1>2, <1>4, <1>5
<1> QED
  BY <1>4, <1>10, <1>11

\* Whatever is chosen in either tab, and whenever the theme reaches the other.
LEMMA PreferenceFormsStep ==
    ASSUME NEW n, PreferenceFit(form, n), Preference!PreferencesNext
    PROVE  PreferenceGoes(n)
<1>1. ASSUME form'.pick \in PreferencePicks, ThemeFollows(form'.pick),
             NEW o \in BOOLEAN, form' = [form EXCEPT !.open = o, !.pick = form'.pick]
      PROVE  PreferenceGoes(n)
  <2>1. Whole(n) /\ Still /\ form'.filled = form.filled /\ form'.rules = form.rules
    BY <1>1 DEF PreferenceFit, Fit, Whole, Still, Shaped
  <2>2. Fit(form, n, {}, PreferencePicks, {}, "flag")
    BY DEF PreferenceFit
  <2>3. form'.filled \subseteq {} /\ Rows(form'.rules, {})
    BY <2>1, <2>2 DEF Fit
  <2> QED
    BY <1>1, <2>1, <2>2, <2>3, Steps DEF PreferenceGoes, PreferenceFit
<1>2. ASSUME form' = [form EXCEPT !.pick = form'.pick],
             form'.pick \in PreferencePicks, ThemeFollows(form'.pick)
      PROVE  PreferenceGoes(n)
  <2>1. form.open \in BOOLEAN /\ form' = [form EXCEPT !.open = form.open, !.pick = form'.pick]
    BY <1>2 DEF PreferenceFit, Fit, Shaped
  <2> QED
    BY <1>1, <1>2, <2>1
<1>3. CASE Preference!DrawerOpens \/ Preference!DrawerCloses
  <2>1. \E o \in BOOLEAN : form' = [form EXCEPT !.open = o]
    BY <1>3 DEF Preference!DrawerOpens, Preference!DrawerCloses, Preference!Closes
  <2>2. PICK o \in BOOLEAN : form' = [form EXCEPT !.open = o, !.pick = form.pick] /\ form'.pick = form.pick
    BY <2>1 DEF PreferenceFit, Fit, Shaped
  <2> QED
    BY <1>1, <2>2 DEF PreferenceFit, Fit
<1>4. "here" \in Preference!Tabs /\ "there" \in Preference!Tabs
  BY TabsAre
<1>5. CASE Preference!DrawerTheme \/ Preference!GuideTheme
  BY <1>2, <1>4, <1>5, ThemeUpdates DEF Preference!DrawerTheme, Preference!GuideTheme
<1>6. CASE \/ Preference!DrawerLanguage \/ Preference!DrawerPrivacy \/ Preference!DrawerExperimental
           \/ Preference!DrawerUpdates
  BY <1>2, <1>4, <1>6, Toggles
     DEF Preference!DrawerLanguage, Preference!DrawerPrivacy, Preference!DrawerExperimental,
         Preference!DrawerUpdates
<1>7. CASE Preference!GuideLanguage \/ Preference!LoginLanguage
  BY <1>2, <1>4, <1>7, Toggles DEF Preference!GuideLanguage, Preference!LoginLanguage
<1>8. CASE Preference!LoginTheme
  BY <1>2, <1>8, LoginThemes
<1>9. CASE Preference!NewsArrives
  BY <1>2, <1>9, NewsCome
<1>10. CASE Preference!TabLoads
  BY <1>1, <1>10, TabsLoad
<1> QED
  BY <1>3, <1>5, <1>6, <1>7, <1>8, <1>9, <1>10 DEF Preference!PreferencesNext

LEMMA PreferenceStarts ==
    ASSUME NEW k \in Preference!Kinds, NEW f, f = Preference!PreferencesStart(k)
    PROVE  PreferenceFit(f, "preferences")
<1> DEFINE d == [settings |-> Preference!Default, theme |-> "system"]
           p == [kind |-> k, saved |-> Preference!Default, kept |-> "system", news |-> "none",
                 tabs |-> [t \in Preference!Tabs |-> d]]
<1>1. f = [name |-> "preferences", open |-> FALSE, target |-> NoId, shown |-> NoId,
           pick |-> p, filled |-> {}, rules |-> <<>>, asked |-> <<>>, loading |-> FALSE,
           busy |-> FALSE, sent |-> <<>>]
  BY DEF Preference!PreferencesStart, Preference!FormOf
<1>2. Preference!Default \in Preference!Settings /\ Preference!Default.theme = "system"
  BY DEF Preference!Default, Preference!Settings, Preference!Themes
<1>3. "system" \in Preference!Themes
  BY DEF Preference!Themes
<1>4. p.tabs \in [Preference!Tabs -> [settings : Preference!Settings, theme : Preference!Themes]]
  <2>1. d \in [settings : Preference!Settings, theme : Preference!Themes]
    BY <1>2, <1>3
  <2> HIDE DEF d
  <2> QED
    BY <2>1
<1>5. \A t \in Preference!Tabs : p.tabs[t].theme = "system" /\ p.tabs[t].settings.theme = "system"
  BY <1>2
<1>6. p.kind = k /\ p.saved = Preference!Default /\ p.kept = "system" /\ p.news = "none"
      /\ p = [kind |-> k, saved |-> Preference!Default, kept |-> "system", news |-> "none",
              tabs |-> p.tabs]
  OBVIOUS
<1> HIDE DEF p
<1>7. p \in PreferencePicks /\ ThemeFollows(p)
  BY <1>2, <1>3, <1>4, <1>5, <1>6 DEF PreferencePicks, ThemeFollows, Agreed, Follows
<1>8. Shaped(f) /\ f.name = "preferences" /\ f.open \in BOOLEAN /\ f.loading \in BOOLEAN
      /\ f.busy = FALSE /\ f.target = NoId /\ f.shown = NoId /\ f.pick = p /\ f.filled \subseteq {}
      /\ f.rules = <<>> /\ f.asked = <<>> /\ f.loading = FALSE /\ f.sent = <<>>
  BY <1>1 DEF Shaped
<1>9. Fit(f, "preferences", {}, PreferencePicks, {}, "flag")
  BY <1>7, <1>8, Begins
<1> QED
  BY <1>7, <1>8, <1>9 DEF PreferenceFit

-----------------------------------------------------------------------------
(* The forms one after another                                             *)

\* The form f is none, or is typed and consistent as the forms of its module are.
FormGood(f) ==
    \/ f = Form!NoForm
    \/ f.name \in TunnelForm!TunnelFormNames /\ TunnelFit(f, f.name)
    \/ f.name \in GroupForm!GroupFormNames /\ GroupFit(f, f.name)
    \/ f.name \in ServiceForm!ServiceFormNames /\ ServiceFit(f, f.name)
    \/ f.name \in EndpointForm!EndpointFormNames /\ EndpointFit(f, f.name)
    \/ f.name \in SettingsForm!SettingsFormNames /\ SettingsFit(f, f.name)
    \/ f.name \in ToolForm!ToolFormNames /\ ToolFit(f, f.name)
    \/ f.name \in TableForm!TableFormNames /\ TableFit(f, f.name)
    \/ f.name \in AccountForm!AccountFormNames /\ AccountFit(f, f.name)
    \/ f.name \in Preference!PreferencesNames /\ PreferenceFit(f, f.name)

FormInv == FormGood(form)

\* What a submission of r has to show.
Confirmed(r) ==
    /\ TunnelForm!TunnelSubmitsShown(r) /\ GroupForm!GroupSubmitsShown(r)
    /\ ServiceForm!ServiceSubmitsShown(r) /\ EndpointForm!EndpointSubmitsShown(r)
    /\ SettingsForm!SettingsSubmitsShown(r) /\ ToolForm!ToolSubmitsShown(r)
    /\ TableForm!TableSubmitsShown(r) /\ AccountForm!AccountSubmitsShown(r)

\* No name is one of two forms.
LEMMA FormNames ==
    /\ TunnelForm!TunnelFormNames
          = {"simple", "edit", "create", "batch", "url", "rename", "retitle", "sort"}
    /\ GroupForm!GroupFormNames = {"groups", "members", "tags"}
    /\ ServiceForm!ServiceFormNames = {"service", "assemble", "alias", "template"}
    /\ EndpointForm!EndpointFormNames
          = {"add", "first", "naming", "rekey", "byurl", "erase", "import", "config", "ask", "qr"}
    /\ SettingsForm!SettingsFormNames = {"security", "cleanup", "version"}
    /\ ToolForm!ToolFormNames = {"reach", "debug"}
    /\ TableForm!TableFormNames = {"table"}
    /\ AccountForm!AccountFormNames = {"login", "guide"}
    /\ Preference!PreferencesNames = {"preferences"}
  BY DEF TunnelForm!TunnelFormNames, TunnelForm!Values, TunnelForm!Nested,
         GroupForm!GroupFormNames, ServiceForm!ServiceFormNames,
         EndpointForm!EndpointFormNames, SettingsForm!SettingsFormNames, ToolForm!ToolFormNames,
         TableForm!TableFormNames, AccountForm!AccountFormNames, Preference!PreferencesNames

LEMMA NoFormIs == Form!NoForm.name = "none" /\ Form!NoForm.sent = <<>>
  BY DEF Form!NoForm, Form!FormOf

\* A form is typed as the module its name is of says.
LEMMA FormIs ==
    ASSUME NEW f, FormGood(f)
    PROVE  /\ f.name \in TunnelForm!TunnelFormNames => TunnelFit(f, f.name)
           /\ f.name \in GroupForm!GroupFormNames => GroupFit(f, f.name)
           /\ f.name \in ServiceForm!ServiceFormNames => ServiceFit(f, f.name)
           /\ f.name \in EndpointForm!EndpointFormNames => EndpointFit(f, f.name)
           /\ f.name \in SettingsForm!SettingsFormNames => SettingsFit(f, f.name)
           /\ f.name \in ToolForm!ToolFormNames => ToolFit(f, f.name)
           /\ f.name \in TableForm!TableFormNames => TableFit(f, f.name)
           /\ f.name \in AccountForm!AccountFormNames => AccountFit(f, f.name)
           /\ f.name \in Preference!PreferencesNames => PreferenceFit(f, f.name)
  BY FormNames, NoFormIs DEF FormGood

\* It has sent what is counted.
LEMMA FormSent ==
    ASSUME NEW f, FormGood(f)
    PROVE  Len(f.sent) \in Nat /\ \E S : f.sent \in Seq(S)
<1>1. ASSUME NEW n, NEW F, NEW P, NEW R, NEW mode, Fit(f, n, F, P, R, mode)
      PROVE  Len(f.sent) \in Nat /\ \E S : f.sent \in Seq(S)
  BY <1>1, NoneOrSome DEF Fit, Sending
<1>2. CASE f = Form!NoForm
  BY <1>2, NoFormIs, EmptySeq
<1> QED
  BY <1>1, <1>2
     DEF FormGood, TunnelFit, GroupFit, ServiceFit, EndpointFit, SettingsFit, ToolFit, TableFit,
         AccountFit, PreferenceFit

\* The forms as their pages show them first.
LEMMA FormsBegin ==
    ASSUME NEW f \in FormsOf
    PROVE  FormGood(f)
<1>1. CASE f \in TunnelForm!TunnelFormsOf(route)
  BY <1>1, TunnelStarts DEF FormGood
<1>2. CASE f \in GroupForm!GroupFormsOf(route)
  BY <1>2, GroupStarts DEF FormGood
<1>3. CASE f \in ServiceForm!ServiceFormsOf(route)
  BY <1>3, ServiceStarts DEF FormGood
<1>4. CASE f \in EndpointForm!EndpointFormsOf(route)
  BY <1>4, EndpointStarts DEF FormGood
<1>5. CASE f \in SettingsForm!SettingsFormsOf(route)
  BY <1>5, SettingsStarts DEF FormGood
<1>6. CASE f \in ToolForm!ToolFormsOf(route)
  BY <1>6, ToolStarts DEF FormGood
<1>7. CASE f \in TableForm!TableFormsOf(route)
  BY <1>7, TableStarts DEF FormGood
<1>8. CASE f \in AccountForm!AccountFormsOf(route)
  BY <1>8, AccountStarts DEF FormGood
<1>9. CASE f \in Preference!PreferencesOf(route)
  <2>1. PICK k \in Preference!Kinds : f = Preference!PreferencesStart(k)
    BY <1>9 DEF Preference!PreferencesOf
  <2>2. PreferenceFit(f, "preferences")
    BY <2>1, PreferenceStarts
  <2>3. f.name = "preferences"
    BY <2>2 DEF PreferenceFit, Fit
  <2> QED
    BY <2>2, <2>3, FormNames DEF FormGood
<1> QED
  BY <1>1, <1>2, <1>3, <1>4, <1>5, <1>6, <1>7, <1>8, <1>9 DEF FormsOf

\* What is submitted by a form of one module is no matter of the others.
LEMMA OthersSilent ==
    ASSUME NEW r
    PROVE  /\ form.name \notin TunnelForm!TunnelFormNames => TunnelForm!TunnelSubmitsShown(r)
           /\ form.name \notin GroupForm!GroupFormNames => GroupForm!GroupSubmitsShown(r)
           /\ form.name \notin ServiceForm!ServiceFormNames => ServiceForm!ServiceSubmitsShown(r)
           /\ form.name \notin EndpointForm!EndpointFormNames => EndpointForm!EndpointSubmitsShown(r)
           /\ form.name \notin SettingsForm!SettingsFormNames => SettingsForm!SettingsSubmitsShown(r)
           /\ form.name \notin ToolForm!ToolFormNames => ToolForm!ToolSubmitsShown(r)
           /\ form.name \notin TableForm!TableFormNames => TableForm!TableSubmitsShown(r)
           /\ form.name \notin AccountForm!AccountFormNames => AccountForm!AccountSubmitsShown(r)
<1>1. form.name \notin TunnelForm!TunnelFormNames => TunnelForm!TunnelSubmitsShown(r)
  BY DEF TunnelForm!TunnelSubmitsShown
<1>2. form.name \notin GroupForm!GroupFormNames => GroupForm!GroupSubmitsShown(r)
  BY FormNames DEF GroupForm!GroupSubmitsShown, GroupForm!Named
<1>3. form.name \notin ServiceForm!ServiceFormNames => ServiceForm!ServiceSubmitsShown(r)
  BY DEF ServiceForm!ServiceSubmitsShown
<1>4. form.name \notin EndpointForm!EndpointFormNames => EndpointForm!EndpointSubmitsShown(r)
  BY DEF EndpointForm!EndpointSubmitsShown
<1>5. form.name \notin SettingsForm!SettingsFormNames => SettingsForm!SettingsSubmitsShown(r)
  BY FormNames DEF SettingsForm!SettingsSubmitsShown, SettingsForm!Named
<1>6. form.name \notin ToolForm!ToolFormNames => ToolForm!ToolSubmitsShown(r)
  BY FormNames DEF ToolForm!ToolSubmitsShown, ToolForm!Named
<1>7. form.name \notin TableForm!TableFormNames => TableForm!TableSubmitsShown(r)
  BY DEF TableForm!TableSubmitsShown
<1>8. form.name \notin AccountForm!AccountFormNames => AccountForm!AccountSubmitsShown(r)
  BY FormNames DEF AccountForm!AccountSubmitsShown, AccountForm!Named
<1> QED
  BY <1>1, <1>2, <1>3, <1>4, <1>5, <1>6, <1>7, <1>8

\* A step of a form keeps what holds of it, and whatever it submits is what is shown.
LEMMA FormStepKeeps ==
    ASSUME FormInv, FormStep
    PROVE  FormGood(form') /\ (Quiet \/ Confirmed(Last))
<1>0. FormGood(form)
  BY DEF FormInv
<1>1. CASE FormAppears
  <2>1. FormGood(form')
    BY <1>1, FormsBegin DEF FormAppears
  <2>2. form.name = "none"
    BY <1>1, NoFormIs DEF FormAppears
  <2>3. Confirmed(Last)
    BY <2>2, FormNames, OthersSilent DEF Confirmed
  <2> QED
    BY <2>1, <2>3
<1>2. CASE FormLeft
  <2>1. form' = Form!NoForm
    BY <1>2 DEF FormLeft
  <2>2. form'.sent = <<>>
    BY <2>1, NoFormIs
  <2>3. PICK S : form.sent \in Seq(S)
    BY <1>0, FormSent
  <2>4. Quiet
    BY <2>2, <2>3, EmptySeq, NoneOrSome DEF Quiet
  <2> QED
    BY <2>1, <2>4 DEF FormGood
<1>3. CASE form.name \in TunnelForm!TunnelFormNames /\ TunnelForm!TunnelFormsNext
  <2> DEFINE n == form.name
  <2>1. TunnelFit(form, n)
    BY <1>3, <1>0, FormIs
  <2>2. TunnelGoes(n)
    BY <1>3, <2>1, TunnelFormsStep
  <2>3. TunnelFit(form', n)
    BY <2>2 DEF TunnelGoes
  <2>4. form'.name = n
    BY <2>3 DEF TunnelFit, Fit
  <2>5. FormGood(form')
    BY <1>3, <2>3, <2>4 DEF FormGood
  <2>6. Quiet \/ Confirmed(Last)
    <3>1. Quiet \/ TunnelForm!TunnelSubmitsShown(Last)
      BY <2>2 DEF TunnelGoes
    <3> QED
      BY <1>3, <3>1, FormNames, OthersSilent DEF Confirmed
  <2> QED
    BY <2>5, <2>6
<1>4. CASE form.name \in GroupForm!GroupFormNames /\ GroupForm!GroupFormsNext
  <2> DEFINE n == form.name
  <2>1. GroupFit(form, n)
    BY <1>4, <1>0, FormIs
  <2>2. GroupGoes(n)
    BY <1>4, <2>1, GroupFormsStep
  <2>3. GroupFit(form', n)
    BY <2>2 DEF GroupGoes
  <2>4. form'.name = n
    BY <2>3 DEF GroupFit, Fit
  <2>5. FormGood(form')
    BY <1>4, <2>3, <2>4 DEF FormGood
  <2>6. Quiet \/ Confirmed(Last)
    <3>1. Quiet \/ GroupForm!GroupSubmitsShown(Last)
      BY <2>2 DEF GroupGoes
    <3> QED
      BY <1>4, <3>1, FormNames, OthersSilent DEF Confirmed
  <2> QED
    BY <2>5, <2>6
<1>5. CASE form.name \in ServiceForm!ServiceFormNames /\ ServiceForm!ServiceFormsNext
  <2> DEFINE n == form.name
  <2>1. ServiceFit(form, n)
    BY <1>5, <1>0, FormIs
  <2>2. ServiceGoes(n)
    BY <1>5, <2>1, ServiceFormsStep
  <2>3. ServiceFit(form', n)
    BY <2>2 DEF ServiceGoes
  <2>4. form'.name = n
    BY <2>3 DEF ServiceFit, Fit
  <2>5. FormGood(form')
    BY <1>5, <2>3, <2>4 DEF FormGood
  <2>6. Quiet \/ Confirmed(Last)
    <3>1. Quiet \/ ServiceForm!ServiceSubmitsShown(Last)
      BY <2>2 DEF ServiceGoes
    <3> QED
      BY <1>5, <3>1, FormNames, OthersSilent DEF Confirmed
  <2> QED
    BY <2>5, <2>6
<1>6. CASE form.name \in EndpointForm!EndpointFormNames /\ EndpointForm!EndpointFormsNext
  <2> DEFINE n == form.name
  <2>1. EndpointFit(form, n)
    BY <1>6, <1>0, FormIs
  <2>2. EndpointGoes(n)
    BY <1>6, <2>1, EndpointFormsStep
  <2>3. EndpointFit(form', n)
    BY <2>2 DEF EndpointGoes
  <2>4. form'.name = n
    BY <2>3 DEF EndpointFit, Fit
  <2>5. FormGood(form')
    BY <1>6, <2>3, <2>4 DEF FormGood
  <2>6. Quiet \/ Confirmed(Last)
    <3>1. Quiet \/ EndpointForm!EndpointSubmitsShown(Last)
      BY <2>2 DEF EndpointGoes
    <3> QED
      BY <1>6, <3>1, FormNames, OthersSilent DEF Confirmed
  <2> QED
    BY <2>5, <2>6
<1>7. CASE form.name \in SettingsForm!SettingsFormNames /\ SettingsForm!SettingsFormsNext
  <2> DEFINE n == form.name
  <2>1. SettingsFit(form, n)
    BY <1>7, <1>0, FormIs
  <2>2. SettingsGoes(n)
    BY <1>7, <2>1, SettingsFormsStep
  <2>3. SettingsFit(form', n)
    BY <2>2 DEF SettingsGoes
  <2>4. form'.name = n
    BY <2>3 DEF SettingsFit, Fit
  <2>5. FormGood(form')
    BY <1>7, <2>3, <2>4 DEF FormGood
  <2>6. Quiet \/ Confirmed(Last)
    <3>1. Quiet \/ SettingsForm!SettingsSubmitsShown(Last)
      BY <2>2 DEF SettingsGoes
    <3> QED
      BY <1>7, <3>1, FormNames, OthersSilent DEF Confirmed
  <2> QED
    BY <2>5, <2>6
<1>8. CASE form.name \in ToolForm!ToolFormNames /\ ToolForm!ToolFormsNext
  <2> DEFINE n == form.name
  <2>1. ToolFit(form, n)
    BY <1>8, <1>0, FormIs
  <2>2. ToolGoes(n)
    BY <1>8, <2>1, ToolFormsStep
  <2>3. ToolFit(form', n)
    BY <2>2 DEF ToolGoes
  <2>4. form'.name = n
    BY <2>3 DEF ToolFit, Fit
  <2>5. FormGood(form')
    BY <1>8, <2>3, <2>4 DEF FormGood
  <2>6. Quiet \/ Confirmed(Last)
    <3>1. Quiet \/ ToolForm!ToolSubmitsShown(Last)
      BY <2>2 DEF ToolGoes
    <3> QED
      BY <1>8, <3>1, FormNames, OthersSilent DEF Confirmed
  <2> QED
    BY <2>5, <2>6
<1>9. CASE form.name \in TableForm!TableFormNames /\ TableForm!TableFormsNext
  <2> DEFINE n == form.name
  <2>1. TableFit(form, n)
    BY <1>9, <1>0, FormIs
  <2>2. TableGoes(n)
    BY <1>9, <2>1, TableFormsStep
  <2>3. TableFit(form', n)
    BY <2>2 DEF TableGoes
  <2>4. form'.name = n
    BY <2>3 DEF TableFit, Fit
  <2>5. FormGood(form')
    BY <1>9, <2>3, <2>4 DEF FormGood
  <2>6. Quiet \/ Confirmed(Last)
    <3>1. Quiet \/ TableForm!TableSubmitsShown(Last)
      BY <2>2 DEF TableGoes
    <3> QED
      BY <1>9, <3>1, FormNames, OthersSilent DEF Confirmed
  <2> QED
    BY <2>5, <2>6
<1>10. CASE form.name \in AccountForm!AccountFormNames /\ AccountForm!AccountFormsNext
  <2> DEFINE n == form.name
  <2>1. AccountFit(form, n)
    BY <1>10, <1>0, FormIs
  <2>2. AccountGoes(n)
    BY <1>10, <2>1, AccountFormsStep
  <2>3. AccountFit(form', n)
    BY <2>2 DEF AccountGoes
  <2>4. form'.name = n
    BY <2>3 DEF AccountFit, Fit
  <2>5. FormGood(form')
    BY <1>10, <2>3, <2>4 DEF FormGood
  <2>6. Quiet \/ Confirmed(Last)
    <3>1. Quiet \/ AccountForm!AccountSubmitsShown(Last)
      BY <2>2 DEF AccountGoes
    <3> QED
      BY <1>10, <3>1, FormNames, OthersSilent DEF Confirmed
  <2> QED
    BY <2>5, <2>6
<1>11. CASE form.name \in Preference!PreferencesNames /\ Preference!PreferencesNext
  <2> DEFINE n == form.name
  <2>1. PreferenceFit(form, n)
    BY <1>11, <1>0, FormIs
  <2>2. PreferenceGoes(n)
    BY <1>11, <2>1, PreferenceFormsStep
  <2>3. PreferenceFit(form', n)
    BY <2>2 DEF PreferenceGoes
  <2>4. form'.name = n
    BY <2>3 DEF PreferenceFit, Fit
  <2>5. FormGood(form')
    BY <1>11, <2>3, <2>4 DEF FormGood
  <2>6. Quiet \/ Confirmed(Last)
    BY <2>2 DEF PreferenceGoes
  <2> QED
    BY <2>5, <2>6
<1> QED
  BY <1>1, <1>2, <1>3, <1>4, <1>5, <1>6, <1>7, <1>8, <1>9, <1>10, <1>11 DEF FormStep

LEMMA FormsInvariance == Spec => []FormInv
<1>1. Init => FormInv
  BY DEF Init, FormInv, FormGood
<1>2. FormInv /\ [Next]_vars => FormInv'
  <2> SUFFICES ASSUME FormInv, [Next]_vars PROVE FormInv'
    OBVIOUS
  <2>1. CASE form' = form
    BY <2>1 DEF FormInv
  <2>2. CASE FormStep
    BY <2>2, FormStepKeeps DEF FormInv
  <2> QED
    BY Zenon, <2>1, <2>2 DEF Next, vars
<1> QED
  BY <1>1, <1>2, PTL DEF Spec

\* What is under way of a form that sees to it is one submission at most.
LEMMA AtMostOne ==
    ASSUME NEW n, NEW F, NEW P, NEW R, NEW mode, Fit(form, n, F, P, R, mode), mode # "many"
    PROVE  /\ Form!FormSubmitsOnce
           /\ \A i, j \in DOMAIN form.sent : i = j
<1>1. form.sent \in Seq(R) /\ Len(form.sent) <= 1
  BY DEF Fit, Sending
<1>2. Form!FormSubmitsOnce
  BY <1>1 DEF Form!FormSubmitsOnce
<1>3. DOMAIN form.sent = 1..Len(form.sent) /\ Len(form.sent) \in Nat
  BY <1>1
<1> QED
  BY <1>1, <1>2, <1>3

\* A form that sends nothing has sent nothing.
LEMMA SendsNone ==
    ASSUME NEW n, NEW F, NEW P, NEW mode, Fit(form, n, F, P, {}, mode)
    PROVE  form.sent = <<>> /\ Form!FormSubmitsOnce
<1>1. form.sent \in Seq({})
  BY DEF Fit, Sending
<1>2. form.sent = <<>>
  BY <1>1, NoneOrSome
<1> QED
  BY <1>2 DEF Form!FormSubmitsOnce

\* Only the tools and the settings have submissions of their own kind.
LEMMA OnceElsewhere ==
    /\ form.name # "debug" => ToolForm!ToolSubmitOnce
    /\ form.name \notin SettingsForm!SettingsFormNames => SettingsForm!SettingsSubmitOnce
  BY DEF ToolForm!ToolSubmitOnce, ToolForm!Named, SettingsForm!SettingsSubmitOnce

LEMMA FormsSubmitOnce == FormInv => OneSubmission
<1> SUFFICES ASSUME FormInv PROVE OneSubmission
  OBVIOUS
<1> DEFINE n == form.name
<1>0. FormGood(form)
  BY DEF FormInv
<1>r. Remounted = {"edit", "members", "retitle", "sort"}
  BY DEF Remounted, TunnelForm!Nested
<1>1. CASE form = Form!NoForm
  <2>1. n = "none" /\ Form!FormSubmitsOnce
    BY <1>1, NoFormIs DEF Form!FormSubmitsOnce
  <2> QED
    BY <2>1, FormNames, OnceElsewhere DEF OneSubmission
<1>2. CASE n \in TunnelForm!TunnelFormNames
  <2>1. n \notin Remounted => TunnelMode(n) = "flag"
    BY DEF Remounted, TunnelMode
  <2>2. n \notin Remounted => Form!FormSubmitsOnce
    BY <1>0, <1>2, <2>1, FormIs, AtMostOne DEF TunnelFit
  <2> QED
    BY <1>2, <2>2, FormNames, OnceElsewhere DEF OneSubmission
<1>3. CASE n \in GroupForm!GroupFormNames
  <2>1. n \notin {"groups", "members"} => Form!FormSubmitsOnce
    BY <1>0, <1>3, FormIs, AtMostOne DEF GroupFit, GroupMode
  <2> QED
    BY <1>3, <1>r, <2>1, FormNames, OnceElsewhere DEF OneSubmission
<1>4. CASE n \in ServiceForm!ServiceFormNames
  <2>1. Form!FormSubmitsOnce
    BY <1>0, <1>4, FormIs, AtMostOne DEF ServiceFit
  <2> QED
    BY <1>4, <2>1, FormNames, OnceElsewhere DEF OneSubmission
<1>5. CASE n \in EndpointForm!EndpointFormNames
  <2>1. n = "import" => Form!FormSubmitsOnce
    BY <1>0, <1>5, FormIs, AtMostOne DEF EndpointFit, EndpointMode
  <2>2. n # "import" => n \in EndpointForm!Flagless
    BY <1>5 DEF EndpointForm!Flagless
  <2> QED
    BY <1>5, <2>1, <2>2, FormNames, OnceElsewhere DEF OneSubmission
<1>6. CASE n \in SettingsForm!SettingsFormNames
  <2>1. SettingsFit(form, n)
    BY <1>0, <1>6, FormIs
  <2>2. CASE n # "cleanup"
    <3>1. Form!FormSubmitsOnce /\ \A i, j \in DOMAIN form.sent : i = j
      BY <2>1, <2>2, AtMostOne DEF SettingsFit, SettingsMode
    <3>2. SettingsForm!SettingsSubmitOnce
      BY <3>1 DEF SettingsForm!SettingsSubmitOnce
    <3> QED
      BY <1>6, <3>1, <3>2, FormNames, OnceElsewhere DEF OneSubmission
  <2>3. CASE n = "cleanup"
    <3>1. \A i, j \in DOMAIN form.sent :
             i # j => (Trigger(form.sent[i]) <=> ~Trigger(form.sent[j]))
      BY <2>1, <2>3 DEF SettingsFit, SettingsExtra, CleanupExtra
    <3>2. SettingsForm!SettingsSubmitOnce
      BY <2>3, <3>1 DEF SettingsForm!SettingsSubmitOnce, SettingsForm!Named, Trigger
    <3> QED
      BY <2>3, <3>2, OnceElsewhere DEF OneSubmission
  <2> QED
    BY <2>2, <2>3
<1>7. CASE n \in ToolForm!ToolFormNames
  <2>1. ToolFit(form, n)
    BY <1>0, <1>7, FormIs
  <2>2. CASE n = "reach"
    <3>1. ToolRequests(n) = {}
      BY <2>2 DEF ToolRequests
    <3>2. Form!FormSubmitsOnce
      BY <2>1, <3>1, SendsNone DEF ToolFit
    <3> QED
      BY <2>2, <3>2, FormNames, OnceElsewhere DEF OneSubmission
  <2>3. CASE n = "debug"
    <3>1. Apart(form.sent)
      BY <2>1, <2>3 DEF ToolFit, ToolExtra, DebugExtra
    <3>2. ToolForm!ToolSubmitOnce
      BY <3>1 DEF ToolForm!ToolSubmitOnce, Apart
    <3> QED
      BY <2>3, <3>2, FormNames, OnceElsewhere DEF OneSubmission
  <2> QED
    BY <1>7, <2>2, <2>3, FormNames
<1>8. CASE n \in TableForm!TableFormNames
  BY <1>8, FormNames, OnceElsewhere DEF OneSubmission
<1>9. CASE n \in AccountForm!AccountFormNames
  <2>1. n # "login" => Form!FormSubmitsOnce
    BY <1>0, <1>9, FormIs, AtMostOne DEF AccountFit, AccountMode
  <2> QED
    BY <1>9, <2>1, FormNames, OnceElsewhere DEF OneSubmission
<1>10. CASE n \in Preference!PreferencesNames
  <2>1. Form!FormSubmitsOnce
    BY <1>0, <1>10, FormIs, AtMostOne DEF PreferenceFit
  <2> QED
    BY <1>10, <2>1, FormNames, OnceElsewhere DEF OneSubmission
<1> QED
  BY <1>0, <1>1, <1>2, <1>3, <1>4, <1>5, <1>6, <1>7, <1>8, <1>9, <1>10 DEF FormGood

\* What is under way is one of the requests its form may send.
LEMMA WasSent ==
    ASSUME NEW n, NEW F, NEW P, NEW R, NEW mode, Fit(form, n, F, P, R, mode)
    PROVE  \A i \in DOMAIN form.sent : form.sent[i] \in R
  BY DEF Fit, Sending

LEMMA FormsAreComplete == FormInv => RequestsComplete
<1> SUFFICES ASSUME FormInv PROVE RequestsComplete
  OBVIOUS
<1> DEFINE n == form.name
<1>0. FormGood(form)
  BY DEF FormInv
<1>1. TunnelForm!TunnelRequestsComplete
  <2>1. CASE n \in TunnelForm!TunnelFormNames
    <3>1. \A i \in DOMAIN form.sent : form.sent[i] \in TunnelRequests(n)
      BY <1>0, <2>1, FormIs, WasSent DEF TunnelFit
    <3> QED
      BY <3>1 DEF TunnelForm!TunnelRequestsComplete, TunnelRequests
  <2> QED
    BY <2>1 DEF TunnelForm!TunnelRequestsComplete
<1>2. ServiceForm!ServiceRequestsComplete
  <2>1. CASE n \in ServiceForm!ServiceFormNames
    <3>1. \A i \in DOMAIN form.sent : form.sent[i] \in ServiceRequests(n)
      BY <1>0, <2>1, FormIs, WasSent DEF ServiceFit
    <3> QED
      BY <3>1 DEF ServiceForm!ServiceRequestsComplete, ServiceRequests, ServiceForm!Named
  <2> QED
    BY <2>1 DEF ServiceForm!ServiceRequestsComplete
<1>3. EndpointForm!EndpointRequestsComplete
  <2>1. CASE n \in EndpointForm!EndpointFormNames
    <3>1. \A i \in DOMAIN form.sent : form.sent[i] \in EndpointRequests(n)
      BY <1>0, <2>1, FormIs, WasSent DEF EndpointFit
    <3> QED
      BY <3>1 DEF EndpointForm!EndpointRequestsComplete, EndpointRequests, EndpointForm!Named
  <2> QED
    BY <2>1 DEF EndpointForm!EndpointRequestsComplete
<1>4. SettingsForm!SettingsRequestsComplete
  <2>1. CASE n \in SettingsForm!SettingsFormNames
    <3>1. \A i \in DOMAIN form.sent : form.sent[i] \in SettingsRequests(n)
      BY <1>0, <2>1, FormIs, WasSent DEF SettingsFit
    <3> QED
      BY <3>1 DEF SettingsForm!SettingsRequestsComplete, SettingsRequests
  <2> QED
    BY <2>1 DEF SettingsForm!SettingsRequestsComplete
<1>5. AccountForm!AccountRequestsComplete
  <2>1. CASE n \in AccountForm!AccountFormNames
    <3>1. \A i \in DOMAIN form.sent : form.sent[i] \in AccountRequests(n)
      BY <1>0, <2>1, FormIs, WasSent DEF AccountFit
    <3> QED
      BY <3>1 DEF AccountForm!AccountRequestsComplete, AccountRequests
  <2> QED
    BY <2>1 DEF AccountForm!AccountRequestsComplete
<1> QED
  BY <1>1, <1>2, <1>3, <1>4, <1>5 DEF RequestsComplete

-----------------------------------------------------------------------------
(* What the forms contribute to the invariants of all pages                *)

\* A form that fits holds values of its types.
LEMMA FitsType ==
    ASSUME NEW f, NEW n, NEW F, NEW G, NEW P, NEW R, NEW mode, Fit(f, n, F, P, R, mode),
           F \subseteq G, R \subseteq Requests(G)
    PROVE  Form!IsForm(f, G)
<1>1. ASSUME NEW S, NEW T, S \subseteq T, NEW s \in Seq(S)
      PROVE  s \in Seq(T)
  BY <1>1
<1>2. /\ f.open \in BOOLEAN /\ f.loading \in BOOLEAN /\ f.busy \in BOOLEAN
      /\ f.target \in Ids \cup {NoId} /\ f.shown \in Ids \cup {NoId}
      /\ f.filled \subseteq G
  BY DEF Fit
<1>3. f.rules \in Seq(SUBSET F) /\ Len(f.rules) <= MaxRules
  BY DEF Fit, Rows
<1>4. f.rules \in Seq(SUBSET G)
  <2>1. SUBSET F \subseteq SUBSET G
    OBVIOUS
  <2> QED
    BY <1>1, <1>3, <2>1
<1>5. f.asked \in Seq(Ids \cup {NoId}) /\ Len(f.asked) <= MaxAsked
  BY DEF Fit, Asking
<1>6. f.sent \in Seq(R) /\ Len(f.sent) <= MaxSent
  BY DEF Fit, Sending
<1>7. f.sent \in Seq(Requests(G))
  BY <1>1, <1>6
<1> QED
  BY Zenon, <1>2, <1>3, <1>4, <1>5, <1>6, <1>7 DEF Form!IsForm, Requests

\* The forms are typed.
FormsTyped ==
    /\ TunnelForm!TunnelFormsTypeOK /\ GroupForm!GroupFormsTypeOK
    /\ ServiceForm!ServiceFormsTypeOK /\ EndpointForm!EndpointFormsTypeOK
    /\ SettingsForm!SettingsFormsTypeOK /\ ToolForm!ToolFormsTypeOK
    /\ TableForm!TableFormsTypeOK /\ AccountForm!AccountFormsTypeOK
    /\ Preference!PreferencesTypeOK

LEMMA FormTypes == FormInv => FormsTyped
<1> SUFFICES ASSUME FormInv PROVE FormsTyped
  OBVIOUS
<1> DEFINE n == form.name
<1>0. FormGood(form)
  BY DEF FormInv
<1>a. ASSUME NEW G
      PROVE  /\ Form!IsForm(form, G) => TunnelForm!IsForm(form, G) /\ GroupForm!IsForm(form, G)
             /\ Form!IsForm(form, G) => ServiceForm!IsForm(form, G) /\ EndpointForm!IsForm(form, G)
             /\ Form!IsForm(form, G) => SettingsForm!IsForm(form, G) /\ ToolForm!IsForm(form, G)
             /\ Form!IsForm(form, G) => TableForm!IsForm(form, G) /\ AccountForm!IsForm(form, G)
             /\ Form!IsForm(form, G) => Preference!IsForm(form, G)
  BY Zenon DEF Form!IsForm, TunnelForm!IsForm, GroupForm!IsForm, ServiceForm!IsForm,
               EndpointForm!IsForm, SettingsForm!IsForm, ToolForm!IsForm, TableForm!IsForm,
               AccountForm!IsForm, Preference!IsForm
<1>b. Form!NoPick = TunnelForm!NoPick /\ Form!NoPick = GroupForm!NoPick
      /\ Form!NoPick = ServiceForm!NoPick /\ Form!NoPick = EndpointForm!NoPick
  BY DEF Form!NoPick, TunnelForm!NoPick, GroupForm!NoPick, ServiceForm!NoPick, EndpointForm!NoPick
<1>1. TunnelForm!TunnelFormsTypeOK
  <2>1. CASE n \in TunnelForm!TunnelFormNames
    <3>1. TunnelFit(form, n)
      BY <1>0, <2>1, FormIs
    <3>2. TunnelFields \subseteq TunnelForm!Fields
          /\ TunnelRequests(n) \subseteq Requests(TunnelForm!Fields)
      BY DEF TunnelFields, TunnelRequests
    <3>3. TunnelForm!IsForm(form, TunnelForm!Fields)
      BY <1>a, <3>1, <3>2, FitsType DEF TunnelFit
    <3>4. form.pick \in TunnelPicks(n)
      BY <3>1 DEF TunnelFit, Fit
    <3> QED
      BY <1>b, <3>3, <3>4
         DEF TunnelForm!TunnelFormsTypeOK, TunnelForm!Named, TunnelPicks, TunnelForm!SimpleTypeOK,
             TunnelForm!CreateTypeOK, TunnelForm!BatchTypeOK, SimplePicks, CreatePicks, BatchPicks
  <2> QED
    BY <2>1 DEF TunnelForm!TunnelFormsTypeOK
<1>2. GroupForm!GroupFormsTypeOK
  <2>1. CASE n \in GroupForm!GroupFormNames
    <3>1. GroupFit(form, n)
      BY <1>0, <2>1, FormIs
    <3>2. GroupForm!IsForm(form, GroupForm!GroupFields)
      BY <1>a, <3>1, FitsType DEF GroupFit, GroupRequests, GroupFields
    <3>3. form.pick \in GroupPicks(n)
      BY <3>1 DEF GroupFit, Fit
    <3>4. n = "groups" \/ n = "members" \/ n = "tags"
      BY <2>1, FormNames
    <3> QED
      BY <1>b, <3>2, <3>3, <3>4
         DEF GroupForm!GroupFormsTypeOK, GroupForm!Named, GroupPicks, GroupForm!TagsTypeOK, TagsPicks
  <2> QED
    BY <2>1 DEF GroupForm!GroupFormsTypeOK
<1>3. ServiceForm!ServiceFormsTypeOK
  <2>1. CASE n \in ServiceForm!ServiceFormNames
    <3>1. ServiceFit(form, n)
      BY <1>0, <2>1, FormIs
    <3>2. ServiceRequests(n) \subseteq Requests(ServiceForm!ServiceFields)
      BY DEF ServiceRequests, ServiceFields
    <3>3. ServiceForm!IsForm(form, ServiceForm!ServiceFields)
      BY <1>a, <3>1, <3>2, FitsType DEF ServiceFit, ServiceFields
    <3>4. form.pick \in ServicePicks(n)
      BY <3>1 DEF ServiceFit, Fit
    <3> QED
      BY <1>b, <3>3, <3>4
         DEF ServiceForm!ServiceFormsTypeOK, ServiceForm!Named, ServicePicks,
             ServiceForm!ServiceTypeOK, ServiceForm!AssembleTypeOK, ServiceForm!TemplateTypeOK,
             ScenarioPicks, AssemblePicks, TemplatePicks
  <2> QED
    BY <2>1 DEF ServiceForm!ServiceFormsTypeOK
<1>4. EndpointForm!EndpointFormsTypeOK
  <2>1. CASE n \in EndpointForm!EndpointFormNames
    <3>1. EndpointFit(form, n)
      BY <1>0, <2>1, FormIs
    <3>2. EndpointRequests(n) \subseteq Requests(EndpointForm!EndpointFields)
      BY DEF EndpointRequests, EndpointFields
    <3>3. EndpointForm!IsForm(form, EndpointForm!EndpointFields)
      BY <1>a, <3>1, <3>2, FitsType DEF EndpointFit, EndpointFields
    <3>4. form.pick \in EndpointPicks(n)
      BY <3>1 DEF EndpointFit, Fit
    <3> QED
      BY <1>b, <3>3, <3>4
         DEF EndpointForm!EndpointFormsTypeOK, EndpointForm!Named, EndpointPicks,
             EndpointForm!AddTypeOK, EndpointForm!ImportTypeOK, EndpointForm!ConfigTypeOK,
             EndpointForm!AskTypeOK, AddPicks, ImportPicks
  <2> QED
    BY <2>1 DEF EndpointForm!EndpointFormsTypeOK
<1>5. SettingsForm!SettingsFormsTypeOK
  <2>1. CASE n \in SettingsForm!SettingsFormNames
    <3>1. SettingsFit(form, n)
      BY <1>0, <2>1, FormIs
    <3>2. SettingsRequests(n) \subseteq Requests(SettingsForm!SettingsFields)
      BY DEF SettingsRequests, SettingsFields
    <3>3. SettingsForm!IsForm(form, SettingsForm!SettingsFields)
      BY <1>a, <3>1, <3>2, FitsType DEF SettingsFit, SettingsFields
    <3>4. form.pick \in SettingsPicks(n)
      BY <3>1 DEF SettingsFit, Fit
    <3>5. n = "security" \/ n = "cleanup" \/ n = "version"
      BY <2>1, FormNames
    <3> QED
      BY <3>3, <3>4, <3>5
         DEF SettingsForm!SettingsFormsTypeOK, SettingsForm!Named, SettingsPicks,
             SettingsForm!SecurityTypeOK, SettingsForm!CleanupTypeOK, SettingsForm!VersionTypeOK,
             SecurityPicks, CleanupPicks, VersionPicks
  <2> QED
    BY <2>1 DEF SettingsForm!SettingsFormsTypeOK
<1>6. ToolForm!ToolFormsTypeOK
  <2>1. CASE n \in ToolForm!ToolFormNames
    <3>1. ToolFit(form, n)
      BY <1>0, <2>1, FormIs
    <3>2. ToolRequests(n) \subseteq Requests(ToolForm!ToolFields)
      BY DEF ToolRequests, ToolFields
    <3>3. ToolForm!IsForm(form, ToolForm!ToolFields)
      BY <1>a, <3>1, <3>2, FitsType DEF ToolFit, ToolFields
    <3>4. form.pick \in ToolPicks(n)
      BY <3>1 DEF ToolFit, Fit
    <3> QED
      BY <3>3, <3>4
         DEF ToolForm!ToolFormsTypeOK, ToolForm!Named, ToolPicks, ToolForm!DebugTypeOK,
             ReachPicks, DebugPicks
  <2> QED
    BY <2>1 DEF ToolForm!ToolFormsTypeOK
<1>7. TableForm!TableFormsTypeOK
  <2>1. CASE n \in TableForm!TableFormNames
    <3>1. TableFit(form, n)
      BY <1>0, <2>1, FormIs
    <3>2. TableForm!IsForm(form, TableForm!Operations \cup TableForm!Keys)
      BY <1>a, <3>1, FitsType DEF TableFit, TableRequests, TableFields
    <3>3. form.pick \in TableAll /\ form.pick.running \subseteq form.pick.rows
      BY <3>1 DEF TableFit, Fit, TablePicks
    <3> QED
      BY <3>2, <3>3 DEF TableForm!TableFormsTypeOK, TableForm!TableTypeOK, TableAll
  <2> QED
    BY <2>1 DEF TableForm!TableFormsTypeOK
<1>8. AccountForm!AccountFormsTypeOK
  <2>1. CASE n \in AccountForm!AccountFormNames
    <3>1. AccountFit(form, n)
      BY <1>0, <2>1, FormIs
    <3>2. AccountRequests(n) \subseteq Requests(AccountForm!AccountFields)
      BY DEF AccountRequests, AccountFields
    <3>3. AccountForm!IsForm(form, AccountForm!AccountFields)
      BY <1>a, <3>1, <3>2, FitsType DEF AccountFit, AccountFields
    <3>4. form.pick \in AccountPicks(n)
      BY <3>1 DEF AccountFit, Fit
    <3> QED
      BY <3>3, <3>4
         DEF AccountForm!AccountFormsTypeOK, AccountForm!Named, AccountPicks, LoginPicks, GuidePicks
  <2> QED
    BY <2>1 DEF AccountForm!AccountFormsTypeOK
<1>9. Preference!PreferencesTypeOK
  <2>1. CASE n = "preferences"
    <3>1. PreferenceFit(form, n)
      BY <1>0, <2>1, FormIs, FormNames
    <3>2. Preference!IsForm(form, {})
      BY <1>a, <3>1, FitsType DEF PreferenceFit
    <3>3. form.pick \in PreferencePicks
      BY <3>1 DEF PreferenceFit, Fit
    <3> QED
      BY <3>2, <3>3 DEF Preference!PreferencesTypeOK, PreferencePicks
  <2> QED
    BY <2>1 DEF Preference!PreferencesTypeOK, Preference!Named
<1> QED
  BY <1>1, <1>2, <1>3, <1>4, <1>5, <1>6, <1>7, <1>8, <1>9 DEF FormsTyped

\* The flag of a button, and the spinner of a form, stand for something under way.
LEMMA FormsWait == FormInv => Form!FormBusyMeansPending /\ ToolForm!ToolsBusyMeansPending
<1> SUFFICES ASSUME FormInv
             PROVE  Form!FormBusyMeansPending /\ ToolForm!ToolsBusyMeansPending
  OBVIOUS
<1>0. FormGood(form)
  BY DEF FormInv
<1>1. ASSUME NEW n, NEW F, NEW P, NEW R, NEW mode, Fit(form, n, F, P, R, mode)
      PROVE  Form!FormBusyMeansPending
  BY <1>1 DEF Fit, Asking, Sending, Form!FormBusyMeansPending
<1>2. ASSUME form = Form!NoForm
      PROVE  Form!FormBusyMeansPending
  BY <1>2 DEF Form!NoForm, Form!FormOf, Form!FormBusyMeansPending
<1>3. Form!FormBusyMeansPending
  BY <1>0, <1>1, <1>2
     DEF FormGood, TunnelFit, GroupFit, ServiceFit, EndpointFit, SettingsFit, ToolFit, TableFit,
         AccountFit, PreferenceFit
<1>4. ToolForm!ToolsBusyMeansPending
  <2>1. CASE form.name = "reach"
    <3>1. ToolFit(form, "reach")
      BY <1>0, <2>1, FormIs, FormNames
    <3> QED
      BY <2>1, <3>1
         DEF ToolFit, ToolExtra, ToolForm!ToolsBusyMeansPending, ToolForm!Named
  <2>2. CASE form.name = "debug"
    <3>1. ToolFit(form, "debug")
      BY <1>0, <2>2, FormIs, FormNames
    <3>2. DebugExtra(form) /\ form.pick \in DebugPicks
      BY <3>1 DEF ToolFit, Fit, ToolExtra, ToolPicks
    <3>3. form.pick.testing \subseteq ToolForm!Probes
      BY <3>2 DEF DebugPicks
    <3>4. form.pick.testing =
             {p \in ToolForm!Probes :
                 \E i \in DOMAIN form.sent : form.sent[i].has = ToolForm!ProbeNeeds(p)}
      BY <3>2, <3>3 DEF DebugExtra, Runs
    <3>5. form.pick.testing \cap form.pick.results = {}
      BY <3>2 DEF DebugExtra
    <3> QED
      BY <2>2, <3>4, <3>5 DEF ToolForm!ToolsBusyMeansPending, ToolForm!Named
  <2> QED
    BY <2>1, <2>2 DEF ToolForm!ToolsBusyMeansPending, ToolForm!Named
<1> QED
  BY <1>3, <1>4

-----------------------------------------------------------------------------
\* Whatever pages the user visits, and whatever is still under way when he leaves one, the
\* hook behaves as MetricsTrend says: every step of the pages is a step of the hook or
\* leaves it alone.
THEOREM PagesUseHook == Spec => TrendSpec
<1>1. Init => TrendStart
  BY PagesInit
<1> QED
  BY <1>1, PagesStep, PagesInvariance, PTL DEF Spec, TrendSpec

\* So the charts of the two pages never go back to older measurements, and the timer polls
\* for the tunnel of the page.
THEOREM PagesChartsFollow == Spec => []ChartsFollow
  BY PagesUseHook, ChartsFollowAlways, PTL

\* Live lines of a log never pass for those of its file: once the switch is off, they are
\* shown only until an answer under way replaces them.
THEOREM LiveLinesGoAlways == Spec => []LiveLinesGo
<1>1. PagesInv => LiveLinesGo
  BY DEF PagesInv, PageInv, TunnelInv, TunnelGood, LiveLinesGo, Tunnel!LiveLinesGo
<1> QED
  BY <1>1, PagesInvariance, PTL

\* Every page, what it has left under way, the dialogs and the forms hold values of their
\* types, within the bounds of their requests: of TypeOK, whatever holds of the forms is
\* FormTypes, and the rest the first part of each page's invariant.
THEOREM TypesAlways == Spec => []TypeOK
<1>1. PagesInv /\ FormInv => TypeOK
  <2> SUFFICES ASSUME PagesInv, FormInv PROVE TypeOK
    OBVIOUS
  <2>1. route \in Pages /\ late \subseteq {"tunnels", "services", "endpoints"} /\ TrendTypeOK
    BY DEF PagesInv, TrendInv, Targets
  <2>2. Tunnel!DetailsTypeOK /\ Service!ServiceTypeOK /\ Tunnels!TunnelsTypeOK
    BY DEF PagesInv, PageInv, TunnelInv, TunnelGood, ServiceInv, ServiceGood, TunnelsInv,
           TunnelsGood, Tunnel!DetailsTypeOK, Service!ServiceTypeOK, Tunnels!TunnelsTypeOK
  <2>3. Endpoints!EndpointsTypeOK
    BY DEF PagesInv, PageInv, EndpointsInv, ListGood, EndpointGood, ChangeGood,
           Endpoints!EndpointsTypeOK
  <2>4. ServiceList!ServicesTypeOK /\ Board!DashboardTypeOK /\ Events!EventsTypeOK
    BY DEF PagesInv, PageInv, CardsInv, CardsGood, BoardInv, BoardGood, EventsInv, EventsGood,
           ServiceList!ServicesTypeOK, Board!DashboardTypeOK, Events!EventsTypeOK
  <2>5. Network!TestTypeOK /\ Tcping!PingTypeOK
    BY DEF PagesInv, TestGood, PingGood, Network!TestTypeOK, Tcping!PingTypeOK
  <2>6. FormsTyped
    BY FormTypes
  <2> QED
    BY <2>1, <2>2, <2>3, <2>4, <2>5, <2>6 DEF TypeOK, FormsTyped
<1> QED
  BY <1>1, PagesInvariance, FormsInvariance, PTL

\* No page is left behind a spinner, and no button dead, without a request that ends it:
\* not by overlapping requests, by failures, by a page that is left, or by a form that is
\* closed and opened again.
THEOREM SpinnersEnd == Spec => []BusyMeansPending
<1>1. ASSUME PagesInv, FormInv
      PROVE  BusyMeansPending
  <2>1. Tunnel!BusyMeansPending
    BY <1>1 DEF PagesInv, PageInv, TunnelInv, TunnelGood, Tunnel!BusyMeansPending
  <2>2. Service!ServiceBusyMeansPending
    BY <1>1 DEF PagesInv, PageInv, ServiceInv, ServiceGood, Service!ServiceBusyMeansPending
  <2>3. Tunnels!ListBusyMeansPending
    BY <1>1 DEF PagesInv, PageInv, TunnelsInv, TunnelsGood, Tunnels!ListBusyMeansPending
  <2>4. Endpoints!EndpointsBusyMeansPending
    BY <1>1 DEF PagesInv, PageInv, EndpointsInv, ListGood, EndpointGood,
                Endpoints!EndpointsBusyMeansPending
  <2>5. ServiceList!ServicesBusyMeansPending
    BY <1>1 DEF PagesInv, PageInv, CardsInv, CardsGood, ServiceList!ServicesBusyMeansPending
  <2>6. Board!DashboardBusyMeansPending
    BY <1>1 DEF PagesInv, PageInv, BoardInv, BoardGood, Board!DashboardBusyMeansPending
  <2>7. Events!EventsBusyMeansPending
    BY <1>1 DEF PagesInv, PageInv, EventsInv, EventsGood, Events!EventsBusyMeansPending
  <2>8. Network!TestBusyMeansPending
    BY <1>1 DEF PagesInv, TestGood, Network!TestBusyMeansPending
  <2>9. Tcping!PingBusyMeansPending
    BY <1>1 DEF PagesInv, PingGood, Tcping!PingBusyMeansPending
  <2>10. Form!FormBusyMeansPending /\ ToolForm!ToolsBusyMeansPending
    BY <1>1, FormsWait
  <2> QED
    BY <2>1, <2>2, <2>3, <2>4, <2>5, <2>6, <2>7, <2>8, <2>9, <2>10 DEF BusyMeansPending
<1> QED
  BY <1>1, PagesInvariance, FormsInvariance, PTL

\* The list of tunnels is searched for what its field holds, or for nothing: the debounce
\* of an earlier text never reaches the query.
THEOREM FilterFollowsInput == Spec => FilterIsNewestInput
<1>1. PagesInv /\ [Next]_vars =>
         [Tunnels!Here /\ route' = route /\ page'.query.search # page.query.search =>
             page'.query.search \in {page'.input, NoText}]_<<route, page>>
  <2> SUFFICES ASSUME PagesInv, [Next]_vars, Tunnels!Here, route' = route,
                      page'.query.search # page.query.search
               PROVE  page'.query.search \in {page'.input, NoText}
    OBVIOUS
  <2>1. Tunnels!TunnelsNext
    BY OwnSteps DEF Tunnels!Here
  <2>2. Searched(page')
    BY <2>1, TunnelsStep DEF PagesInv, PageInv
  <2> QED
    BY <2>2 DEF Searched
<1> QED
  BY <1>1, PagesInvariance, PTL DEF Spec, FilterIsNewestInput, Tunnels!FilterIsNewestInput

\* Whatever the server takes longer for, no order of an earlier drag replaces a later one.
THEOREM LastDragStaysAlways == Spec => LastDragStays
<1>1. PagesInv /\ [Next]_vars =>
         [ServiceList!Here /\ route' = route => page'.saved >= page.saved]_<<route, page>>
  <2> SUFFICES ASSUME PagesInv, [Next]_vars, ServiceList!Here, route' = route, page' # page
               PROVE  page'.saved >= page.saved
    OBVIOUS
  <2>1. ServiceList!ServicesNext
    BY OwnSteps DEF ServiceList!Here
  <2> QED
    BY <2>1, CardsStep DEF PagesInv, PageInv
<1> QED
  BY <1>1, PagesInvariance, PTL DEF Spec, LastDragStays, ServiceList!LastDragStays

\* A new key that an endpoint was given on its page is followed by the request to connect
\* it again, whatever the user does meanwhile but reload the window.
THEOREM KeyResetReconnectsAlways == Spec => KeyResetReconnects
<1>1. PagesInv /\ [Next]_vars =>
         [rekey.from = "details" /\ rekey.step \in {"fetch", "timer"} =>
             rekey'.step \in {"fetch", "timer", "connect", "reloaded"}]_rekey
  <2> SUFFICES ASSUME PagesInv, [Next]_vars, rekey' # rekey,
                      rekey.from = "details", rekey.step \in {"fetch", "timer"}
               PROVE  rekey'.step \in {"fetch", "timer", "connect", "reloaded"}
    OBVIOUS
  <2>1. \/ \E p \in Pages : Go(p)
        \/ Quits \/ Navigates
        \/ Endpoints!EndpointsNext \/ Endpoints!RekeyNext
    BY Zenon DEF Next, vars, PageStep, NeverNavigates
  <2>2. (\E p : Appears(p)) \/ Endpoints!EndpointsNext \/ Endpoints!RekeyNext
    BY Zenon, <2>1 DEF Go, Quits, Navigates
  <2>3. CASE \E p : Appears(p)
    <3>1. rekey \in Endpoints!Rekey
      BY DEF PagesInv, PageInv, EndpointsInv, ChangeGood
    <3>2. Endpoints!RekeyLeft.step = rekey.step
      BY <3>1, ChangeLeft
    <3>3. Endpoints!RekeyLeft.step \notin Endpoints!Ends
      BY <3>2 DEF Endpoints!Ends
    <3>4. rekey' = Endpoints!RekeyLeft
      BY <2>3, <3>3 DEF Appears
    <3> QED
      BY <3>2, <3>4
  <2>4. CASE Endpoints!EndpointsNext \/ Endpoints!RekeyNext
    BY <2>4, KeyStep DEF PagesInv, PageInv
  <2> QED
    BY <2>2, <2>3, <2>4
<1> QED
  BY <1>1, PagesInvariance, PTL DEF Spec, KeyResetReconnects, Endpoints!KeyResetReconnects

\* However often a form that stays mounted is closed, opened again and submitted, and
\* whenever its answers come, no second submission of it starts while one is under way:
\* whatever stands for what is under way, its flag or the kind of an operation, does so in
\* every state.  The forms that lose their flag or have none are excepted by name.
THEOREM OneSubmissionAlways == Spec => []OneSubmission
  BY FormsInvariance, FormsSubmitOnce, PTL

\* Whatever was typed, cleared by another choice or taken over from a late answer, what is
\* under way has all the server needs of it.
THEOREM RequestsCompleteAlways == Spec => []RequestsComplete
  BY FormsInvariance, FormsAreComplete, PTL

\* What a step submits is what the form holds at that moment: it is for the object whose
\* data these are, and for which the page opened it, however many answers for other objects
\* came before, and it has no value of a field that a choice has taken away.
THEOREM SubmitsWhatIsShownAlways == Spec => SubmitsWhatIsShown
<1>1. FormInv /\ [Next]_vars =>
         [Len(form'.sent) > Len(form.sent) =>
             LET r == form'.sent[Len(form'.sent)]
             IN  /\ TunnelForm!TunnelSubmitsShown(r) /\ GroupForm!GroupSubmitsShown(r)
                 /\ ServiceForm!ServiceSubmitsShown(r) /\ EndpointForm!EndpointSubmitsShown(r)
                 /\ SettingsForm!SettingsSubmitsShown(r) /\ ToolForm!ToolSubmitsShown(r)
                 /\ TableForm!TableSubmitsShown(r) /\ AccountForm!AccountSubmitsShown(r)]_form
  <2> SUFFICES ASSUME FormInv, [Next]_vars, form' # form, Len(form'.sent) > Len(form.sent)
               PROVE  Confirmed(Last)
    BY DEF Confirmed, Last
  <2>1. FormStep
    BY Zenon DEF Next, vars
  <2>2. FormGood(form') /\ (Quiet \/ Confirmed(Last))
    BY <2>1, FormStepKeeps
  <2>3. Len(form.sent) \in Nat /\ Len(form'.sent) \in Nat
    BY <2>2, FormSent DEF FormInv
  <2>4. ~Quiet
    BY <2>3 DEF Quiet
  <2> QED
    BY <2>2, <2>4
<1> QED
  BY <1>1, FormsInvariance, PTL DEF Spec, SubmitsWhatIsShown

\* Whatever tab the theme is chosen in, and whatever order the news and the loads of the
\* other tab come in, all agree on it once no news is on its way.
THEOREM ThemesAgreeAlways == Spec => []ThemesAgree
<1>1. FormInv => ThemesAgree
  <2> SUFFICES ASSUME FormInv, form.name = "preferences", form.pick.news = "none"
               PROVE  Agreed(form.pick)
    BY DEF ThemesAgree, Preference!ThemesAgree, Preference!Named, Agreed, Follows
  <2>1. PreferenceFit(form, "preferences")
    BY FormIs, FormNames DEF FormInv
  <2> QED
    BY <2>1 DEF PreferenceFit, ThemeFollows
<1> QED
  BY <1>1, FormsInvariance, PTL

=============================================================================
