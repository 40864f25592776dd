----------------------------- MODULE FormsProofs ----------------------------
(***************************************************************************)
(* What each form of the frontend keeps, for any tunnels, endpoints and    *)
(* bounds: the forms that make and change objects, the settings and the    *)
(* tools.  PagesProofs adds the table of tunnels, the sign-in and the      *)
(* preferences, and draws the theorems from all of them.                   *)
(*                                                                         *)
(* Fit says that a form is typed, that its flag and its spinner stand for  *)
(* something under way, that all it has sent is of a set R of complete     *)
(* requests, and whether its flag sees to it that it is submitted once.    *)
(* Each module of forms adds, as its Extra, what its own selectors and     *)
(* fields owe each other: without it no submission could be shown to be    *)
(* complete, or to be what is on the screen.                               *)
(*                                                                         *)
(* A step is one of a few kinds, whatever form it is of: what is under way *)
(* stays, is added to, or is answered, or the form is unmounted. Steps,    *)
(* Hosts and Submissions say once for all what these do to Fit; the lemma  *)
(* TunnelFormsStep, and so on, goes through the actions of a module and    *)
(* shows which kind each is, that the Extra holds afterwards, and that     *)
(* what it submits is what is shown.                                       *)
(***************************************************************************)
EXTENDS Pages, SequenceTheorems, FiniteSetTheorems, TLAPS

\* A form has the fields it began with.
Shaped(f) ==
    f = [name |-> f.name, open |-> f.open, target |-> f.target, shown |-> f.shown,
         pick |-> f.pick, filled |-> f.filled, rules |-> f.rules, asked |-> f.asked,
         loading |-> f.loading, busy |-> f.busy, sent |-> f.sent]

Rows(s, F) == s \in Seq(SUBSET F) /\ Len(s) <= MaxRules

Asking(loading, asked) ==
    /\ asked \in Seq(Ids \cup {NoId}) /\ Len(asked) <= MaxAsked
    /\ loading => asked # <<>>

\* mode says whether a form sees to it by its flag that it is submitted once, or not at
\* all.
Sending(busy, sent, R, mode) ==
    /\ sent \in Seq(R) /\ Len(sent) <= MaxSent
    /\ busy => sent # <<>>
    /\ mode # "many" => Len(sent) <= 1
    /\ mode = "flag" /\ sent # <<>> => busy

\* The form f is called n and typed: its fields are of F, its selectors of P, and what it
\* has sent is of R.
Fit(f, n, F, P, R, mode) ==
    /\ Shaped(f) /\ f.name = n
    /\ f.open \in BOOLEAN /\ f.loading \in BOOLEAN /\ f.busy \in BOOLEAN
    /\ f.target \in Ids \cup {NoId} /\ f.shown \in Ids \cup {NoId}
    /\ f.pick \in P /\ f.filled \in SUBSET F /\ Rows(f.rules, F)
    /\ Asking(f.loading, f.asked) /\ Sending(f.busy, f.sent, R, mode)

Requests(F) == [to : Ids \cup {NoId}, has : SUBSET F, rows : Seq(SUBSET F)]

\* What a step makes of the form when it leaves alone what is under way, ...
Still ==
    /\ form'.asked = form.asked /\ form'.loading = form.loading
    /\ form'.busy = form.busy /\ form'.sent = form.sent

\* ... when it only waits no longer for what it asked for, ...
Stopped ==
    /\ form'.asked = form.asked /\ form'.loading = FALSE
    /\ form'.busy = form.busy /\ form'.sent = form.sent

\* ... when it asks for data, ...
Asked ==
    /\ Len(form.asked) < MaxAsked
    /\ \E o \in Ids \cup {NoId} : form'.asked = Append(form.asked, o)
    /\ form'.loading \in BOOLEAN /\ form'.busy = form.busy /\ form'.sent = form.sent

\* ... when they have come, ...
Heard ==
    /\ \E i \in DOMAIN form.asked : form'.asked = Form!Without(form.asked, i)
    /\ form'.loading = FALSE /\ form'.busy = form.busy /\ form'.sent = form.sent

\* ... when a submission is answered, ...
Replied ==
    /\ form'.asked = form.asked /\ form'.loading = form.loading
    /\ form'.busy = FALSE
    /\ \E i \in DOMAIN form.sent : form'.sent = Form!Without(form.sent, i)

\* ... and what has become different is asked for again, ...
AskedAgain ==
    /\ Len(form.asked) < MaxAsked
    /\ \E o \in Ids \cup {NoId} : form'.asked = Append(form.asked, o)
    /\ form'.loading \in BOOLEAN /\ form'.busy = FALSE
    /\ \E i \in DOMAIN form.sent : form'.sent = Form!Without(form.sent, i)

\* ... and when it submits r.
Submits(r) ==
    /\ Len(form.sent) < MaxSent /\ form'.sent = Append(form.sent, r)
    /\ form'.asked = form.asked /\ form'.loading = form.loading

\* A form that may be unmounted is gone, perhaps because of an answer, and takes nothing
\* with it but its submissions, ...
Gone ==
    /\ form'.asked = <<>> /\ form'.loading = FALSE /\ form'.busy = FALSE
    /\ \/ form'.sent = form.sent
       \/ \E i \in DOMAIN form.sent : form'.sent = Form!Without(form.sent, i)

\* ... or hears of a submission that may be of an instance that is gone.
Told ==
    /\ form'.asked = form.asked /\ form'.loading = form.loading /\ form'.busy \in BOOLEAN
    /\ \E i \in DOMAIN form.sent :
          /\ form'.sent = Form!Without(form.sent, i)
          /\ form'.busy => form.busy /\ i # Len(form.sent)

\* The rest of the form is typed.
Whole(n) ==
    /\ Shaped(form') /\ form'.name = n /\ form'.open \in BOOLEAN
    /\ form'.target \in Ids \cup {NoId} /\ form'.shown \in Ids \cup {NoId}

\* Only the fields differ, and whether the form is open.
Filled ==
    /\ form'.target = form.target /\ form'.shown = form.shown
    /\ form'.pick = form.pick /\ form'.rules = form.rules

\* Nothing is submitted.
Quiet == form'.sent = form.sent \/ Len(form'.sent) < Len(form.sent)

Last == form'.sent[Len(form'.sent)]

LEMMA FormBounds == MaxAsked \in Nat \ {0} /\ MaxSent \in Nat \ {0} /\ MaxRules \in Nat
<1>1. /\ MaxAsked \in {MaxPending, MaxFiles, MaxFetches, MaxLists, MaxRounds, MaxSequences, MaxAsked,
                       MaxSent}
      /\ MaxSent \in {MaxPending, MaxFiles, MaxFetches, MaxLists, MaxRounds, MaxSequences, MaxAsked,
                      MaxSent}
      /\ MaxRules \in {MaxRefresh, MaxDrags, MaxPings, MaxRules}
  OBVIOUS
<1> QED
  BY <1>1, BoundsAssumption, Zenon

-----------------------------------------------------------------------------
(* Sequences                                                               *)

LEMMA WithoutOne ==
    ASSUME NEW S, NEW s \in Seq(S), NEW i \in DOMAIN s
    PROVE  /\ Form!Without(s, i) \in Seq(S)
           /\ Len(Form!Without(s, i)) = Len(s) - 1
           /\ \A j \in DOMAIN Form!Without(s, i) :
                 Form!Without(s, i)[j] = s[IF j < i THEN j ELSE j + 1]
<1> DEFINE a == SubSeq(s, 1, i - 1)
           b == SubSeq(s, i + 1, Len(s))
<1>1. i \in Nat /\ 1 <= i /\ i <= Len(s) /\ Len(s) \in Nat
  OBVIOUS
<1>2. /\ a \in Seq(S) /\ Len(a) = i - 1
      /\ \A j \in 1..(i - 1) : a[j] = s[j]
  BY <1>1
<1>3. /\ b \in Seq(S) /\ Len(b) = Len(s) - i
      /\ \A j \in 1..(Len(s) - i) : b[j] = s[i + j]
  BY <1>1
<1> HIDE DEF a, b
<1>4. /\ a \o b \in Seq(S) /\ Len(a \o b) = Len(s) - 1
      /\ \A j \in 1..(Len(s) - 1) : (a \o b)[j] = IF j < i THEN a[j] ELSE b[j - i + 1]
  BY <1>1, <1>2, <1>3
<1>5. ASSUME NEW j \in 1..(Len(s) - 1)
      PROVE  (a \o b)[j] = s[IF j < i THEN j ELSE j + 1]
  <2>1. CASE j < i
    BY <1>1, <1>2, <1>4, <2>1
  <2>2. CASE ~(j < i)
    <3>1. j - i + 1 \in 1..(Len(s) - i) /\ i + (j - i + 1) = j + 1
      BY <1>1, <2>2
    <3>2. (a \o b)[j] = b[j - i + 1]
      BY <1>4, <2>2
    <3>3. b[j - i + 1] = s[j + 1]
      BY <1>3, <3>1
    <3> QED
      BY <2>2, <3>2, <3>3
  <2> QED
    BY <2>1, <2>2
<1>6. DOMAIN (a \o b) = 1..(Len(s) - 1)
  BY <1>1, <1>4
<1> QED
  BY <1>4, <1>5, <1>6 DEF Form!Without, a, b

LEMMA Added ==
    ASSUME NEW S, NEW s \in Seq(S), NEW x \in S
    PROVE  /\ Append(s, x) \in Seq(S) /\ Append(s, x) # <<>>
           /\ Len(Append(s, x)) = Len(s) + 1
           /\ Append(s, x)[Len(Append(s, x))] = x
<1>1. /\ Append(s, x) \in Seq(S) /\ Len(Append(s, x)) = Len(s) + 1
      /\ Append(s, x)[Len(s) + 1] = x
  OBVIOUS
<1>2. Append(s, x) # <<>>
  BY <1>1, EmptySeq
<1> QED
  BY <1>1, <1>2

LEMMA NoneOrSome ==
    ASSUME NEW S, NEW s \in Seq(S)
    PROVE  Len(s) \in Nat /\ (s = <<>> <=> Len(s) = 0)
  BY EmptySeq

LEMMA Appended ==
    ASSUME NEW S, NEW s \in Seq(S), NEW x, NEW t, t = Append(s, x)
    PROVE  /\ Len(s) + 1 \in DOMAIN t /\ t[Len(s) + 1] = x
           /\ \A j \in DOMAIN s : j \in DOMAIN t /\ j # Len(s) + 1 /\ t[j] = s[j]
           /\ \A j \in DOMAIN t : j \in DOMAIN s \/ j = Len(s) + 1
<1>1. s \in Seq(S \cup {x}) /\ Len(s) \in Nat /\ DOMAIN s = 1..Len(s)
  OBVIOUS
<1>2. /\ DOMAIN t = 1..(Len(s) + 1) /\ t[Len(s) + 1] = x
      /\ \A j \in 1..Len(s) : t[j] = s[j]
  BY <1>1
<1> QED
  BY <1>1, <1>2

\* What is left in t of s without its element i are the others, each in a place of its own.
OthersOf(s, i, t) ==
    /\ \A j \in DOMAIN t : \E k \in DOMAIN s : k # i /\ t[j] = s[k]
    /\ \A k \in DOMAIN s : k # i => \E j \in DOMAIN t : t[j] = s[k]
    /\ \A j, l \in DOMAIN t : j # l =>
          \E k, m \in DOMAIN s : k # m /\ k # i /\ m # i /\ t[j] = s[k] /\ t[l] = s[m]

LEMMA Others ==
    ASSUME NEW S, NEW s \in Seq(S), NEW i \in DOMAIN s, NEW t, t = Form!Without(s, i)
    PROVE  OthersOf(s, i, t)
<1> DEFINE at(j) == IF j < i THEN j ELSE j + 1
           to(k) == IF k < i THEN k ELSE k - 1
<1>1. /\ DOMAIN s = 1..Len(s) /\ Len(s) \in Nat /\ i \in 1..Len(s)
      /\ t \in Seq(S) /\ Len(t) = Len(s) - 1
      /\ \A j \in DOMAIN t : t[j] = s[at(j)]
  BY WithoutOne
<1>2. DOMAIN t = 1..(Len(s) - 1)
  BY <1>1
<1>3. ASSUME NEW j \in DOMAIN t
      PROVE  at(j) \in DOMAIN s /\ at(j) # i
  BY <1>1, <1>2
<1>4. ASSUME NEW k \in DOMAIN s, k # i
      PROVE  to(k) \in DOMAIN t /\ at(to(k)) = k
  BY <1>1, <1>2, <1>4
<1>5. ASSUME NEW j \in DOMAIN t, NEW l \in DOMAIN t, j # l
      PROVE  at(j) # at(l)
  BY <1>1, <1>2, <1>5
<1> HIDE DEF at, to
<1>6. ASSUME NEW j \in DOMAIN t
      PROVE  \E k \in DOMAIN s : k # i /\ t[j] = s[k]
  BY <1>1, <1>3
<1>7. ASSUME NEW k \in DOMAIN s, k # i
      PROVE  \E j \in DOMAIN t : t[j] = s[k]
  BY <1>1, <1>4, <1>7
<1>8. ASSUME NEW j \in DOMAIN t, NEW l \in DOMAIN t, j # l
      PROVE  \E k, m \in DOMAIN s : k # m /\ k # i /\ m # i /\ t[j] = s[k] /\ t[l] = s[m]
  BY <1>1, <1>3, <1>5, <1>8
<1> QED
  BY <1>6, <1>7, <1>8 DEF OthersOf

LEMMA SomeSent == ASSUME NEW s, s = <<>>, NEW i \in DOMAIN s PROVE FALSE
<1>1. DOMAIN s = {}
  OBVIOUS
<1> QED
  BY <1>1

LEMMA RowFits ==
    ASSUME NEW F, NEW s, Rows(s, F), NEW i \in DOMAIN s, NEW k \in SUBSET F
    PROVE  Rows([s EXCEPT ![i] = k], F)
  BY DEF Rows

LEMMA DroppedFits ==
    ASSUME NEW F, NEW s, Rows(s, F), NEW i \in DOMAIN s
    PROVE  Rows(Form!Without(s, i), F)
<1>1. Form!Without(s, i) \in Seq(SUBSET F) /\ Len(Form!Without(s, i)) = Len(s) - 1
  BY WithoutOne DEF Rows
<1>2. Len(s) \in Nat
  BY NoneOrSome DEF Rows
<1> QED
  BY <1>1, <1>2, FormBounds DEF Rows

LEMMA AddedFits ==
    ASSUME NEW F, NEW s, Rows(s, F), Len(s) < MaxRules, NEW k \in SUBSET F
    PROVE  Rows(Append(s, k), F)
<1>1. Append(s, k) \in Seq(SUBSET F) /\ Len(Append(s, k)) = Len(s) + 1
  BY Added DEF Rows
<1>2. Len(s) \in Nat
  BY NoneOrSome DEF Rows
<1> QED
  BY <1>1, <1>2, FormBounds DEF Rows

LEMMA NoRows == ASSUME NEW F PROVE Rows(<<>>, F)
  BY FormBounds, EmptySeq DEF Rows

-----------------------------------------------------------------------------
(* The steps all forms are made of                                         *)

\* A form that has just appeared.
LEMMA Begins ==
    ASSUME NEW n, NEW F, NEW P, NEW R, NEW mode, NEW f, Shaped(f), f.name = n,
           f.open \in BOOLEAN, f.loading \in BOOLEAN, f.busy = FALSE,
           f.target = NoId, f.shown = NoId, f.pick \in P, f.filled \subseteq F, f.rules = <<>>,
           (f.asked = <<>> /\ f.loading = FALSE) \/ f.asked = <<NoId>>, f.sent = <<>>
    PROVE  Fit(f, n, F, P, R, mode)
<1>1. Rows(f.rules, F)
  BY NoRows
<1>2. Asking(f.loading, f.asked)
  <2>1. CASE f.asked = <<>>
    BY <2>1, EmptySeq, FormBounds DEF Asking
  <2>2. CASE f.asked = <<NoId>>
    <3>1. /\ <<NoId>> \in Seq(Ids \cup {NoId}) /\ Len(<<NoId>>) = 1 /\ <<NoId>> # <<>>
      OBVIOUS
    <3> QED
      BY <2>2, <3>1, FormBounds DEF Asking
  <2> QED
    BY <2>1, <2>2
<1>3. Sending(f.busy, f.sent, R, mode)
  BY EmptySeq, FormBounds DEF Sending
<1> QED
  BY <1>1, <1>2, <1>3 DEF Fit

\* The form f, called n, of a page that was just entered, with its selectors at p.
Fresh(f, n, p) ==
    /\ Shaped(f) /\ f.name = n /\ f.pick = p /\ f.open \in BOOLEAN /\ f.loading \in BOOLEAN
    /\ f.busy = FALSE /\ f.target = NoId /\ f.shown = NoId /\ f.filled = {} /\ f.rules = <<>>
    /\ (f.asked = <<>> /\ f.loading = FALSE) \/ f.asked = <<NoId>>
    /\ f.sent = <<>>

LEMMA Appearance ==
    ASSUME NEW n, NEW F, NEW P, NEW R, NEW mode, NEW p \in P, NEW f, Fresh(f, n, p)
    PROVE  Fit(f, n, F, P, R, mode)
  BY Begins DEF Fresh

LEMMA Moves ==
    ASSUME NEW n, NEW F, NEW P, NEW R, NEW mode, Fit(form, n, F, P, R, mode),
           Still \/ Stopped \/ Asked \/ Heard \/ Replied \/ AskedAgain
    PROVE  /\ form'.loading \in BOOLEAN /\ Asking(form'.loading, form'.asked)
           /\ form'.busy \in BOOLEAN /\ Sending(form'.busy, form'.sent, R, mode)
           /\ Quiet
<1>1. /\ form.asked \in Seq(Ids \cup {NoId}) /\ Len(form.asked) \in Nat
      /\ form.sent \in Seq(R) /\ Len(form.sent) \in Nat /\ Len(form.asked) <= MaxAsked
  BY NoneOrSome DEF Fit, Asking, Sending
<1>2. ASSUME NEW o \in Ids \cup {NoId}, form'.asked = Append(form.asked, o),
             Len(form.asked) < MaxAsked, form'.loading \in BOOLEAN
      PROVE  Asking(form'.loading, form'.asked)
  BY <1>1, <1>2, FormBounds, Added DEF Asking
<1>3. ASSUME NEW i \in DOMAIN form.asked, form'.asked = Form!Without(form.asked, i), form'.loading = FALSE
      PROVE  Asking(form'.loading, form'.asked)
  <2>1. /\ Form!Without(form.asked, i) \in Seq(Ids \cup {NoId})
        /\ Len(Form!Without(form.asked, i)) = Len(form.asked) - 1
    BY <1>1, WithoutOne
  <2> QED
    BY <1>1, <1>3, <2>1, FormBounds DEF Asking
<1>4. ASSUME NEW i \in DOMAIN form.sent, form'.sent = Form!Without(form.sent, i), form'.busy = FALSE
      PROVE  Sending(form'.busy, form'.sent, R, mode) /\ Quiet
  <2>1. /\ Form!Without(form.sent, i) \in Seq(R)
        /\ Len(Form!Without(form.sent, i)) = Len(form.sent) - 1
    BY <1>1, WithoutOne
  <2>2. /\ Len(form.sent) <= MaxSent /\ MaxSent \in Nat
        /\ mode # "many" => Len(form.sent) <= 1
    BY FormBounds DEF Fit, Sending
  <2>3. Len(form'.sent) < Len(form.sent) /\ Len(form'.sent) <= MaxSent
    BY <1>1, <1>4, <2>1, <2>2
  <2>4. mode # "many" => Len(form'.sent) <= 1 /\ form'.sent = <<>>
    BY <1>1, <1>4, <2>1, <2>2, NoneOrSome
  <2> QED
    BY <1>4, <2>1, <2>3, <2>4 DEF Sending, Quiet
<1>5. Asking(form.loading, form.asked) /\ Sending(form.busy, form.sent, R, mode)
      /\ form.loading \in BOOLEAN /\ form.busy \in BOOLEAN
  BY DEF Fit
<1>6. CASE Still
  BY <1>5, <1>6 DEF Still, Quiet
<1>11. CASE Stopped
  <2>1. Asking(form'.loading, form'.asked)
    BY <1>5, <1>11 DEF Stopped, Asking
  <2> QED
    BY <1>5, <1>11, <2>1 DEF Stopped, Quiet
<1>7. CASE Asked
  <2>1. Asking(form'.loading, form'.asked)
    BY <1>2, <1>7 DEF Asked
  <2> QED
    BY <1>5, <1>7, <2>1 DEF Asked, Quiet
<1>8. CASE Heard
  <2>1. Asking(form'.loading, form'.asked)
    BY <1>3, <1>8 DEF Heard
  <2> QED
    BY <1>5, <1>8, <2>1 DEF Heard, Quiet
<1>9. CASE Replied
  <2>1. Sending(form'.busy, form'.sent, R, mode) /\ Quiet
    BY <1>4, <1>9 DEF Replied
  <2> QED
    BY <1>5, <1>9, <2>1 DEF Replied
<1>10. CASE AskedAgain
  <2>1. Sending(form'.busy, form'.sent, R, mode) /\ Quiet
    BY <1>4, <1>10 DEF AskedAgain
  <2>2. Asking(form'.loading, form'.asked)
    BY <1>2, <1>10 DEF AskedAgain
  <2> QED
    BY <1>10, <2>1, <2>2 DEF AskedAgain
<1> QED
  BY <1>6, <1>7, <1>8, <1>9, <1>10, <1>11

LEMMA Steps ==
    ASSUME NEW n, NEW F, NEW P, NEW R, NEW mode, Fit(form, n, F, P, R, mode),
           Still \/ Stopped \/ Asked \/ Heard \/ Replied \/ AskedAgain,
           Whole(n), form'.pick \in P, form'.filled \subseteq F, Rows(form'.rules, F)
    PROVE  Fit(form', n, F, P, R, mode) /\ Quiet
<1>1. /\ form'.loading \in BOOLEAN /\ Asking(form'.loading, form'.asked)
      /\ form'.busy \in BOOLEAN /\ Sending(form'.busy, form'.sent, R, mode)
      /\ Quiet
  BY Moves
<1> QED
  BY <1>1 DEF Fit, Whole

\* A form that may be unmounted may be submitted again before all answers have come.
LEMMA Hosts ==
    ASSUME NEW n, NEW F, NEW P, NEW R, Fit(form, n, F, P, R, "many"), Gone \/ Told,
           Whole(n), form'.pick \in P, form'.filled \subseteq F, Rows(form'.rules, F)
    PROVE  Fit(form', n, F, P, R, "many") /\ Quiet
<1>1. /\ form.sent \in Seq(R) /\ Len(form.sent) \in Nat /\ Len(form.sent) <= MaxSent
      /\ Asking(form.loading, form.asked) /\ form.loading \in BOOLEAN /\ MaxSent \in Nat
  BY NoneOrSome, FormBounds DEF Fit, Sending
<1>2. ASSUME NEW i \in DOMAIN form.sent, form'.sent = Form!Without(form.sent, i)
      PROVE  /\ form'.sent \in Seq(R) /\ Len(form'.sent) <= MaxSent
             /\ Len(form'.sent) < Len(form.sent)
             /\ i # Len(form.sent) => form'.sent # <<>>
  <2>1. form'.sent \in Seq(R) /\ Len(form'.sent) = Len(form.sent) - 1
    BY <1>1, <1>2, WithoutOne
  <2>2. i \in 1..Len(form.sent)
    BY <1>1
  <2>3. i # Len(form.sent) => Len(form'.sent) # 0
    BY <1>1, <2>1, <2>2
  <2>4. Len(form'.sent) = 0 <=> form'.sent = <<>>
    BY <2>1, NoneOrSome
  <2> QED
    BY <1>1, <2>1, <2>3, <2>4
<1>3. CASE Gone
  <2>1. Asking(form'.loading, form'.asked)
    BY <1>3, EmptySeq, FormBounds DEF Gone, Asking
  <2>2. form'.sent \in Seq(R) /\ Len(form'.sent) <= MaxSent /\ Quiet
    BY <1>1, <1>2, <1>3 DEF Gone, Quiet
  <2> QED
    BY <1>3, <2>1, <2>2 DEF Gone, Fit, Whole, Sending
<1>4. CASE Told
  <2>1. PICK i \in DOMAIN form.sent :
           form'.sent = Form!Without(form.sent, i) /\ (form'.busy => form.busy /\ i # Len(form.sent))
    BY <1>4 DEF Told
  <2>2. /\ form'.sent \in Seq(R) /\ Len(form'.sent) <= MaxSent
        /\ form'.busy => form'.sent # <<>>
        /\ Quiet
    BY <1>2, <2>1 DEF Quiet
  <2>3. Sending(form'.busy, form'.sent, R, "many")
    BY <2>2 DEF Sending
  <2> QED
    BY <1>1, <1>4, <2>2, <2>3 DEF Told, Fit, Whole
<1> QED
  BY <1>3, <1>4

\* The answer to submission i finds the form f.
LEMMA LateAnswers ==
    ASSUME NEW n, NEW F, NEW P, NEW R, NEW mode, Fit(form, n, F, P, R, mode),
           NEW f, Shaped(f), f.sent = form.sent, f.busy = form.busy \/ f.busy = FALSE,
           NEW i \in DOMAIN form.sent, Form!Answered(f, i)
    PROVE  /\ Shaped(form') /\ form'.sent = Form!Without(form.sent, i)
           /\ form'.busy \in BOOLEAN /\ (form'.busy => form.busy /\ i # Len(form.sent))
           /\ f.busy = FALSE => form'.busy = FALSE
           /\ form'.name = f.name /\ form'.open = f.open
           /\ form'.target = f.target /\ form'.shown = f.shown
           /\ form'.pick = f.pick /\ form'.filled = f.filled /\ form'.rules = f.rules
           /\ form'.asked = f.asked /\ form'.loading = f.loading
<1> DEFINE b == f.busy /\ ~(form.busy /\ i = Len(form.sent))
           t == Form!Without(form.sent, i)
<1>1. b \in BOOLEAN /\ (b => form.busy /\ i # Len(form.sent)) /\ (f.busy = FALSE => b = FALSE)
  BY DEF Fit
<1>2. form' = [f EXCEPT !.busy = b, !.sent = t]
  BY DEF Form!Answered, Form!Own
<1> HIDE DEF b, t
<1>3. /\ Shaped(form') /\ form'.busy = b /\ form'.sent = t
      /\ form'.name = f.name /\ form'.open = f.open
      /\ form'.target = f.target /\ form'.shown = f.shown
      /\ form'.pick = f.pick /\ form'.filled = f.filled /\ form'.rules = f.rules
      /\ form'.asked = f.asked /\ form'.loading = f.loading
  BY <1>2 DEF Shaped
<1> QED
  BY <1>1, <1>3 DEF t

\* What is left of a form that begins as start, at the beginning or after an answer.
LEMMA Unmounts ==
    ASSUME NEW n, NEW F, NEW P, NEW R, NEW mode, Fit(form, n, F, P, R, mode),
           NEW p, NEW start, Fresh(start, n, p), start.asked = <<>>,
           \/ form' = Form!Unmounted(start)
           \/ \E i \in DOMAIN form.sent : Form!Answered(Form!Unmounted(start), i)
    PROVE  /\ Gone /\ Whole(n) /\ form'.pick = p /\ form'.filled = {} /\ form'.rules = <<>>
           /\ form'.target = NoId /\ form'.shown = NoId
<1> DEFINE f == Form!Unmounted(start)
<1>1. /\ Shaped(f) /\ f.sent = form.sent /\ f.busy = FALSE
      /\ f.name = n /\ f.open \in BOOLEAN /\ f.target = NoId /\ f.shown = NoId
      /\ f.pick = p /\ f.filled = {} /\ f.rules = <<>> /\ f.asked = <<>> /\ f.loading = FALSE
  BY DEF Form!Unmounted, Fresh, Shaped
<1> HIDE DEF f
<1>2. CASE form' = f
  BY <1>1, <1>2 DEF Gone, Whole
<1>3. ASSUME NEW i \in DOMAIN form.sent, Form!Answered(f, i)
      PROVE  /\ Gone /\ Whole(n) /\ form'.pick = p /\ form'.filled = {} /\ form'.rules = <<>>
             /\ form'.target = NoId /\ form'.shown = NoId
  <2>1. /\ Shaped(form') /\ form'.sent = Form!Without(form.sent, i) /\ form'.busy = FALSE
        /\ form'.name = f.name /\ form'.open = f.open
        /\ form'.target = f.target /\ form'.shown = f.shown
        /\ form'.pick = f.pick /\ form'.filled = f.filled /\ form'.rules = f.rules
        /\ form'.asked = f.asked /\ form'.loading = f.loading
    BY <1>1, <1>3, LateAnswers
  <2> QED
    BY <1>1, <2>1 DEF Gone, Whole
<1> QED
  BY <1>2, <1>3 DEF f

LEMMA Submissions ==
    ASSUME NEW n, NEW F, NEW P, NEW R, NEW mode, Fit(form, n, F, P, R, mode),
           NEW r \in R, Submits(r),
           \/ mode = "many" /\ form'.busy \in BOOLEAN
           \/ mode = "flag" /\ ~form.busy /\ form'.busy = TRUE,
           Whole(n), form'.pick \in P, form'.filled \subseteq F, Rows(form'.rules, F)
    PROVE  Fit(form', n, F, P, R, mode) /\ Last = r
<1>1. form.sent \in Seq(R) /\ Len(form.sent) < MaxSent /\ Len(form.sent) \in Nat
  BY NoneOrSome DEF Fit, Sending, Submits
<1>2. mode # "many" => Len(form.sent) = 0
  BY <1>1, NoneOrSome DEF Fit, Sending
<1>3. Sending(form'.busy, form'.sent, R, mode)
  BY <1>1, <1>2, FormBounds, Added DEF Sending, Submits
<1>4. Last = r
  BY <1>1, Added DEF Last, Submits
<1>5. Asking(form'.loading, form'.asked) /\ form'.loading \in BOOLEAN /\ form'.busy \in BOOLEAN
  BY DEF Fit, Submits
<1> QED
  BY <1>3, <1>4, <1>5 DEF Fit, Whole

-----------------------------------------------------------------------------
(* The forms of tunnels                                                    *)

SimplePicks ==
    [type : {"server", "client"}, mode : {"auto", "set"}, tls : {"0", "2"}, balance : BOOLEAN]

CreatePicks ==
    [endpoint : {"none", "old", "new"}, type : {"server", "client"}, mode : 0..2,
     tls : {"inherit", "2"}]

BatchPicks ==
    [tab : {"standard", "quick"}, unified : BOOLEAN, json : {"blank", "good", "bad"}]

TunnelPicks(n) ==
    CASE n \in {"simple", "edit"} -> SimplePicks
      [] n = "create" -> CreatePicks
      [] n = "batch" -> BatchPicks
      [] OTHER -> {Form!NoPick}

\* What a form called n may send.
TunnelRequests(n) ==
    {r \in Requests(TunnelForm!Fields) :
        /\ TunnelForm!TunnelRequired(n) \subseteq r.has
        /\ "rows" \in r.has => r.rows # <<>>
        /\ \A k \in DOMAIN r.rows : TunnelForm!TunnelRowRequired(n) \subseteq r.rows[k]}

\* What can be typed, or chosen, in a form or a row.
TunnelFields == TunnelForm!Fields \ {"rows"}

\* The dialog of editing knows no tunnel but the one the page opened it for: it has asked
\* for that or for nothing, and no endpoint is filled in before the answer has come.
EditExtra(f) ==
    /\ f.asked = <<>> \/ f.asked = <<f.target>>
    /\ "endpoint" \in f.filled => f.shown = f.target
    /\ ~f.open => f.asked = <<>> /\ "endpoint" \notin f.filled

\* Extended targets are on the screen, a password belongs to its endpoint, and a dialog of
\* one value shows that of its tunnel.
TunnelExtra(f, n) ==
    /\ n \in {"simple", "edit"} /\ "extend" \in f.filled => f.pick.balance
    /\ n = "create" /\ "password" \in f.filled => f.pick.endpoint = "new"
    /\ n \in {"simple", "create", "batch", "url"} => f.target = NoId /\ f.shown = NoId
    /\ n = "edit" => EditExtra(f)
    /\ n \in TunnelForm!Values => f.target = f.shown /\ f.filled \subseteq {"value"}

TunnelMode(n) == IF n \in {"edit"} \cup TunnelForm!Nested THEN "many" ELSE "flag"

TunnelFit(f, n) ==
    /\ Fit(f, n, TunnelFields, TunnelPicks(n), TunnelRequests(n), TunnelMode(n))
    /\ TunnelExtra(f, n)

\* A step keeps the form typed, and submits what is shown.
TunnelGoes(n) == TunnelFit(form', n) /\ (Quiet \/ TunnelForm!TunnelSubmitsShown(Last))

LEMMA TunnelMoves ==
    ASSUME NEW n, TunnelFit(form, n), Whole(n),
           Still \/ Stopped \/ Asked \/ Heard \/ Replied \/ AskedAgain,
           form'.pick \in TunnelPicks(n), form'.filled \subseteq TunnelFields,
           Rows(form'.rules, TunnelFields), TunnelExtra(form', n)
    PROVE  TunnelGoes(n)
  BY Steps DEF TunnelFit, TunnelGoes

LEMMA TunnelSends ==
    ASSUME NEW n, TunnelFit(form, n), NEW r \in TunnelRequests(n), Submits(r),
           ~form.busy, form'.busy = TRUE, Whole(n),
           form'.pick \in TunnelPicks(n), form'.filled \subseteq TunnelFields,
           Rows(form'.rules, TunnelFields), TunnelExtra(form', n), TunnelForm!TunnelSubmitsShown(r)
    PROVE  TunnelGoes(n)
<1>1. Fit(form', n, TunnelFields, TunnelPicks(n), TunnelRequests(n), TunnelMode(n)) /\ Last = r
  <2>1. TunnelMode(n) = "many" \/ TunnelMode(n) = "flag"
    BY DEF TunnelMode
  <2> QED
    BY <2>1, Submissions DEF TunnelFit
<1> QED
  BY <1>1 DEF TunnelFit, TunnelGoes

LEMMA TunnelHosts ==
    ASSUME NEW n, TunnelFit(form, n), n \in {"edit"} \cup TunnelForm!Nested, Gone \/ Told, Whole(n),
           form'.pick \in TunnelPicks(n), form'.filled \subseteq TunnelFields,
           Rows(form'.rules, TunnelFields), TunnelExtra(form', n)
    PROVE  TunnelGoes(n)
<1>1. TunnelMode(n) = "many"
  BY DEF TunnelMode
<1> QED
  BY <1>1, Hosts DEF TunnelFit, TunnelGoes

LEMMA EditStarts ==
    /\ Fresh(TunnelForm!SimpleStart("edit"), "edit",
             [type |-> "server", mode |-> "auto", tls |-> "0", balance |-> FALSE])
    /\ TunnelForm!SimpleStart("edit").asked = <<>>
  BY DEF TunnelForm!SimpleStart, TunnelForm!FormOf, Fresh, Shaped

LEMMA EditUnmounts ==
    ASSUME TunnelFit(form, "edit"),
           LET start == TunnelForm!SimpleStart("edit")
           IN  \/ form' = Form!Unmounted(start)
               \/ \E i \in DOMAIN form.sent : Form!Answered(Form!Unmounted(start), i)
    PROVE  TunnelGoes("edit")
<1> DEFINE p == [type |-> "server", mode |-> "auto", tls |-> "0", balance |-> FALSE]
<1>1. p \in TunnelPicks("edit")
  BY DEF TunnelPicks, SimplePicks
<1>2. /\ Fresh(TunnelForm!SimpleStart("edit"), "edit", p)
      /\ TunnelForm!SimpleStart("edit").asked = <<>>
  BY EditStarts
<1> HIDE DEF p
<1>3. /\ Gone /\ Whole("edit") /\ form'.pick = p /\ form'.filled = {} /\ form'.rules = <<>>
      /\ form'.target = NoId /\ form'.shown = NoId
  BY <1>2, Unmounts DEF TunnelFit
<1>4. TunnelExtra(form', "edit") /\ Rows(form'.rules, TunnelFields)
  BY <1>3, NoRows DEF Gone, TunnelExtra, EditExtra, TunnelForm!Values, TunnelForm!Nested
<1> QED
  BY <1>1, <1>3, <1>4, TunnelHosts

LEMMA TunnelTyped ==
    ASSUME NEW n, TunnelFit(form, n), NEW fields \in SUBSET TunnelFields, TunnelForm!Types(fields)
    PROVE  /\ Whole(n) /\ Still /\ Filled /\ form'.open = form.open
           /\ form'.filled \subseteq form.filled \cup fields /\ form'.filled \subseteq TunnelFields
<1>1. PICK h \in SUBSET (form.filled \cup fields) : form' = [form EXCEPT !.filled = h]
  BY DEF TunnelForm!Types, TunnelForm!Typings
<1> QED
  BY <1>1 DEF TunnelFit, Fit, Shaped, Whole, Still, Filled

LEMMA TunnelRequest ==
    ASSUME NEW n, NEW o \in Ids \cup {NoId}, NEW h \in SUBSET TunnelFields,
           TunnelForm!TunnelRequired(n) \subseteq h
    PROVE  TunnelForm!Request(o, h) \in TunnelRequests(n)
  BY EmptySeq DEF TunnelForm!Request, TunnelRequests, Requests, TunnelFields

LEMMA TunnelRequestOf ==
    ASSUME NEW n \in {"batch", "url"}, NEW rows \in Seq(SUBSET TunnelForm!Fields), rows # <<>>,
           \A k \in DOMAIN rows : TunnelForm!TunnelRowRequired(n) \subseteq rows[k]
    PROVE  TunnelForm!RequestOf(rows) \in TunnelRequests(n)
  BY DEF TunnelForm!RequestOf, TunnelRequests, Requests, TunnelForm!TunnelRequired,
         TunnelForm!Fields, TunnelForm!Values, TunnelForm!Nested

\* Whatever is done in a form, it stays typed and shows what it submits.
LEMMA TunnelFormsStep ==
    ASSUME NEW n \in TunnelForm!TunnelFormNames, TunnelFit(form, n), TunnelForm!TunnelFormsNext
    PROVE  TunnelGoes(n)
<1>n. /\ form.name = n /\ form.pick \in TunnelPicks(n) /\ form.filled \subseteq TunnelFields
      /\ form.target \in Ids \cup {NoId} /\ form.shown \in Ids \cup {NoId}
      /\ form.open \in BOOLEAN /\ Rows(form.rules, TunnelFields) /\ Shaped(form) /\ TunnelExtra(form, n)
      /\ \A i \in DOMAIN form.asked : form.asked[i] \in Ids \cup {NoId}
      /\ TunnelForm!Values = {"rename", "retitle", "sort"}
  BY DEF TunnelFit, Fit, Asking, TunnelForm!Values, TunnelForm!Nested
<1> USE <1>n
<1>1. CASE TunnelForm!SimpleOpens
  <2>1. ASSUME n \in {"simple", "edit"}, ~form.open, NEW o \in Ids \cup {NoId},
               NEW t \in Ids \cup {NoId}, n = "simple" => t = form.target, n = "edit" => t = o,
               TunnelForm!Asks([form EXCEPT !.open = TRUE, !.target = t], o)
        PROVE  TunnelGoes(n)
    <3>1. TunnelPicks(n) = SimplePicks /\ form.pick \in SimplePicks
      BY <2>1 DEF TunnelPicks
    <3>2. /\ Whole(n) /\ Asked /\ form'.target = t /\ form'.shown = form.shown
          /\ form'.open = TRUE /\ form'.pick = form.pick /\ form'.filled = form.filled
          /\ form'.rules = form.rules /\ form'.asked = Append(form.asked, o)
      BY <2>1 DEF TunnelForm!Asks, Whole, Asked, Shaped
    <3>3. n = "edit" => form.asked = <<>> /\ "endpoint" \notin form.filled
      BY <2>1 DEF TunnelExtra, EditExtra
    <3>4. n = "edit" => form'.asked = <<form'.target>>
      <4>1. Append(<<>>, o) = <<o>>
        OBVIOUS
      <4> QED
        BY <2>1, <3>2, <3>3, <4>1, Zenon
    <3>5. TunnelExtra(form', n)
      BY <2>1, <3>2, <3>3, <3>4 DEF TunnelExtra, EditExtra
    <3> QED
      BY <3>1, <3>2, <3>5, TunnelMoves
  <2>2. CASE n = "simple" /\ TunnelForm!Asks([form EXCEPT !.open = TRUE], NoId)
    <3>1. [form EXCEPT !.open = TRUE] = [form EXCEPT !.open = TRUE, !.target = form.target]
      BY DEF Shaped
    <3> QED
      BY <1>1, <2>1, <2>2, <3>1 DEF TunnelForm!SimpleOpens
  <2>3. ASSUME n = "edit", NEW i \in Ids, TunnelForm!Asks([form EXCEPT !.open = TRUE, !.target = i], i)
        PROVE  TunnelGoes(n)
    BY <1>1, <2>1, <2>3 DEF TunnelForm!SimpleOpens
  <2> QED
    BY <1>1, <2>2, <2>3 DEF TunnelForm!SimpleOpens, TunnelForm!Named
<1>2. CASE TunnelForm!PicksType
  <2>1. n = "simple" /\ TunnelPicks(n) = SimplePicks /\ form.pick \in SimplePicks
    BY <1>2 DEF TunnelForm!PicksType, TunnelForm!OpenAs, TunnelForm!Ready, TunnelPicks
  <2>2. PICK t \in {"server", "client"} :
           form' = [form EXCEPT !.pick.type = t,
                                !.pick.mode = IF t = "server" THEN "auto" ELSE "set"]
    BY <1>2 DEF TunnelForm!PicksType
  <2>3. /\ Whole(n) /\ Still /\ form'.target = form.target /\ form'.shown = form.shown
        /\ form'.filled = form.filled /\ form'.rules = form.rules
    BY <2>1, <2>2 DEF Whole, Still, Shaped
  <2>4. /\ form'.rules = form.rules
        /\ form'.pick = [form.pick EXCEPT !.type = t, !.mode = IF t = "server" THEN "auto" ELSE "set"]
    BY <2>1, <2>2 DEF Shaped
  <2>5. form'.pick \in SimplePicks
    BY <2>1, <2>4 DEF SimplePicks
  <2>6. TunnelExtra(form', n)
    BY <2>1, <2>3, <2>5, <2>4 DEF Whole, TunnelExtra, EditExtra, SimplePicks
  <2> QED
    BY <2>1, <2>3, <2>5, <2>6, TunnelMoves
<1>3. CASE TunnelForm!PicksMode
  <2>1. n \in {"simple", "edit"} /\ TunnelPicks(n) = SimplePicks /\ form.pick \in SimplePicks
    BY <1>3 DEF TunnelForm!PicksMode, TunnelForm!Ready, TunnelPicks
  <2>2. Whole(n) /\ Still
    BY <1>3, <2>1 DEF TunnelForm!PicksMode, Whole, Still, Shaped
  <2>3. /\ form'.pick \in SimplePicks /\ form'.filled \subseteq TunnelFields
        /\ Rows(form'.rules, TunnelFields)
    BY <1>3, <2>1
       DEF TunnelForm!PicksMode, Shaped, SimplePicks, TunnelFields, TunnelForm!Fields
  <2>4. TunnelExtra(form', n)
    BY <1>3, <2>1 DEF TunnelForm!PicksMode, Shaped, TunnelExtra, EditExtra, SimplePicks
  <2> QED
    BY <2>1, <2>2, <2>3, <2>4, TunnelMoves
<1>4. CASE TunnelForm!PicksTls
  <2>1. n \in {"simple", "edit"} /\ TunnelPicks(n) = SimplePicks /\ form.pick \in SimplePicks
    BY <1>4 DEF TunnelForm!PicksTls, TunnelForm!Ready, TunnelPicks
  <2>2. Whole(n) /\ Still
    BY <1>4, <2>1 DEF TunnelForm!PicksTls, Whole, Still, Shaped
  <2>3. /\ form'.pick \in SimplePicks /\ form'.filled \subseteq TunnelFields
        /\ Rows(form'.rules, TunnelFields)
    BY <1>4, <2>1
       DEF TunnelForm!PicksTls, Shaped, SimplePicks, TunnelFields, TunnelForm!Fields
  <2>4. TunnelExtra(form', n)
    BY <1>4, <2>1 DEF TunnelForm!PicksTls, Shaped, TunnelExtra, EditExtra, SimplePicks
  <2> QED
    BY <2>1, <2>2, <2>3, <2>4, TunnelMoves
<1>5. CASE TunnelForm!TogglesBalance
  <2>1. n \in {"simple", "edit"} /\ TunnelPicks(n) = SimplePicks /\ form.pick \in SimplePicks
    BY <1>5 DEF TunnelForm!TogglesBalance, TunnelForm!Ready, TunnelPicks
  <2>2. Whole(n) /\ Still
    BY <1>5, <2>1 DEF TunnelForm!TogglesBalance, Whole, Still, Shaped
  <2>3. /\ form'.pick \in SimplePicks /\ form'.filled \subseteq TunnelFields
        /\ Rows(form'.rules, TunnelFields)
    BY <1>5, <2>1
       DEF TunnelForm!TogglesBalance, Shaped, SimplePicks, TunnelFields, TunnelForm!Fields
  <2>4. TunnelExtra(form', n)
    BY <1>5, <2>1 DEF TunnelForm!TogglesBalance, Shaped, TunnelExtra, EditExtra, SimplePicks
  <2> QED
    BY <2>1, <2>2, <2>3, <2>4, TunnelMoves
<1>6. CASE TunnelForm!SimpleTypes
  <2>1. n \in {"simple", "edit"} /\ TunnelPicks(n) = SimplePicks /\ form.pick \in SimplePicks
    BY <1>6 DEF TunnelForm!SimpleTypes, TunnelForm!Named, TunnelForm!Ready, TunnelPicks
  <2>2. TunnelForm!SimpleTyped \in SUBSET TunnelFields
    BY DEF TunnelForm!SimpleTyped, TunnelForm!SimpleMain, TunnelForm!SimpleCertificate,
       TunnelForm!SimpleExtend, TunnelFields, TunnelForm!Fields
  <2>3. /\ Whole(n) /\ Still /\ Filled /\ form'.open = form.open
        /\ form'.filled \subseteq form.filled \cup TunnelForm!SimpleTyped
        /\ form'.filled \subseteq TunnelFields
    BY <1>6, <2>2, TunnelTyped DEF TunnelForm!SimpleTypes
  <2>4. TunnelExtra(form', n)
    BY <2>1, <2>3
       DEF Filled, TunnelExtra, EditExtra, SimplePicks, TunnelForm!SimpleTyped, TunnelForm!SimpleMain,
           TunnelForm!SimpleCertificate, TunnelForm!SimpleExtend, TunnelForm!Named, Still
  <2> QED
    BY <2>1, <2>3, <2>4, TunnelMoves DEF Filled
<1>7. ASSUME NEW i \in DOMAIN form.asked, TunnelForm!SimpleLoaded(i)
      PROVE  TunnelGoes(n)
  <2>1. n \in {"simple", "edit"} /\ TunnelPicks(n) = SimplePicks /\ form.pick \in SimplePicks
    BY <1>7 DEF TunnelForm!SimpleLoaded, TunnelForm!Named, TunnelPicks
  <2>2. ASSUME n = "edit"
        PROVE  form.open /\ form.asked[i] = form.target /\ Form!Without(form.asked, i) = <<>>
    <3>1. form.open /\ form.asked = <<form.target>>
      BY <2>2, SomeSent DEF TunnelExtra, EditExtra
    <3>2. form.asked \in Seq(Ids \cup {NoId}) /\ Len(form.asked) = 1 /\ i = 1
      BY <3>1
    <3>3. /\ Form!Without(form.asked, i) \in Seq(Ids \cup {NoId})
          /\ Len(Form!Without(form.asked, i)) = 0
      BY <3>2, WithoutOne
    <3> QED
      BY <3>1, <3>2, <3>3, NoneOrSome
  <2>3. CASE TunnelForm!Loaded(form, i)
    <3>1. /\ Whole(n) /\ Heard /\ Filled /\ form'.filled = form.filled /\ form'.open = form.open
          /\ form'.asked = Form!Without(form.asked, i)
      BY <2>1, <2>3
         DEF TunnelForm!Loaded, TunnelForm!Without, Form!Without, Whole, Heard, Filled, Shaped
    <3>2. TunnelExtra(form', n)
      BY <2>1, <2>2, <3>1 DEF Filled, TunnelExtra, EditExtra
    <3> QED
      BY <2>1, <3>1, <3>2, TunnelMoves DEF Filled
  <2>4. CASE n = "simple" /\ TunnelForm!Loaded(TunnelForm!EndpointChosen, i)
    <3>1. Whole(n) /\ Heard /\ Filled /\ form'.filled = form.filled \cup {"endpoint"}
      BY <2>1, <2>4
         DEF TunnelForm!Loaded, TunnelForm!EndpointChosen, TunnelForm!Without, Form!Without,
             Whole, Heard, Filled, Shaped
    <3>2. form'.filled \subseteq TunnelFields
      BY <3>1 DEF TunnelFields, TunnelForm!Fields
    <3>3. TunnelExtra(form', n)
      BY <2>4, <3>1 DEF Filled, TunnelExtra
    <3> QED
      BY <2>1, <3>1, <3>2, <3>3, TunnelMoves DEF Filled
  <2>5. ASSUME n = "edit", NEW x \in {{}, {"extend"}, {"crt"}}, NEW t \in {"server", "client"},
               TunnelForm!Loaded(TunnelForm!DetailsShown(form.asked[i], x, t), i)
        PROVE  TunnelGoes(n)
    <3>1. /\ Whole(n) /\ Heard /\ form'.rules = form.rules
          /\ form'.open = form.open /\ form'.target = form.target /\ form'.shown = form.asked[i]
          /\ form'.asked = Form!Without(form.asked, i)
          /\ form'.filled = {"endpoint", "name", "listen", "target"} \cup x
          /\ form'.pick = [type |-> t, mode |-> "set", tls |-> "2",
                           balance |-> form.pick.balance \/ "extend" \in x]
      BY <2>1, <2>5
         DEF TunnelForm!Loaded, TunnelForm!DetailsShown, TunnelForm!Without, Form!Without,
             Whole, Heard, Shaped
    <3>2. form'.pick \in SimplePicks /\ form'.filled \subseteq TunnelFields
      BY <2>1, <3>1 DEF SimplePicks, TunnelFields, TunnelForm!Fields
    <3>3. TunnelExtra(form', n)
      BY <2>2, <2>5, <3>1 DEF TunnelExtra, EditExtra
    <3> QED
      BY <2>1, <3>1, <3>2, <3>3, TunnelMoves
  <2> QED
    BY <1>7, <2>3, <2>4, <2>5 DEF TunnelForm!SimpleLoaded, TunnelForm!Named
<1>8. CASE TunnelForm!SimpleSubmits
  <2>1. n \in {"simple", "edit"} /\ TunnelPicks(n) = SimplePicks /\ form.pick \in SimplePicks
    BY <1>8 DEF TunnelForm!SimpleSubmits, TunnelPicks
  <2>2. TunnelForm!SimpleBody \in SUBSET TunnelFields /\ TunnelForm!TunnelRequired(n) \subseteq TunnelForm!SimpleBody
    BY <1>8, <2>1
       DEF TunnelForm!SimpleSubmits, TunnelForm!SimpleBody, TunnelForm!SimpleValid,
           TunnelForm!SimpleCertificate, TunnelForm!TunnelRequired, TunnelFields,
           TunnelForm!Fields
  <2>3. TunnelForm!Request(form.shown, TunnelForm!SimpleBody) \in TunnelRequests(n)
    BY <2>2, TunnelRequest
  <2>4. /\ Submits(TunnelForm!Request(form.shown, TunnelForm!SimpleBody)) /\ ~form.busy /\ form'.busy = TRUE
        /\ Whole(n) /\ Filled /\ form'.filled = form.filled /\ form'.open = form.open
    BY <1>8, <2>1
       DEF TunnelForm!SimpleSubmits, TunnelForm!Sends, Submits, Whole, Filled, Shaped
  <2>5. form.shown = form.target
    BY <1>8, <2>1
       DEF TunnelForm!SimpleSubmits, TunnelForm!SimpleValid, TunnelExtra, EditExtra
  <2>6. TunnelForm!TunnelSubmitsShown(TunnelForm!Request(form.shown, TunnelForm!SimpleBody))
    BY <1>8, <2>1, <2>4, <2>5
       DEF TunnelForm!SimpleSubmits, TunnelForm!SimpleBody, TunnelForm!SimpleCertificate,
           TunnelForm!Request, TunnelForm!TunnelSubmitsShown, TunnelExtra, TunnelForm!Named
  <2>7. TunnelExtra(form', n)
    BY <2>4 DEF Filled, Submits, TunnelExtra, EditExtra
  <2> QED
    BY <2>1, <2>3, <2>4, <2>6, <2>7, TunnelSends DEF Filled
<1>9. ASSUME NEW i \in DOMAIN form.sent, TunnelForm!SimpleSettled(i)
      PROVE  TunnelGoes(n)
  <2>1. n = "simple" /\ TunnelPicks(n) = SimplePicks /\ form.pick \in SimplePicks
    BY <1>9 DEF TunnelForm!SimpleSettled, TunnelForm!Named, TunnelPicks
  <2>2. Whole(n) /\ Replied /\ Filled /\ form'.filled = form.filled
    BY <1>9, <2>1
       DEF TunnelForm!SimpleSettled, TunnelForm!Settled, TunnelForm!Without, Whole, Replied,
           Filled, Shaped, Form!Without
  <2>3. TunnelExtra(form', n)
    BY <2>1, <2>2 DEF Filled, TunnelExtra
  <2> QED
    BY <2>1, <2>2, <2>3, TunnelMoves DEF Filled
<1>10. ASSUME NEW i \in DOMAIN form.asked, TunnelForm!CreateLoaded(i)
      PROVE  TunnelGoes(n)
  <2>1. n = "create" /\ TunnelPicks(n) = CreatePicks /\ form.pick \in CreatePicks
    BY <1>10 DEF TunnelForm!CreateLoaded, TunnelForm!Named, TunnelPicks
  <2>2. Whole(n) /\ Heard
    BY <1>10, <2>1
       DEF TunnelForm!CreateLoaded, TunnelForm!Named, TunnelForm!Loaded, TunnelForm!Without,
           Whole, Heard, Shaped, Form!Without
  <2>3. /\ form'.pick \in CreatePicks /\ form'.filled \subseteq TunnelFields
        /\ Rows(form'.rules, TunnelFields)
    BY <1>10, <2>1
       DEF TunnelForm!CreateLoaded, TunnelForm!Named, TunnelForm!Loaded, TunnelForm!Without,
           Shaped, CreatePicks, TunnelFields, TunnelForm!Fields
  <2>4. TunnelExtra(form', n)
    BY <1>10, <2>1
       DEF TunnelForm!CreateLoaded, TunnelForm!Named, TunnelForm!Loaded, TunnelForm!Without,
           Shaped, TunnelExtra, CreatePicks
  <2> QED
    BY <2>1, <2>2, <2>3, <2>4, TunnelMoves
<1>11. CASE TunnelForm!CreatePicksEndpoint
  <2>1. n = "create" /\ TunnelPicks(n) = CreatePicks /\ form.pick \in CreatePicks
    BY <1>11 DEF TunnelForm!CreatePicksEndpoint, TunnelForm!Named, TunnelPicks
  <2>2. Whole(n) /\ Still
    BY <1>11, <2>1
       DEF TunnelForm!CreatePicksEndpoint, TunnelForm!Named, Whole, Still, Shaped
  <2>3. /\ form'.pick \in CreatePicks /\ form'.filled \subseteq TunnelFields
        /\ Rows(form'.rules, TunnelFields)
    BY <1>11, <2>1
       DEF TunnelForm!CreatePicksEndpoint, TunnelForm!Named, Shaped, CreatePicks,
           TunnelFields, TunnelForm!Fields
  <2>4. TunnelExtra(form', n)
    BY <1>11, <2>1
       DEF TunnelForm!CreatePicksEndpoint, TunnelForm!Named, Shaped, TunnelExtra, CreatePicks
  <2> QED
    BY <2>1, <2>2, <2>3, <2>4, TunnelMoves
<1>12. CASE TunnelForm!CreatePicksType
  <2>1. n = "create" /\ TunnelPicks(n) = CreatePicks /\ form.pick \in CreatePicks
    BY <1>12 DEF TunnelForm!CreatePicksType, TunnelForm!Named, TunnelPicks
  <2>2. PICK t \in {"server", "client"}, m \in {0, 1} :
           form' = [form EXCEPT !.pick.type = t, !.pick.mode = m, !.filled = @ \ {"min", "max"}]
    BY <1>12 DEF TunnelForm!CreatePicksType
  <2>3. /\ Whole(n) /\ Still /\ form'.target = form.target /\ form'.shown = form.shown
        /\ form'.filled = form.filled \ {"min", "max"} /\ form'.rules = form.rules
    BY <2>1, <2>2 DEF Whole, Still, Shaped
  <2>4. /\ form'.rules = form.rules
        /\ form'.pick = [form.pick EXCEPT !.type = t, !.mode = m]
    BY <2>1, <2>2 DEF Shaped
  <2>5. form'.pick \in CreatePicks /\ form'.pick.endpoint = form.pick.endpoint
    <3> DEFINE p == [form.pick EXCEPT !.type = t]
    <3>1. p \in CreatePicks /\ p.endpoint = form.pick.endpoint
      BY <2>1 DEF CreatePicks
    <3>2. form'.pick = [p EXCEPT !.mode = m]
      BY <2>4
    <3> HIDE DEF p
    <3>3. form'.pick \in CreatePicks
      BY <3>1, <3>2 DEF CreatePicks
    <3>4. form'.pick.endpoint = p.endpoint
      BY <3>1, <3>2 DEF CreatePicks
    <3> QED
      BY <3>1, <3>3, <3>4
  <2>6. TunnelExtra(form', n)
    BY <2>1, <2>3, <2>5 DEF Whole, TunnelExtra
  <2> QED
    BY <2>1, <2>3, <2>5, <2>6, TunnelMoves
<1>13. CASE TunnelForm!CreatePicksMode
  <2>1. n = "create" /\ TunnelPicks(n) = CreatePicks /\ form.pick \in CreatePicks
    BY <1>13 DEF TunnelForm!CreatePicksMode, TunnelForm!Named, TunnelPicks
  <2>2. Whole(n) /\ Still
    BY <1>13, <2>1
       DEF TunnelForm!CreatePicksMode, TunnelForm!Named, Whole, Still, Shaped
  <2>3. /\ form'.pick \in CreatePicks /\ form'.filled \subseteq TunnelFields
        /\ Rows(form'.rules, TunnelFields)
    BY <1>13, <2>1
       DEF TunnelForm!CreatePicksMode, TunnelForm!Named, Shaped, CreatePicks, TunnelFields,
           TunnelForm!Fields
  <2>4. TunnelExtra(form', n)
    BY <1>13, <2>1
       DEF TunnelForm!CreatePicksMode, TunnelForm!Named, Shaped, TunnelExtra, CreatePicks
  <2> QED
    BY <2>1, <2>2, <2>3, <2>4, TunnelMoves
<1>14. CASE TunnelForm!CreatePicksTls
  <2>1. n = "create" /\ TunnelPicks(n) = CreatePicks /\ form.pick \in CreatePicks
    BY <1>14 DEF TunnelForm!CreatePicksTls, TunnelForm!Named, TunnelPicks
  <2>2. Whole(n) /\ Still
    BY <1>14, <2>1 DEF TunnelForm!CreatePicksTls, TunnelForm!Named, Whole, Still, Shaped
  <2>3. /\ form'.pick \in CreatePicks /\ form'.filled \subseteq TunnelFields
        /\ Rows(form'.rules, TunnelFields)
    BY <1>14, <2>1
       DEF TunnelForm!CreatePicksTls, TunnelForm!Named, Shaped, CreatePicks, TunnelFields,
           TunnelForm!Fields
  <2>4. TunnelExtra(form', n)
    BY <1>14, <2>1
       DEF TunnelForm!CreatePicksTls, TunnelForm!Named, Shaped, TunnelExtra, CreatePicks
  <2> QED
    BY <2>1, <2>2, <2>3, <2>4, TunnelMoves
<1>15. CASE TunnelForm!CreateTypes
  <2>1. n = "create" /\ TunnelPicks(n) = CreatePicks /\ form.pick \in CreatePicks
    BY <1>15 DEF TunnelForm!CreateTypes, TunnelForm!Named, TunnelPicks
  <2>2. (TunnelForm!CreateMain \cup TunnelForm!CreateSecurity \cup TunnelForm!CreatePool) \in SUBSET TunnelFields
    BY DEF TunnelForm!CreateMain, TunnelForm!CreateSecurity, TunnelForm!CreatePool,
       TunnelFields, TunnelForm!Fields
  <2>3. /\ Whole(n) /\ Still /\ Filled
        /\ form'.filled \subseteq form.filled \cup (TunnelForm!CreateMain \cup TunnelForm!CreateSecurity \cup TunnelForm!CreatePool)
        /\ form'.filled \subseteq TunnelFields
    BY <1>15, <2>2, TunnelTyped DEF TunnelForm!CreateTypes
  <2>4. TunnelExtra(form', n)
    BY <2>1, <2>3
       DEF Filled, TunnelExtra, CreatePicks, TunnelForm!CreateMain, TunnelForm!CreateSecurity,
           TunnelForm!CreatePool
  <2> QED
    BY <2>1, <2>3, <2>4, TunnelMoves DEF Filled
<1>16. CASE TunnelForm!CreateSubmits
  <2>1. n = "create" /\ TunnelPicks(n) = CreatePicks /\ form.pick \in CreatePicks
    BY <1>16 DEF TunnelForm!CreateSubmits, TunnelForm!Named, TunnelPicks
  <2>2. TunnelForm!CreateBody \in SUBSET TunnelFields /\ TunnelForm!TunnelRequired(n) \subseteq TunnelForm!CreateBody
    BY <1>16, <2>1
       DEF TunnelForm!CreateSubmits, TunnelForm!CreateBody, TunnelForm!CreateValid,
           TunnelForm!TunnelRequired, TunnelFields, TunnelForm!Fields
  <2>3. TunnelForm!Request(NoId, TunnelForm!CreateBody) \in TunnelRequests(n)
    BY <2>2, TunnelRequest
  <2>4. /\ Submits(TunnelForm!Request(NoId, TunnelForm!CreateBody)) /\ ~form.busy /\ form'.busy = TRUE
        /\ Whole(n) /\ Filled /\ form'.filled = form.filled
    BY <1>16, <2>1
       DEF TunnelForm!CreateSubmits, TunnelForm!Sends, Submits, Whole, Filled, Shaped
  <2>5. TunnelForm!TunnelSubmitsShown(TunnelForm!Request(NoId, TunnelForm!CreateBody))
    BY <1>16, <2>1, <2>4
       DEF TunnelForm!CreateSubmits, TunnelForm!CreateBody, TunnelForm!CreateValid,
           TunnelForm!Request, TunnelForm!TunnelSubmitsShown, TunnelExtra, TunnelForm!Named,
           TunnelForm!CreateConfirmed, TunnelForm!CreatePreview
  <2>6. TunnelExtra(form', n)
    BY <2>1, <2>4 DEF Filled, TunnelExtra
  <2> QED
    BY <2>1, <2>3, <2>4, <2>5, <2>6, TunnelSends DEF Filled
<1>17. ASSUME NEW i \in DOMAIN form.sent, TunnelForm!CreateSettled(i)
      PROVE  TunnelGoes(n)
  <2>1. n = "create" /\ TunnelPicks(n) = CreatePicks /\ form.pick \in CreatePicks
    BY <1>17 DEF TunnelForm!CreateSettled, TunnelForm!Named, TunnelPicks
  <2>2. Whole(n) /\ Replied
    BY <1>17, <2>1
       DEF TunnelForm!CreateSettled, TunnelForm!Named, TunnelForm!Settled, TunnelForm!Without,
           Whole, Replied, Shaped, Form!Without
  <2>3. /\ form'.pick \in CreatePicks /\ form'.filled \subseteq TunnelFields
        /\ Rows(form'.rules, TunnelFields)
    BY <1>17, <2>1
       DEF TunnelForm!CreateSettled, TunnelForm!Named, TunnelForm!Settled, TunnelForm!Without,
           Shaped, CreatePicks, TunnelFields, TunnelForm!Fields
  <2>4. TunnelExtra(form', n)
    BY <1>17, <2>1
       DEF TunnelForm!CreateSettled, TunnelForm!Named, TunnelForm!Settled, TunnelForm!Without,
           Shaped, TunnelExtra, CreatePicks
  <2> QED
    BY <2>1, <2>2, <2>3, <2>4, TunnelMoves
<1>18. CASE TunnelForm!BatchOpens
  <2>1. n = "batch" /\ TunnelPicks(n) = BatchPicks /\ form.pick \in BatchPicks
    BY <1>18 DEF TunnelForm!BatchOpens, TunnelForm!Named, TunnelPicks
  <2>2. Whole(n) /\ Still
    BY <1>18, <2>1
       DEF TunnelForm!BatchOpens, TunnelForm!Named, TunnelForm!BatchBlank, Whole, Still,
           Shaped
  <2>3. form'.pick \in BatchPicks /\ form'.filled \subseteq TunnelFields
    BY <1>18, <2>1
       DEF TunnelForm!BatchOpens, TunnelForm!Named, TunnelForm!BatchBlank, Shaped, BatchPicks,
           TunnelFields, TunnelForm!Fields
  <2>3r. Rows(form'.rules, TunnelFields)
    BY <1>18, NoRows DEF TunnelForm!BatchOpens, TunnelForm!BatchBlank, Shaped
  <2>4. TunnelExtra(form', n)
    BY <1>18, <2>1
       DEF TunnelForm!BatchOpens, TunnelForm!Named, TunnelForm!BatchBlank, Shaped,
           TunnelExtra, BatchPicks
  <2> QED
    BY <2>1, <2>2, <2>3, <2>3r, <2>4, TunnelMoves
<1>19. CASE TunnelForm!BatchTabs
  <2>1. n = "batch" /\ TunnelPicks(n) = BatchPicks /\ form.pick \in BatchPicks
    BY <1>19 DEF TunnelForm!BatchTabs, TunnelForm!OpenAs, TunnelPicks
  <2>2. Whole(n) /\ Still
    BY <1>19, <2>1 DEF TunnelForm!BatchTabs, Whole, Still, Shaped
  <2>3. /\ form'.pick \in BatchPicks /\ form'.filled \subseteq TunnelFields
        /\ Rows(form'.rules, TunnelFields)
    BY <1>19, <2>1
       DEF TunnelForm!BatchTabs, Shaped, BatchPicks, TunnelFields, TunnelForm!Fields
  <2>4. TunnelExtra(form', n)
    BY <1>19, <2>1 DEF TunnelForm!BatchTabs, Shaped, TunnelExtra, BatchPicks
  <2> QED
    BY <2>1, <2>2, <2>3, <2>4, TunnelMoves
<1>20. CASE TunnelForm!BatchPicks
  <2>1. n = "batch" /\ TunnelPicks(n) = BatchPicks /\ form.pick \in BatchPicks
    BY <1>20 DEF TunnelForm!BatchPicks, TunnelForm!OpenAs, TunnelPicks
  <2>2. Whole(n) /\ Still
    BY <1>20, <2>1 DEF TunnelForm!BatchPicks, Whole, Still, Shaped
  <2>3. /\ form'.pick \in BatchPicks /\ form'.filled \subseteq TunnelFields
        /\ Rows(form'.rules, TunnelFields)
    BY <1>20, <2>1
       DEF TunnelForm!BatchPicks, Shaped, BatchPicks, TunnelFields, TunnelForm!Fields
  <2>4. TunnelExtra(form', n)
    BY <1>20, <2>1 DEF TunnelForm!BatchPicks, Shaped, TunnelExtra, BatchPicks
  <2> QED
    BY <2>1, <2>2, <2>3, <2>4, TunnelMoves
<1>21. CASE TunnelForm!BatchUnifies
  <2>1. n = "batch" /\ TunnelPicks(n) = BatchPicks /\ form.pick \in BatchPicks
    BY <1>21 DEF TunnelForm!BatchUnifies, TunnelForm!OpenAs, TunnelPicks
  <2>2. Whole(n) /\ Still
    BY <1>21, <2>1 DEF TunnelForm!BatchUnifies, Whole, Still, Shaped
  <2>3. /\ form'.pick \in BatchPicks /\ form'.filled \subseteq TunnelFields
        /\ Rows(form'.rules, TunnelFields)
    BY <1>21, <2>1
       DEF TunnelForm!BatchUnifies, Shaped, BatchPicks, TunnelFields, TunnelForm!Fields
  <2>4. TunnelExtra(form', n)
    BY <1>21, <2>1 DEF TunnelForm!BatchUnifies, Shaped, TunnelExtra, BatchPicks
  <2> QED
    BY <2>1, <2>2, <2>3, <2>4, TunnelMoves
<1>22. CASE TunnelForm!BatchAddsRule
  <2>1. n = "batch" /\ TunnelPicks(n) = BatchPicks /\ form.pick \in BatchPicks
    BY <1>22 DEF TunnelForm!BatchAddsRule, TunnelForm!OpenAs, TunnelPicks
  <2>2. form' = [form EXCEPT !.rules = Append(@, {})] /\ Len(form.rules) < MaxRules
    BY <1>22 DEF TunnelForm!BatchAddsRule
  <2>3. /\ Whole(n) /\ Still /\ form'.target = form.target /\ form'.shown = form.shown
        /\ form'.filled = form.filled /\ form'.pick = form.pick /\ form'.rules = Append(form.rules, {})
    BY <2>1, <2>2 DEF Whole, Still, Shaped
  <2>4. Len(form.rules) < MaxRules /\ {} \in SUBSET TunnelFields
    BY <1>22 DEF TunnelForm!BatchAddsRule
  <2>5. Rows(form'.rules, TunnelFields)
    BY <2>3, AddedFits, <2>4
  <2>6. TunnelExtra(form', n)
    BY <2>1, <2>3 DEF Whole, TunnelExtra
  <2> QED
    BY <2>1, <2>3, <2>5, <2>6, TunnelMoves
<1>23. CASE TunnelForm!BatchJson
  <2>1. n = "batch" /\ TunnelPicks(n) = BatchPicks /\ form.pick \in BatchPicks
    BY <1>23 DEF TunnelForm!BatchJson, TunnelForm!OpenAs, TunnelPicks
  <2>2. Whole(n) /\ Still
    BY <1>23, <2>1 DEF TunnelForm!BatchJson, Whole, Still, Shaped
  <2>3. /\ form'.pick \in BatchPicks /\ form'.filled \subseteq TunnelFields
        /\ Rows(form'.rules, TunnelFields)
    BY <1>23, <2>1
       DEF TunnelForm!BatchJson, Shaped, BatchPicks, TunnelFields, TunnelForm!Fields
  <2>4. TunnelExtra(form', n)
    BY <1>23, <2>1 DEF TunnelForm!BatchJson, Shaped, TunnelExtra, BatchPicks
  <2> QED
    BY <2>1, <2>2, <2>3, <2>4, TunnelMoves
<1>24. CASE TunnelForm!BatchExample
  <2>1. n = "batch" /\ TunnelPicks(n) = BatchPicks /\ form.pick \in BatchPicks
    BY <1>24 DEF TunnelForm!BatchExample, TunnelForm!OpenAs, TunnelPicks
  <2>2. Whole(n) /\ Still
    BY <1>24, <2>1 DEF TunnelForm!BatchExample, Whole, Still, Shaped
  <2>3. /\ form'.pick \in BatchPicks /\ form'.filled \subseteq TunnelFields
        /\ Rows(form'.rules, TunnelFields)
    BY <1>24, <2>1
       DEF TunnelForm!BatchExample, Shaped, BatchPicks, TunnelFields, TunnelForm!Fields
  <2>4. TunnelExtra(form', n)
    BY <1>24, <2>1 DEF TunnelForm!BatchExample, Shaped, TunnelExtra, BatchPicks
  <2> QED
    BY <2>1, <2>2, <2>3, <2>4, TunnelMoves
<1>25. CASE TunnelForm!BatchSubmits
  <2>1. n = "batch" /\ TunnelPicks(n) = BatchPicks /\ form.pick \in BatchPicks
    BY <1>25 DEF TunnelForm!BatchSubmits, TunnelForm!OpenAs, TunnelPicks
  <2>2a. form.rules \in Seq(SUBSET TunnelFields) /\ SUBSET TunnelFields \subseteq SUBSET TunnelForm!Fields
    BY DEF Rows, TunnelFields
  <2>2c. /\ form.pick.tab = "quick" => TunnelForm!BatchBody = <<{"endpoint", "name"}>>
         /\ form.pick.tab # "quick" =>
               TunnelForm!BatchBody = [k \in 1..Len(form.rules) |->
                  (form.rules[k] \ {"endpoint"})
                  \cup (IF form.pick.unified THEN form.filled \cap {"endpoint"}
                        ELSE form.rules[k] \cap {"endpoint"})]
    BY DEF TunnelForm!BatchBody
  <2>2d. /\ form.pick.tab # "quick" => /\ Len(form.rules) \in Nat \ {0}
                                       /\ form.pick.unified => "endpoint" \in form.filled
                                       /\ \A k \in 1..Len(form.rules) :
                                             /\ form.pick.unified \/ "endpoint" \in form.rules[k]
                                             /\ "name" \in form.rules[k]
                                             /\ form.rules[k] \in SUBSET TunnelForm!Fields
    BY <1>25, <2>2a DEF TunnelForm!BatchSubmits, TunnelForm!BatchEnabled
  <2>2b. /\ TunnelForm!BatchBody \in Seq(SUBSET TunnelForm!Fields) /\ TunnelForm!BatchBody # <<>>
         /\ \A k \in DOMAIN TunnelForm!BatchBody :
               TunnelForm!TunnelRowRequired(n) \subseteq TunnelForm!BatchBody[k]
    <3> DEFINE body == TunnelForm!BatchBody
    <3>n. TunnelForm!TunnelRowRequired(n) = {"endpoint", "name"}
      BY <2>1 DEF TunnelForm!TunnelRowRequired
    <3>1. CASE form.pick.tab = "quick"
      <4>1. body = <<{"endpoint", "name"}>>
        BY <2>2c, <3>1
      <4> HIDE DEF body
      <4>2. body \in Seq(SUBSET TunnelForm!Fields) /\ DOMAIN body = {1} /\ body[1] = {"endpoint", "name"}
        BY <4>1 DEF TunnelForm!Fields
      <4>3. body # <<>>
        BY <4>1
      <4> QED
        BY <3>n, <4>2, <4>3 DEF body
    <3>2. CASE form.pick.tab # "quick"
      <4>1. body = [k \in 1..Len(form.rules) |->
                      (form.rules[k] \ {"endpoint"})
                      \cup (IF form.pick.unified THEN form.filled \cap {"endpoint"}
                            ELSE form.rules[k] \cap {"endpoint"})]
        BY <2>2c, <3>2
      <4> HIDE DEF body
      <4>2. Len(form.rules) \in Nat \ {0}
        BY <2>2d, <3>2
      <4>3. ASSUME NEW k \in 1..Len(form.rules)
            PROVE  body[k] \in SUBSET TunnelForm!Fields /\ {"endpoint", "name"} \subseteq body[k]
        BY <2>2d, <3>2, <4>1 DEF TunnelForm!Fields
      <4>4. body \in [1..Len(form.rules) -> SUBSET TunnelForm!Fields]
        BY <4>1, <4>3
      <4>5. body \in Seq(SUBSET TunnelForm!Fields) /\ Len(body) = Len(form.rules)
            /\ DOMAIN body = 1..Len(form.rules)
        BY <4>2, <4>4
      <4>6. body # <<>>
        BY <4>2, <4>5, NoneOrSome
      <4> QED
        BY <3>n, <4>3, <4>5, <4>6 DEF body
    <3> QED
      BY <3>1, <3>2
  <2>3. TunnelForm!RequestOf(TunnelForm!BatchBody) \in TunnelRequests(n)
    BY <2>1, <2>2b, TunnelRequestOf
  <2>4. /\ Submits(TunnelForm!RequestOf(TunnelForm!BatchBody)) /\ ~form.busy /\ form'.busy = TRUE
        /\ Whole(n) /\ Filled /\ form'.filled = form.filled
    BY <1>25, <2>1
       DEF TunnelForm!BatchSubmits, TunnelForm!Sends, TunnelForm!BatchEnabled, Submits, Whole,
           Filled, Shaped
  <2>5. TunnelForm!TunnelSubmitsShown(TunnelForm!RequestOf(TunnelForm!BatchBody))
    BY <1>25, <2>1, <2>4
       DEF TunnelForm!BatchSubmits, TunnelForm!BatchBody, TunnelForm!RequestOf,
           TunnelForm!TunnelSubmitsShown, TunnelExtra, TunnelForm!Named
  <2>6. TunnelExtra(form', n)
    BY <2>1, <2>4 DEF Filled, TunnelExtra
  <2> QED
    BY <2>1, <2>3, <2>4, <2>5, <2>6, TunnelSends DEF Filled
<1>26. ASSUME NEW i \in DOMAIN form.sent, TunnelForm!BatchSettled(i)
      PROVE  TunnelGoes(n)
  <2>1. n = "batch" /\ TunnelPicks(n) = BatchPicks /\ form.pick \in BatchPicks
    BY <1>26 DEF TunnelForm!BatchSettled, TunnelForm!Named, TunnelPicks
  <2>2. Whole(n) /\ Replied
    BY <1>26, <2>1
       DEF TunnelForm!BatchSettled, TunnelForm!Named, TunnelForm!Settled, TunnelForm!Without,
           Whole, Replied, Shaped, Form!Without
  <2>3. /\ form'.pick \in BatchPicks /\ form'.filled \subseteq TunnelFields
        /\ Rows(form'.rules, TunnelFields)
    BY <1>26, <2>1
       DEF TunnelForm!BatchSettled, TunnelForm!Named, TunnelForm!Settled, TunnelForm!Without,
           Shaped, BatchPicks, TunnelFields, TunnelForm!Fields
  <2>4. TunnelExtra(form', n)
    BY <1>26, <2>1
       DEF TunnelForm!BatchSettled, TunnelForm!Named, TunnelForm!Settled, TunnelForm!Without,
           Shaped, TunnelExtra, BatchPicks
  <2> QED
    BY <2>1, <2>2, <2>3, <2>4, TunnelMoves
<1>27. CASE TunnelForm!UrlOpens
  <2>1. n = "url" /\ TunnelPicks(n) = {Form!NoPick} /\ form.pick \in {Form!NoPick}
    BY <1>27 DEF TunnelForm!UrlOpens, TunnelForm!Named, TunnelPicks
  <2>2. Whole(n) /\ Asked
    BY <1>27, <2>1
       DEF TunnelForm!UrlOpens, TunnelForm!Named, TunnelForm!Asks, Whole, Asked, Shaped
  <2>3. form'.pick \in {Form!NoPick} /\ form'.filled \subseteq TunnelFields
    BY <1>27, <2>1
       DEF TunnelForm!UrlOpens, TunnelForm!Named, TunnelForm!Asks, Shaped, TunnelFields,
           TunnelForm!Fields
  <2>3r. Rows(form'.rules, TunnelFields)
    BY <1>27, NoRows DEF TunnelForm!UrlOpens, TunnelForm!Asks, Shaped
  <2>4. TunnelExtra(form', n)
    BY <1>27, <2>1
       DEF TunnelForm!UrlOpens, TunnelForm!Named, TunnelForm!Asks, Shaped, TunnelExtra
  <2> QED
    BY <2>1, <2>2, <2>3, <2>3r, <2>4, TunnelMoves
<1>28. ASSUME NEW i \in DOMAIN form.asked, TunnelForm!UrlLoaded(i)
      PROVE  TunnelGoes(n)
  <2>1. n = "url" /\ TunnelPicks(n) = {Form!NoPick} /\ form.pick \in {Form!NoPick}
    BY <1>28 DEF TunnelForm!UrlLoaded, TunnelForm!Named, TunnelPicks
  <2>2. Whole(n) /\ Heard
    BY <1>28, <2>1
       DEF TunnelForm!UrlLoaded, TunnelForm!Named, TunnelForm!Loaded, TunnelForm!Without,
           Whole, Heard, Shaped, Form!Without
  <2>3. /\ form'.pick \in {Form!NoPick} /\ form'.filled \subseteq TunnelFields
        /\ Rows(form'.rules, TunnelFields)
    BY <1>28, <2>1
       DEF TunnelForm!UrlLoaded, TunnelForm!Named, TunnelForm!Loaded, TunnelForm!Without,
           Shaped, TunnelFields, TunnelForm!Fields
  <2>4. TunnelExtra(form', n)
    BY <1>28, <2>1
       DEF TunnelForm!UrlLoaded, TunnelForm!Named, TunnelForm!Loaded, TunnelForm!Without,
           Shaped, TunnelExtra
  <2> QED
    BY <2>1, <2>2, <2>3, <2>4, TunnelMoves
<1>29. CASE TunnelForm!UrlAddsRule
  <2>1. n = "url" /\ TunnelPicks(n) = {Form!NoPick} /\ form.pick \in {Form!NoPick}
    BY <1>29 DEF TunnelForm!UrlAddsRule, TunnelForm!OpenAs, TunnelPicks
  <2>2. form' = [form EXCEPT !.rules = Append(@, form.filled)]
    BY <1>29 DEF TunnelForm!UrlAddsRule
  <2>3. /\ Whole(n) /\ Still /\ form'.target = form.target /\ form'.shown = form.shown
        /\ form'.filled = form.filled /\ form'.pick = form.pick /\ form'.rules = Append(form.rules, form.filled)
    BY <2>1, <2>2 DEF Whole, Still, Shaped
  <2>4. Len(form.rules) < MaxRules
    BY <1>29 DEF TunnelForm!UrlAddsRule
  <2>5. Rows(form'.rules, TunnelFields)
    BY <2>3, AddedFits, <2>4
  <2>6. TunnelExtra(form', n)
    BY <2>1, <2>3 DEF Whole, TunnelExtra
  <2> QED
    BY <2>1, <2>3, <2>5, <2>6, TunnelMoves
<1>30. CASE TunnelForm!UrlSubmits
  <2>1. n = "url" /\ TunnelPicks(n) = {Form!NoPick} /\ form.pick \in {Form!NoPick}
    BY <1>30 DEF TunnelForm!UrlSubmits, TunnelForm!OpenAs, TunnelPicks
  <2>2a. form.rules \in Seq(SUBSET TunnelFields) /\ SUBSET TunnelFields \subseteq SUBSET TunnelForm!Fields
    BY DEF Rows, TunnelFields
  <2>2b. /\ form.rules \in Seq(SUBSET TunnelForm!Fields) /\ form.rules # <<>>
         /\ \A k \in DOMAIN form.rules : TunnelForm!TunnelRowRequired(n) \subseteq form.rules[k]
    BY <1>30, <2>1, <2>2a, EmptySeq
       DEF TunnelForm!UrlSubmits, TunnelForm!UrlValid, TunnelForm!TunnelRowRequired
  <2>3. TunnelForm!RequestOf(form.rules) \in TunnelRequests(n)
    BY <2>1, <2>2b, TunnelRequestOf
  <2>4. /\ Submits(TunnelForm!RequestOf(form.rules)) /\ ~form.busy /\ form'.busy = TRUE
        /\ Whole(n) /\ Filled /\ form'.filled = form.filled
    BY <1>30, <2>1
       DEF TunnelForm!UrlSubmits, TunnelForm!Sends, Submits, Whole, Filled, Shaped
  <2>5. TunnelForm!TunnelSubmitsShown(TunnelForm!RequestOf(form.rules))
    BY <1>30, <2>1, <2>4
       DEF TunnelForm!UrlSubmits, TunnelForm!RequestOf, TunnelForm!TunnelSubmitsShown,
           TunnelExtra, TunnelForm!Named
  <2>6. TunnelExtra(form', n)
    BY <2>1, <2>4 DEF Filled, TunnelExtra
  <2> QED
    BY <2>1, <2>3, <2>4, <2>5, <2>6, TunnelSends DEF Filled
<1>31. ASSUME NEW i \in DOMAIN form.sent, TunnelForm!UrlSettled(i)
      PROVE  TunnelGoes(n)
  <2>1. n = "url" /\ TunnelPicks(n) = {Form!NoPick} /\ form.pick \in {Form!NoPick}
    BY <1>31 DEF TunnelForm!UrlSettled, TunnelForm!Named, TunnelPicks
  <2>2. CASE TunnelForm!Settled(form, i)
    <3>1. Whole(n) /\ Replied
      BY <2>1, <2>2
         DEF TunnelForm!Settled, TunnelForm!Without, Form!Without, Whole, Replied, Shaped
    <3>2. /\ form'.pick \in {Form!NoPick} /\ form'.filled \subseteq TunnelFields
          /\ Rows(form'.rules, TunnelFields)
      BY <2>1, <2>2, NoRows
         DEF TunnelForm!Settled, TunnelForm!Without, Shaped, TunnelFields, TunnelForm!Fields
    <3>3. TunnelExtra(form', n)
      BY <2>1, <2>2 DEF TunnelForm!Settled, TunnelForm!Without, Shaped, TunnelExtra
    <3> QED
      BY <2>1, <3>1, <3>2, <3>3, TunnelMoves
  <2>3. CASE TunnelForm!Settled([form EXCEPT !.open = FALSE, !.rules = <<>>], i)
    <3>1. Whole(n) /\ Replied
      BY <2>1, <2>3
         DEF TunnelForm!Settled, TunnelForm!Without, Form!Without, Whole, Replied, Shaped
    <3>2. /\ form'.pick \in {Form!NoPick} /\ form'.filled \subseteq TunnelFields
          /\ Rows(form'.rules, TunnelFields)
      BY <2>1, <2>3, NoRows
         DEF TunnelForm!Settled, TunnelForm!Without, Shaped, TunnelFields, TunnelForm!Fields
    <3>3. TunnelExtra(form', n)
      BY <2>1, <2>3 DEF TunnelForm!Settled, TunnelForm!Without, Shaped, TunnelExtra
    <3> QED
      BY <2>1, <3>1, <3>2, <3>3, TunnelMoves
  <2> QED
    BY <1>31, <2>2, <2>3 DEF TunnelForm!UrlSettled
<1>32. CASE TunnelForm!UrlCancels
  <2>1. n = "url" /\ TunnelPicks(n) = {Form!NoPick} /\ form.pick \in {Form!NoPick}
    BY <1>32 DEF TunnelForm!UrlCancels, TunnelForm!OpenAs, TunnelPicks
  <2>2. Whole(n) /\ Still
    BY <1>32, <2>1 DEF TunnelForm!UrlCancels, Whole, Still, Shaped
  <2>3. form'.pick \in {Form!NoPick} /\ form'.filled \subseteq TunnelFields
    BY <1>32, <2>1 DEF TunnelForm!UrlCancels, Shaped, TunnelFields, TunnelForm!Fields
  <2>3r. Rows(form'.rules, TunnelFields)
    BY <1>32, NoRows DEF TunnelForm!UrlCancels, Shaped
  <2>4. TunnelExtra(form', n)
    BY <1>32, <2>1 DEF TunnelForm!UrlCancels, Shaped, TunnelExtra
  <2> QED
    BY <2>1, <2>2, <2>3, <2>3r, <2>4, TunnelMoves
<1>33. CASE TunnelForm!RenameOpens
  <2>1. /\ n \in TunnelForm!Values /\ TunnelPicks(n) = {Form!NoPick}
        /\ form.pick \in {Form!NoPick}
    BY <1>33 DEF TunnelForm!RenameOpens, TunnelPicks
  <2>2. PICK i \in Ids \cup {NoId} :
           form' = [form EXCEPT !.open = TRUE, !.target = i, !.shown = i, !.filled = {"value"}]
    BY <1>33 DEF TunnelForm!RenameOpens
  <2>3. /\ Whole(n) /\ Still /\ form'.pick = form.pick /\ form'.rules = form.rules
        /\ form'.filled = {"value"} /\ form'.target = i /\ form'.shown = i
    BY <2>2 DEF Whole, Still, Shaped
  <2>4. TunnelExtra(form', n) /\ form'.filled \subseteq TunnelFields
    BY <2>1, <2>3 DEF TunnelExtra, TunnelFields, TunnelForm!Fields
  <2> QED
    BY <2>1, <2>3, <2>4, TunnelMoves
<1>34. CASE TunnelForm!RenameTypes
  <2>1. /\ n \in TunnelForm!Values /\ TunnelPicks(n) = {Form!NoPick}
        /\ form.pick \in {Form!NoPick}
    BY <1>34 DEF TunnelForm!RenameTypes, TunnelPicks
  <2>2. {"value"} \in SUBSET TunnelFields
    BY DEF TunnelFields, TunnelForm!Fields
  <2>3. /\ Whole(n) /\ Still /\ Filled
        /\ form'.filled \subseteq form.filled \cup {"value"}
        /\ form'.filled \subseteq TunnelFields
    BY <1>34, <2>2, TunnelTyped DEF TunnelForm!RenameTypes
  <2>4. TunnelExtra(form', n)
    BY <2>1, <2>3 DEF Filled, TunnelExtra
  <2> QED
    BY <2>1, <2>3, <2>4, TunnelMoves DEF Filled
<1>35. CASE TunnelForm!RenameSubmits
  <2>1. /\ n \in TunnelForm!Values /\ TunnelPicks(n) = {Form!NoPick}
        /\ form.pick \in {Form!NoPick}
    BY <1>35 DEF TunnelForm!RenameSubmits, TunnelForm!OpenAs, TunnelPicks
  <2>2. form.filled \in SUBSET TunnelFields /\ TunnelForm!TunnelRequired(n) \subseteq form.filled
    BY <1>35, <2>1
       DEF TunnelForm!RenameSubmits, TunnelForm!TunnelRequired, TunnelFields,
           TunnelForm!Fields
  <2>3. TunnelForm!Request(form.target, form.filled) \in TunnelRequests(n)
    BY <2>2, TunnelRequest
  <2>4. /\ Submits(TunnelForm!Request(form.target, form.filled)) /\ ~form.busy /\ form'.busy = TRUE
        /\ Whole(n) /\ Filled /\ form'.filled = form.filled
    BY <1>35, <2>1
       DEF TunnelForm!RenameSubmits, TunnelForm!Sends, Submits, Whole, Filled, Shaped
  <2>5. TunnelForm!TunnelSubmitsShown(TunnelForm!Request(form.target, form.filled))
    BY <1>35, <2>1, <2>4
       DEF TunnelForm!RenameSubmits, TunnelForm!Request, TunnelForm!TunnelSubmitsShown,
           TunnelExtra, TunnelForm!Named, TunnelForm!OpenAs
  <2>6. TunnelExtra(form', n)
    BY <2>1, <2>4 DEF Filled, TunnelExtra
  <2> QED
    BY <2>1, <2>3, <2>4, <2>5, <2>6, TunnelSends DEF Filled
<1>36. CASE TunnelForm!SortSubmits
  <2>1. /\ n \in TunnelForm!Values /\ TunnelPicks(n) = {Form!NoPick}
        /\ form.pick \in {Form!NoPick}
    BY <1>36 DEF TunnelForm!SortSubmits, TunnelForm!OpenAs, TunnelPicks
  <2>2. {"value"} \in SUBSET TunnelFields /\ TunnelForm!TunnelRequired(n) \subseteq {"value"}
    BY <1>36, <2>1
       DEF TunnelForm!SortSubmits, TunnelForm!TunnelRequired, TunnelFields, TunnelForm!Fields
  <2>3. TunnelForm!Request(form.target, {"value"}) \in TunnelRequests(n)
    BY <2>2, TunnelRequest
  <2>4. /\ Submits(TunnelForm!Request(form.target, {"value"})) /\ ~form.busy /\ form'.busy = TRUE
        /\ Whole(n) /\ Filled /\ form'.filled = form.filled
    BY <1>36, <2>1
       DEF TunnelForm!SortSubmits, TunnelForm!Sends, Submits, Whole, Filled, Shaped
  <2>5. TunnelForm!TunnelSubmitsShown(TunnelForm!Request(form.target, {"value"}))
    BY <1>36, <2>1, <2>4
       DEF TunnelForm!SortSubmits, TunnelForm!Request, TunnelForm!TunnelSubmitsShown,
           TunnelExtra, TunnelForm!Named, TunnelForm!OpenAs
  <2>6. TunnelExtra(form', n)
    BY <2>1, <2>4 DEF Filled, TunnelExtra
  <2> QED
    BY <2>1, <2>3, <2>4, <2>5, <2>6, TunnelSends DEF Filled
<1>37. ASSUME NEW i \in DOMAIN form.sent, TunnelForm!RenameSettled(i)
      PROVE  TunnelGoes(n)
  <2>1. /\ n \in TunnelForm!Values /\ TunnelPicks(n) = {Form!NoPick}
        /\ form.pick \in {Form!NoPick}
    BY <1>37 DEF TunnelForm!RenameSettled, TunnelForm!Named, TunnelPicks
  <2>2. Whole(n) /\ Replied
    BY <1>37, <2>1
       DEF TunnelForm!RenameSettled, TunnelForm!Named, TunnelForm!Settled, TunnelForm!Without,
           Whole, Replied, Shaped, Form!Without
  <2>3. /\ form'.pick \in {Form!NoPick} /\ form'.filled \subseteq TunnelFields
        /\ Rows(form'.rules, TunnelFields)
    BY <1>37, <2>1
       DEF TunnelForm!RenameSettled, TunnelForm!Named, TunnelForm!Settled, TunnelForm!Without,
           Shaped, TunnelFields, TunnelForm!Fields
  <2>4. TunnelExtra(form', n)
    BY <1>37, <2>1
       DEF TunnelForm!RenameSettled, TunnelForm!Named, TunnelForm!Settled, TunnelForm!Without,
           Shaped, TunnelExtra
  <2> QED
    BY <2>1, <2>2, <2>3, <2>4, TunnelMoves
<1>38. ASSUME NEW i \in DOMAIN form.sent, TunnelForm!NestedSettled(i)
      PROVE  TunnelGoes(n)
  <2>1. /\ n \in TunnelForm!Nested /\ n \in TunnelForm!Values
        /\ TunnelPicks(n) = {Form!NoPick} /\ form.pick \in {Form!NoPick}
    BY <1>38 DEF TunnelForm!NestedSettled, TunnelForm!Values, TunnelPicks
  <2>2. PICK o \in BOOLEAN : TunnelForm!Answered([form EXCEPT !.open = o], i)
    BY <1>38 DEF TunnelForm!NestedSettled
  <2>3. Whole(n) /\ Told /\ Filled /\ form'.filled = form.filled
    <3> DEFINE f == [form EXCEPT !.open = o]
    <3>1. /\ Shaped(f) /\ f.sent = form.sent /\ f.busy = form.busy
          /\ f.name = form.name /\ f.open = o /\ f.target = form.target /\ f.shown = form.shown
          /\ f.pick = form.pick /\ f.filled = form.filled /\ f.rules = form.rules
          /\ f.asked = form.asked /\ f.loading = form.loading
      BY DEF Shaped
    <3> HIDE DEF f
    <3>2. Form!Answered(f, i)
      BY <2>2 DEF f, TunnelForm!Answered, TunnelForm!Own, TunnelForm!Without, Form!Answered,
         Form!Own, Form!Without
    <3>3. /\ Shaped(form') /\ form'.sent = Form!Without(form.sent, i)
          /\ form'.busy \in BOOLEAN /\ (form'.busy => form.busy /\ i # Len(form.sent))
          /\ form'.name = f.name /\ form'.open = f.open
          /\ form'.target = f.target /\ form'.shown = f.shown
          /\ form'.pick = f.pick /\ form'.filled = f.filled /\ form'.rules = f.rules
          /\ form'.asked = f.asked /\ form'.loading = f.loading
      BY <1>38, <3>1, <3>2, LateAnswers DEF TunnelFit
    <3> QED
      BY <3>1, <3>3 DEF Whole, Told, Filled
  <2>4. TunnelExtra(form', n)
    BY <2>1, <2>3 DEF Filled, TunnelExtra
  <2> QED
    BY <2>1, <2>3, <2>4, TunnelHosts DEF Filled
<1>39. ASSUME NEW i \in DOMAIN form.rules, TunnelForm!BatchRuleEndpoint(i)
      PROVE  TunnelGoes(n)
  <2>1. n = "batch" /\ TunnelPicks(n) = BatchPicks /\ form.pick \in BatchPicks
    BY <1>39 DEF TunnelForm!BatchRuleEndpoint, TunnelForm!OpenAs, TunnelPicks
  <2>2. form.rules[i] \in SUBSET TunnelFields
    BY DEF Rows
  <2>3. PICK k \in SUBSET TunnelFields :
           form' = [form EXCEPT !.rules = [form.rules EXCEPT ![i] = k]]
    BY <1>39, <2>2
       DEF TunnelForm!BatchRuleEndpoint, TunnelForm!Row, TunnelFields, TunnelForm!Fields
  <2>4. /\ Whole(n) /\ Still /\ form'.target = form.target /\ form'.shown = form.shown
        /\ form'.filled = form.filled /\ form'.pick = form.pick
        /\ form'.rules = [form.rules EXCEPT ![i] = k]
    BY <2>1, <2>3 DEF Whole, Still, Shaped
  <2>5. Rows(form'.rules, TunnelFields)
    BY <2>4, RowFits
  <2>6. TunnelExtra(form', n)
    BY <2>1, <2>4 DEF TunnelExtra
  <2> QED
    BY <2>1, <2>4, <2>5, <2>6, TunnelMoves
<1>40. ASSUME NEW i \in DOMAIN form.rules, TunnelForm!BatchRuleTyped(i)
      PROVE  TunnelGoes(n)
  <2>1. n = "batch" /\ TunnelPicks(n) = BatchPicks /\ form.pick \in BatchPicks
    BY <1>40 DEF TunnelForm!BatchRuleTyped, TunnelForm!OpenAs, TunnelPicks
  <2>2. form.rules[i] \in SUBSET TunnelFields
    BY DEF Rows
  <2>3. PICK k \in SUBSET TunnelFields :
           form' = [form EXCEPT !.rules = [form.rules EXCEPT ![i] = k]]
    BY <1>40, <2>2
       DEF TunnelForm!BatchRuleTyped, TunnelForm!Row, TunnelFields, TunnelForm!Fields
  <2>4. /\ Whole(n) /\ Still /\ form'.target = form.target /\ form'.shown = form.shown
        /\ form'.filled = form.filled /\ form'.pick = form.pick
        /\ form'.rules = [form.rules EXCEPT ![i] = k]
    BY <2>1, <2>3 DEF Whole, Still, Shaped
  <2>5. Rows(form'.rules, TunnelFields)
    BY <2>4, RowFits
  <2>6. TunnelExtra(form', n)
    BY <2>1, <2>4 DEF TunnelExtra
  <2> QED
    BY <2>1, <2>4, <2>5, <2>6, TunnelMoves
<1>41. ASSUME NEW i \in DOMAIN form.rules, TunnelForm!BatchDropsRule(i)
      PROVE  TunnelGoes(n)
  <2>1. n = "batch" /\ TunnelPicks(n) = BatchPicks /\ form.pick \in BatchPicks
    BY <1>41 DEF TunnelForm!BatchDropsRule, TunnelForm!OpenAs, TunnelPicks
  <2>2. form' = [form EXCEPT !.rules = Form!Without(form.rules, i)]
    BY <1>41
       DEF TunnelForm!BatchDropsRule, TunnelForm!WithoutRow, TunnelForm!Without, Form!Without
  <2>3. /\ Whole(n) /\ Still /\ form'.target = form.target /\ form'.shown = form.shown
        /\ form'.filled = form.filled /\ form'.pick = form.pick
        /\ form'.rules = Form!Without(form.rules, i)
    BY <2>1, <2>2 DEF Whole, Still, Shaped
  <2>4. Rows(form'.rules, TunnelFields)
    BY <2>3, DroppedFits
  <2>5. TunnelExtra(form', n)
    BY <2>1, <2>3 DEF TunnelExtra
  <2> QED
    BY <2>1, <2>3, <2>4, <2>5, TunnelMoves
<1>42. ASSUME NEW i \in DOMAIN form.rules, TunnelForm!UrlRuleTyped(i)
      PROVE  TunnelGoes(n)
  <2>1. n = "url" /\ TunnelPicks(n) = {Form!NoPick} /\ form.pick \in {Form!NoPick}
    BY <1>42 DEF TunnelForm!UrlRuleTyped, TunnelForm!OpenAs, TunnelPicks
  <2>2. form.rules[i] \in SUBSET TunnelFields
    BY DEF Rows
  <2>3. PICK k \in SUBSET TunnelFields :
           form' = [form EXCEPT !.rules = [form.rules EXCEPT ![i] = k]]
    BY <1>42, <2>2
       DEF TunnelForm!UrlRuleTyped, TunnelForm!Row, TunnelFields, TunnelForm!Fields
  <2>4. /\ Whole(n) /\ Still /\ form'.target = form.target /\ form'.shown = form.shown
        /\ form'.filled = form.filled /\ form'.pick = form.pick
        /\ form'.rules = [form.rules EXCEPT ![i] = k]
    BY <2>1, <2>3 DEF Whole, Still, Shaped
  <2>5. Rows(form'.rules, TunnelFields)
    BY <2>4, RowFits
  <2>6. TunnelExtra(form', n)
    BY <2>1, <2>4 DEF TunnelExtra
  <2> QED
    BY <2>1, <2>4, <2>5, <2>6, TunnelMoves
<1>43. ASSUME NEW i \in DOMAIN form.rules, TunnelForm!UrlDropsRule(i)
      PROVE  TunnelGoes(n)
  <2>1. n = "url" /\ TunnelPicks(n) = {Form!NoPick} /\ form.pick \in {Form!NoPick}
    BY <1>43 DEF TunnelForm!UrlDropsRule, TunnelForm!OpenAs, TunnelPicks
  <2>2. form' = [form EXCEPT !.rules = Form!Without(form.rules, i)]
    BY <1>43
       DEF TunnelForm!UrlDropsRule, TunnelForm!WithoutRow, TunnelForm!Without, Form!Without
  <2>3. /\ Whole(n) /\ Still /\ form'.target = form.target /\ form'.shown = form.shown
        /\ form'.filled = form.filled /\ form'.pick = form.pick
        /\ form'.rules = Form!Without(form.rules, i)
    BY <2>1, <2>2 DEF Whole, Still, Shaped
  <2>4. Rows(form'.rules, TunnelFields)
    BY <2>3, DroppedFits
  <2>5. TunnelExtra(form', n)
    BY <2>1, <2>3 DEF TunnelExtra
  <2> QED
    BY <2>1, <2>3, <2>4, <2>5, TunnelMoves
<1>44. CASE TunnelForm!Closes /\ n # "edit"
  <2>1. Whole(n) /\ Still /\ Filled /\ form'.filled = form.filled
    BY <1>44 DEF TunnelForm!Closes, Whole, Still, Filled, Shaped
  <2>2. TunnelExtra(form', n)
    BY <1>44, <2>1 DEF Filled, TunnelExtra
  <2> QED
    BY <2>1, <2>2, TunnelMoves DEF Filled
<1>45. CASE TunnelForm!EditCloses
  <2>1. n = "edit" /\ form' = Form!Unmounted(TunnelForm!SimpleStart("edit"))
    BY <1>45
       DEF TunnelForm!EditCloses, TunnelForm!OpenAs, TunnelForm!Unmounted, Form!Unmounted
  <2> QED
    BY <2>1, EditUnmounts
<1>46. ASSUME NEW i \in DOMAIN form.sent, TunnelForm!EditSettled(i)
      PROVE  TunnelGoes(n)
  <2>1. n = "edit" /\ TunnelPicks(n) = SimplePicks
    BY <1>46 DEF TunnelForm!EditSettled, TunnelForm!Named, TunnelPicks
  <2>2. CASE Form!Answered(form, i)
    <3>1. Whole(n) /\ Told /\ Filled /\ form'.filled = form.filled /\ form'.open = form.open
      BY <2>2, LateAnswers DEF TunnelFit, Whole, Told, Filled
    <3>2. TunnelExtra(form', n)
      BY <2>1, <3>1 DEF Filled, Told, TunnelExtra, EditExtra
    <3> QED
      BY <2>1, <3>1, <3>2, TunnelHosts DEF Filled
  <2>3. CASE Form!Answered(Form!Unmounted(TunnelForm!SimpleStart("edit")), i)
    BY <2>1, <2>3, EditUnmounts
  <2> QED
    BY <1>46, <2>2, <2>3
       DEF TunnelForm!EditSettled, TunnelForm!Answered, TunnelForm!Own, TunnelForm!Without,
           TunnelForm!Unmounted, Form!Answered, Form!Own, Form!Without, Form!Unmounted
<1>47. CASE TunnelForm!HostCloses
  <2>1. /\ n \in TunnelForm!Nested /\ n \in TunnelForm!Values /\ TunnelPicks(n) = {Form!NoPick}
        /\ form' = Form!Unmounted(TunnelForm!ValueStart(n))
    BY <1>47
       DEF TunnelForm!HostCloses, TunnelForm!Values, TunnelPicks, TunnelForm!Unmounted,
           Form!Unmounted
  <2>2. Fresh(TunnelForm!ValueStart(n), n, Form!NoPick) /\ TunnelForm!ValueStart(n).asked = <<>>
    BY DEF TunnelForm!ValueStart, TunnelForm!FormOf, TunnelForm!NoPick, Form!NoPick, Fresh, Shaped
  <2>3. /\ Gone /\ Whole(n) /\ form'.pick = Form!NoPick /\ form'.filled = {}
        /\ form'.rules = <<>> /\ form'.target = NoId /\ form'.shown = NoId
    BY <2>1, <2>2, Unmounts DEF TunnelFit
  <2>4. TunnelExtra(form', n) /\ Rows(form'.rules, TunnelFields)
    BY <2>1, <2>3, NoRows DEF TunnelExtra
  <2> QED
    BY <2>1, <2>3, <2>4, TunnelHosts
<1> QED
  BY <1>1, <1>2, <1>3, <1>4, <1>5, <1>6, <1>7, <1>8, <1>9, <1>10, <1>11, <1>12, <1>13, <1>14,
     <1>15, <1>16, <1>17, <1>18, <1>19, <1>20, <1>21, <1>22, <1>23, <1>24, <1>25, <1>26,
     <1>27, <1>28, <1>29, <1>30, <1>31, <1>32, <1>33, <1>34, <1>35, <1>36, <1>37, <1>38,
     <1>39, <1>40, <1>41, <1>42, <1>43, <1>44, <1>45, <1>46, <1>47
     DEF TunnelForm!TunnelFormsNext

LEMMA TunnelStarts ==
    ASSUME NEW q, NEW f \in TunnelForm!TunnelFormsOf(q)
    PROVE  f.name \in TunnelForm!TunnelFormNames /\ TunnelFit(f, f.name)
<1>1. ASSUME NEW n \in {"simple", "edit"}, f = TunnelForm!SimpleStart(n)
      PROVE  TunnelFit(f, n) /\ f.name = n
  <2> DEFINE p == [type |-> "server", mode |-> "auto", tls |-> "0", balance |-> FALSE]
  <2>1. Fresh(f, n, p)
    BY <1>1 DEF TunnelForm!SimpleStart, TunnelForm!FormOf, Fresh, Shaped
  <2>2. p \in TunnelPicks(n)
    BY DEF TunnelPicks, SimplePicks
  <2> HIDE DEF p
  <2>3. TunnelExtra(f, n)
    BY <1>1, <2>1, <2>2, EditStarts
       DEF Fresh, TunnelExtra, EditExtra, TunnelForm!Values, TunnelForm!Nested
  <2> QED
    BY <2>1, <2>2, <2>3, Appearance DEF TunnelFit, Fresh
<1>2. ASSUME f = TunnelForm!CreateStart
      PROVE  TunnelFit(f, "create") /\ f.name = "create"
  <2> DEFINE p == [endpoint |-> "none", type |-> "server", mode |-> 0, tls |-> "inherit"]
  <2>1. Fresh(f, "create", p)
    BY <1>2 DEF TunnelForm!CreateStart, TunnelForm!FormOf, Fresh, Shaped
  <2>2. p \in TunnelPicks("create")
    BY DEF TunnelPicks, CreatePicks
  <2> HIDE DEF p
  <2>3. TunnelExtra(f, "create")
    BY <2>1, <2>2 DEF Fresh, TunnelExtra, TunnelForm!Values, TunnelForm!Nested
  <2> QED
    BY <2>1, <2>2, <2>3, Appearance DEF TunnelFit, Fresh
<1>3. ASSUME f = TunnelForm!BatchStart
      PROVE  TunnelFit(f, "batch") /\ f.name = "batch"
  <2> DEFINE p == [tab |-> "standard", unified |-> TRUE, json |-> "good"]
  <2>1. Fresh(f, "batch", p)
    BY <1>3 DEF TunnelForm!BatchStart, TunnelForm!FormOf, TunnelForm!BatchBlank, Fresh, Shaped
  <2>2. p \in TunnelPicks("batch")
    BY DEF TunnelPicks, BatchPicks
  <2> HIDE DEF p
  <2>3. TunnelExtra(f, "batch")
    BY <2>1, <2>2 DEF Fresh, TunnelExtra, TunnelForm!Values, TunnelForm!Nested
  <2> QED
    BY <2>1, <2>2, <2>3, Appearance DEF TunnelFit, Fresh
<1>4. ASSUME f = TunnelForm!UrlStart
      PROVE  TunnelFit(f, "url") /\ f.name = "url"
  <2> DEFINE p == [none |-> TRUE]
  <2>1. Fresh(f, "url", p)
    BY <1>4 DEF TunnelForm!UrlStart, TunnelForm!FormOf, TunnelForm!NoPick, Fresh, Shaped
  <2>2. p \in TunnelPicks("url")
    BY DEF TunnelPicks, Form!NoPick
  <2> HIDE DEF p
  <2>3. TunnelExtra(f, "url")
    BY <2>1, <2>2 DEF Fresh, TunnelExtra, TunnelForm!Values, TunnelForm!Nested
  <2> QED
    BY <2>1, <2>2, <2>3, Appearance DEF TunnelFit, Fresh
<1>5. ASSUME NEW n \in TunnelForm!Values, f = TunnelForm!ValueStart(n)
      PROVE  TunnelFit(f, n) /\ f.name = n
  <2> DEFINE p == [none |-> TRUE]
  <2>1. Fresh(f, n, p)
    BY <1>5 DEF TunnelForm!ValueStart, TunnelForm!FormOf, TunnelForm!NoPick, Fresh, Shaped
  <2>2. p \in TunnelPicks(n) /\ n \in {"rename", "retitle", "sort"}
    BY DEF TunnelPicks, Form!NoPick, TunnelForm!Values, TunnelForm!Nested
  <2> HIDE DEF p
  <2>3. TunnelExtra(f, n)
    BY <2>1, <2>2 DEF Fresh, TunnelExtra
  <2> QED
    BY <2>1, <2>2, <2>3, Appearance DEF TunnelFit, Fresh
<1> QED
  BY <1>1, <1>2, <1>3, <1>4, <1>5
     DEF TunnelForm!TunnelFormsOf, TunnelForm!TunnelFormNames, TunnelForm!Values, TunnelForm!Nested

-----------------------------------------------------------------------------
(* The forms of groups and tags                                            *)

TagsPicks ==
    [tab : {"json", "template"}, json : (SUBSET GroupForm!Tags) \cup {GroupForm!NoJson},
     error : BOOLEAN, endless : BOOLEAN, free : BOOLEAN]

GroupPicks(n) ==
    CASE n = "groups" -> [adding : BOOLEAN]
      [] n = "tags" -> TagsPicks
      [] OTHER -> {Form!NoPick}

GroupFields == GroupForm!GroupFields

GroupRequests(n) == Requests(GroupFields)

\* The buttons that delete a group look at no flag, and the members lose theirs.
GroupMode(n) == IF n \in {"groups", "members"} THEN "many" ELSE "flag"

\* The JSON is that of the fields while these are shown, unless it was bad.
GroupExtra(f, n) ==
    n = "tags" /\ f.pick.tab = "template" /\ ~f.pick.error => f.pick.json = GroupForm!TagsOf(f)

GroupFit(f, n) ==
    Fit(f, n, GroupFields, GroupPicks(n), GroupRequests(n), GroupMode(n)) /\ GroupExtra(f, n)

\* A step keeps the form typed, and submits what is shown.
GroupGoes(n) == GroupFit(form', n) /\ (Quiet \/ GroupForm!GroupSubmitsShown(Last))

LEMMA GroupMoves ==
    ASSUME NEW n, GroupFit(form, n), Whole(n),
           Still \/ Stopped \/ Asked \/ Heard \/ Replied \/ AskedAgain,
           form'.pick \in GroupPicks(n), form'.filled \subseteq GroupFields,
           Rows(form'.rules, GroupFields), GroupExtra(form', n)
    PROVE  GroupGoes(n)
  BY Steps DEF GroupFit, GroupGoes

LEMMA GroupSends ==
    ASSUME NEW n, GroupFit(form, n), NEW r \in GroupRequests(n), Submits(r),
           (GroupMode(n) = "flag" => ~form.busy /\ form'.busy = TRUE), form'.busy \in BOOLEAN, Whole(n),
           form'.pick \in GroupPicks(n), form'.filled \subseteq GroupFields,
           Rows(form'.rules, GroupFields), GroupExtra(form', n), GroupForm!GroupSubmitsShown(r)
    PROVE  GroupGoes(n)
<1>1. Fit(form', n, GroupFields, GroupPicks(n), GroupRequests(n), GroupMode(n)) /\ Last = r
  BY Submissions DEF GroupFit, GroupMode
<1> QED
  BY <1>1 DEF GroupFit, GroupGoes

LEMMA GroupHosts ==
    ASSUME GroupFit(form, "members"), Gone \/ Told, Whole("members"),
           form'.pick \in GroupPicks("members"), form'.filled \subseteq GroupFields,
           Rows(form'.rules, GroupFields), GroupExtra(form', "members")
    PROVE  GroupGoes("members")
<1>1. GroupMode("members") = "many"
  BY DEF GroupMode
<1> QED
  BY <1>1, Hosts DEF GroupFit, GroupGoes

LEMMA GroupTyped ==
    ASSUME NEW n, GroupFit(form, n), NEW fields \in SUBSET GroupFields, GroupForm!Types(fields)
    PROVE  /\ Whole(n) /\ Still /\ Filled
           /\ form'.filled \subseteq form.filled \cup fields /\ form'.filled \subseteq GroupFields
<1>1. PICK h \in SUBSET (form.filled \cup fields) : form' = [form EXCEPT !.filled = h]
  BY DEF GroupForm!Types, GroupForm!Typings
<1> QED
  BY <1>1 DEF GroupFit, Fit, Shaped, Whole, Still, Filled

LEMMA GroupHas ==
    {"new", "edit", "end", "amount", "bandwidth", "other", "delete", "tunnels"} \subseteq GroupFields
  BY DEF GroupFields, GroupForm!GroupFields, GroupForm!Names, GroupForm!Tags

LEMMA GroupRequest ==
    ASSUME NEW n, NEW o \in Ids \cup {NoId}, NEW h \in SUBSET GroupFields
    PROVE  GroupForm!Request(o, h) \in GroupRequests(n)
  BY EmptySeq DEF GroupForm!Request, GroupRequests, Requests

LEMMA TagsAreTags ==
    ASSUME NEW f, f.filled \subseteq GroupFields
    PROVE  GroupForm!TagsOf(f) \in SUBSET GroupForm!Tags
  BY DEF GroupForm!TagsOf, GroupForm!Tags

\* The editor of tags as it may be between two effects.
TagsReady(f) ==
    /\ Shaped(f) /\ f.name = "tags" /\ f.open \in BOOLEAN
    /\ f.target = form.target /\ f.shown = form.shown /\ f.rules = form.rules
    /\ f.asked = form.asked /\ f.loading = form.loading
    /\ f.busy = form.busy /\ f.sent = form.sent
    /\ f.filled \subseteq GroupFields /\ f.pick \in TagsPicks

\* The JSON follows the fields.
LEMMA Following ==
    ASSUME NEW f, TagsReady(f), NEW g, g = GroupForm!Follows(f)
    PROVE  TagsReady(g) /\ g.pick.json = GroupForm!TagsOf(g)
<1>1. g = [f EXCEPT !.pick = [[f.pick EXCEPT !.json = GroupForm!TagsOf(f)] EXCEPT !.error = FALSE]]
  BY DEF GroupForm!Follows, TagsReady, Shaped
<1>2. /\ Shaped(g) /\ g.name = f.name /\ g.open = f.open
      /\ g.target = f.target /\ g.shown = f.shown /\ g.filled = f.filled
      /\ g.rules = f.rules /\ g.asked = f.asked /\ g.loading = f.loading
      /\ g.busy = f.busy /\ g.sent = f.sent
  BY <1>1 DEF TagsReady, Shaped
<1>3. g.pick = [[f.pick EXCEPT !.json = GroupForm!TagsOf(f)] EXCEPT !.error = FALSE]
  BY <1>1 DEF TagsReady, Shaped
<1>4. GroupForm!TagsOf(f) \in (SUBSET GroupForm!Tags) \cup {GroupForm!NoJson}
  BY TagsAreTags DEF TagsReady
<1>5. /\ g.pick \in TagsPicks /\ g.pick.json = GroupForm!TagsOf(f)
      /\ g.pick.endless = f.pick.endless /\ g.pick.free = f.pick.free
  BY <1>3, <1>4 DEF TagsPicks, TagsReady
<1>6. GroupForm!TagsOf(g) = GroupForm!TagsOf(f)
  BY <1>2, <1>5 DEF GroupForm!TagsOf
<1> QED
  BY <1>2, <1>5, <1>6 DEF TagsReady

\* The fields are taken from tags.
LEMMA Fielded ==
    ASSUME NEW f, TagsReady(f), NEW s \in SUBSET GroupForm!Tags, NEW e \in BOOLEAN, NEW a \in BOOLEAN
    PROVE  TagsReady(GroupForm!FieldsFrom(f, s, e, a))
<1> DEFINE h == (s \cap {"other"}) \cup ((f.filled \cup s) \cap {"bandwidth"})
                \cup (IF e THEN {} ELSE s \cap {"end"}) \cup (IF a THEN {} ELSE s \cap {"amount"})
           p == [[f.pick EXCEPT !.endless = e] EXCEPT !.free = a]
<1>1. h \subseteq GroupFields
  BY GroupHas
<1>2. p \in TagsPicks
  BY DEF TagsPicks, TagsReady
<1>3. GroupForm!FieldsFrom(f, s, e, a) = [f EXCEPT !.pick = p, !.filled = h]
  BY DEF GroupForm!FieldsFrom, TagsReady, Shaped
<1> HIDE DEF h, p
<1> QED
  BY <1>1, <1>2, <1>3 DEF TagsReady, Shaped

\* The other tab is shown.
LEMMA Turned ==
    ASSUME NEW f, TagsReady(f), f.pick.json = GroupForm!TagsOf(f),
           NEW t \in {"json", "template"}, NEW g, g = [f EXCEPT !.pick.tab = t]
    PROVE  TagsReady(g) /\ g.pick.json = GroupForm!TagsOf(g)
<1>1. /\ Shaped(g) /\ g.name = f.name /\ g.open = f.open
      /\ g.target = f.target /\ g.shown = f.shown /\ g.filled = f.filled
      /\ g.rules = f.rules /\ g.asked = f.asked /\ g.loading = f.loading
      /\ g.busy = f.busy /\ g.sent = f.sent /\ g.pick = [f.pick EXCEPT !.tab = t]
  BY DEF TagsReady, Shaped
<1>2. /\ g.pick \in TagsPicks /\ g.pick.json = f.pick.json
      /\ g.pick.endless = f.pick.endless /\ g.pick.free = f.pick.free
  BY <1>1 DEF TagsPicks, TagsReady
<1>3. GroupForm!TagsOf(g) = GroupForm!TagsOf(f)
  BY <1>1, <1>2 DEF GroupForm!TagsOf
<1> QED
  BY <1>1, <1>2, <1>3 DEF TagsReady

LEMMA TagsGo ==
    ASSUME GroupFit(form, "tags"), TagsReady(form'), form'.pick.json = GroupForm!TagsOf(form')
    PROVE  GroupGoes("tags")
<1>1. Whole("tags") /\ Still /\ form'.filled \subseteq GroupFields /\ form'.pick \in TagsPicks
  BY DEF GroupFit, Fit, Whole, Still, TagsReady
<1>2. Rows(form'.rules, GroupFields) /\ GroupPicks("tags") = TagsPicks
  BY DEF GroupFit, Fit, TagsReady, GroupPicks
<1>3. GroupExtra(form', "tags")
  BY DEF GroupExtra
<1> QED
  BY <1>1, <1>2, <1>3, GroupMoves

LEMMA TagsAtFirst ==
    ASSUME GroupFit(form, "tags")
    PROVE  TagsReady(form)
  BY DEF GroupFit, Fit, TagsReady, GroupPicks

LEMMA TagsFollow ==
    ASSUME GroupFit(form, "tags"), NEW f, TagsReady(f), form' = GroupForm!Follows(f)
    PROVE  GroupGoes("tags")
<1>1. TagsReady(form') /\ form'.pick.json = GroupForm!TagsOf(form')
  BY Following
<1> QED
  BY <1>1, TagsGo

\* Other fields, and other choices.
LEMMA TagsChanged ==
    ASSUME NEW f, TagsReady(f), NEW h \in SUBSET GroupFields, NEW p \in TagsPicks,
           NEW g, g = [f EXCEPT !.pick = p, !.filled = h]
    PROVE  TagsReady(g)
<1> DEFINE e == [f EXCEPT !.pick = p]
<1>1. /\ Shaped(e) /\ e.name = f.name /\ e.open = f.open /\ e.target = f.target
      /\ e.shown = f.shown /\ e.rules = f.rules /\ e.asked = f.asked /\ e.loading = f.loading
      /\ e.busy = f.busy /\ e.sent = f.sent /\ e.pick = p
  BY DEF TagsReady, Shaped
<1>2. g = [e EXCEPT !.filled = h]
  OBVIOUS
<1> HIDE DEF e
<1>3. /\ Shaped(g) /\ g.name = e.name /\ g.open = e.open /\ g.target = e.target
      /\ g.shown = e.shown /\ g.rules = e.rules /\ g.asked = e.asked /\ g.loading = e.loading
      /\ g.busy = e.busy /\ g.sent = e.sent /\ g.pick = e.pick /\ g.filled = h
  BY <1>1, <1>2 DEF Shaped
<1> QED
  BY <1>1, <1>3 DEF TagsReady

LEMMA TagsTake ==
    ASSUME GroupFit(form, "tags"), NEW f, TagsReady(f), NEW s \in SUBSET GroupForm!Tags,
           GroupForm!TagsTaken(f, s)
    PROVE  GroupGoes("tags")
<1>1. CASE s = {}
  <2> DEFINE p == [[f.pick EXCEPT !.endless = FALSE] EXCEPT !.free = FALSE]
  <2>1. p \in TagsPicks
    BY DEF TagsReady, TagsPicks
  <2>2. [f EXCEPT !.filled = {}, !.pick.endless = FALSE, !.pick.free = FALSE]
           = [f EXCEPT !.pick = p, !.filled = {}]
    BY DEF TagsReady, Shaped
  <2>3. form' = GroupForm!Follows([f EXCEPT !.pick = p, !.filled = {}])
    BY <1>1, <2>2 DEF GroupForm!TagsTaken
  <2> HIDE DEF p
  <2>4. TagsReady([f EXCEPT !.pick = p, !.filled = {}])
    BY <2>1, TagsChanged
  <2> QED
    BY <2>3, <2>4, TagsFollow
<1>2. CASE s # {}
  <2>1. PICK e \in BOOLEAN, a \in BOOLEAN :
           /\ e => "end" \in s
           /\ a => "amount" \in s
           /\ form' = GroupForm!Follows(GroupForm!FieldsFrom(f, s, e, a))
    BY <1>2, Zenon DEF GroupForm!TagsTaken
  <2>2. TagsReady(GroupForm!FieldsFrom(f, s, e, a))
    BY Fielded
  <2> QED
    BY <2>1, <2>2, TagsFollow
<1> QED
  BY <1>1, <1>2

\* Whatever is done in a form, it stays typed and shows what it submits.
LEMMA GroupFormsStep ==
    ASSUME NEW n \in GroupForm!GroupFormNames, GroupFit(form, n), GroupForm!GroupFormsNext
    PROVE  GroupGoes(n)
<1>n. /\ form.name = n /\ form.pick \in GroupPicks(n) /\ form.filled \subseteq GroupFields
      /\ form.target \in Ids \cup {NoId} /\ form.shown \in Ids \cup {NoId}
      /\ form.open \in BOOLEAN /\ Rows(form.rules, GroupFields) /\ Shaped(form) /\ GroupExtra(form, n)
      /\ \A i \in DOMAIN form.asked : form.asked[i] \in Ids \cup {NoId}
  BY DEF GroupFit, Fit, Asking
<1> USE <1>n
<1>1. CASE GroupForm!GroupsOpen
  <2>1. n = "groups" /\ GroupPicks(n) = [adding : BOOLEAN] /\ form.pick \in [adding : BOOLEAN]
    BY <1>1 DEF GroupForm!GroupsOpen, GroupForm!Named, GroupPicks
  <2>2. Whole(n) /\ Asked
    BY <1>1, <2>1
       DEF GroupForm!GroupsOpen, GroupForm!Named, GroupForm!Asks, Whole, Asked, Shaped
  <2>3. /\ form'.pick \in [adding : BOOLEAN] /\ form'.filled \subseteq GroupFields
        /\ Rows(form'.rules, GroupFields)
    BY <1>1, <2>1, GroupHas
       DEF GroupForm!GroupsOpen, GroupForm!Named, GroupForm!Asks, Shaped
  <2>4. GroupExtra(form', n)
    BY <1>1, <2>1
       DEF GroupForm!GroupsOpen, GroupForm!Named, GroupForm!Asks, Shaped, GroupExtra
  <2> QED
    BY <2>1, <2>2, <2>3, <2>4, GroupMoves
<1>2. ASSUME NEW i \in DOMAIN form.asked, GroupForm!GroupsLoaded(i)
      PROVE  GroupGoes(n)
  <2>1. n = "groups" /\ GroupPicks(n) = [adding : BOOLEAN] /\ form.pick \in [adding : BOOLEAN]
    BY <1>2 DEF GroupForm!GroupsLoaded, GroupForm!Named, GroupPicks
  <2>2. Whole(n) /\ Heard
    BY <1>2, <2>1
       DEF GroupForm!GroupsLoaded, GroupForm!Named, GroupForm!Loaded, GroupForm!Without,
           Whole, Heard, Shaped, Form!Without
  <2>3. /\ form'.pick \in [adding : BOOLEAN] /\ form'.filled \subseteq GroupFields
        /\ Rows(form'.rules, GroupFields)
    BY <1>2, <2>1, GroupHas
       DEF GroupForm!GroupsLoaded, GroupForm!Named, GroupForm!Loaded, GroupForm!Without,
           Shaped
  <2>4. GroupExtra(form', n)
    BY <1>2, <2>1
       DEF GroupForm!GroupsLoaded, GroupForm!Named, GroupForm!Loaded, GroupForm!Without,
           Shaped, GroupExtra
  <2> QED
    BY <2>1, <2>2, <2>3, <2>4, GroupMoves
<1>3. CASE GroupForm!GroupsClose
  <2>1. n = "groups" /\ GroupPicks(n) = [adding : BOOLEAN] /\ form.pick \in [adding : BOOLEAN]
    BY <1>3 DEF GroupForm!GroupsClose, GroupForm!OpenAs, GroupPicks
  <2>2. Whole(n) /\ Still
    BY <1>3, <2>1 DEF GroupForm!GroupsClose, GroupForm!OpenAs, Whole, Still, Shaped
  <2>3. /\ form'.pick \in [adding : BOOLEAN] /\ form'.filled \subseteq GroupFields
        /\ Rows(form'.rules, GroupFields)
    BY <1>3, <2>1, GroupHas DEF GroupForm!GroupsClose, GroupForm!OpenAs, Shaped
  <2>4. GroupExtra(form', n)
    BY <1>3, <2>1 DEF GroupForm!GroupsClose, GroupForm!OpenAs, Shaped, GroupExtra
  <2> QED
    BY <2>1, <2>2, <2>3, <2>4, GroupMoves
<1>4. CASE GroupForm!AddsGroup
  <2>1. n = "groups" /\ GroupPicks(n) = [adding : BOOLEAN] /\ form.pick \in [adding : BOOLEAN]
    BY <1>4 DEF GroupForm!AddsGroup, GroupForm!OpenAs, GroupPicks
  <2>2. Whole(n) /\ Still
    BY <1>4, <2>1 DEF GroupForm!AddsGroup, GroupForm!OpenAs, Whole, Still, Shaped
  <2>3. /\ form'.pick \in [adding : BOOLEAN] /\ form'.filled \subseteq GroupFields
        /\ Rows(form'.rules, GroupFields)
    BY <1>4, <2>1, GroupHas DEF GroupForm!AddsGroup, GroupForm!OpenAs, Shaped
  <2>4. GroupExtra(form', n)
    BY <1>4, <2>1 DEF GroupForm!AddsGroup, GroupForm!OpenAs, Shaped, GroupExtra
  <2> QED
    BY <2>1, <2>2, <2>3, <2>4, GroupMoves
<1>5. CASE GroupForm!EditsGroup
  <2>1. n = "groups" /\ GroupPicks(n) = [adding : BOOLEAN] /\ form.pick \in [adding : BOOLEAN]
    BY <1>5 DEF GroupForm!EditsGroup, GroupForm!OpenAs, GroupPicks
  <2>2. ASSUME NEW o \in Ids, form' = [form EXCEPT !.shown = o, !.filled = @ \cup {"edit"}]
       PROVE  GroupGoes(n)
    <3>1. Whole(n) /\ Still
      BY <2>1, <2>2 DEF Whole, Still, Shaped
    <3>2. /\ form'.pick \in [adding : BOOLEAN] /\ form'.filled \subseteq GroupFields
          /\ Rows(form'.rules, GroupFields)
      BY <2>1, <2>2, GroupHas DEF Shaped
    <3>3. GroupExtra(form', n)
      BY <2>1, <2>2 DEF Shaped, GroupExtra
    <3> QED
      BY <2>1, <3>1, <3>2, <3>3, GroupMoves
  <2>3. CASE form' = [form EXCEPT !.shown = NoId, !.filled = @ \ {"edit"}]
    <3>1. Whole(n) /\ Still
      BY <2>1, <2>3 DEF Whole, Still, Shaped
    <3>2. /\ form'.pick \in [adding : BOOLEAN] /\ form'.filled \subseteq GroupFields
          /\ Rows(form'.rules, GroupFields)
      BY <2>1, <2>3, GroupHas DEF Shaped
    <3>3. GroupExtra(form', n)
      BY <2>1, <2>3 DEF Shaped, GroupExtra
    <3> QED
      BY <2>1, <3>1, <3>2, <3>3, GroupMoves
  <2> QED
    BY <1>5, <2>2, <2>3 DEF GroupForm!EditsGroup
<1>6. CASE GroupForm!GroupsType
  <2>1. n = "groups" /\ GroupPicks(n) = [adding : BOOLEAN] /\ form.pick \in [adding : BOOLEAN]
    BY <1>6 DEF GroupForm!GroupsType, GroupForm!OpenAs, GroupPicks
  <2>2. GroupForm!GroupsTyped \in SUBSET GroupFields
    BY GroupHas DEF GroupForm!GroupsTyped
  <2>3. /\ Whole(n) /\ Still /\ Filled
        /\ form'.filled \subseteq form.filled \cup GroupForm!GroupsTyped
        /\ form'.filled \subseteq GroupFields
    BY <1>6, <2>2, GroupTyped DEF GroupForm!GroupsType
  <2>4. GroupExtra(form', n)
    BY <2>1, <2>3 DEF Filled, GroupExtra
  <2> QED
    BY <2>1, <2>3, <2>4, GroupMoves DEF Filled
<1>7. CASE GroupForm!CreatesGroup
  <2>1. n = "groups" /\ GroupPicks(n) = [adding : BOOLEAN] /\ form.pick \in [adding : BOOLEAN]
    BY <1>7 DEF GroupForm!CreatesGroup, GroupForm!OpenAs, GroupPicks
  <2>2. {"new"} \in SUBSET GroupFields
    BY <1>7, <2>1, GroupHas DEF GroupForm!CreatesGroup
  <2>3. GroupForm!Request(NoId, {"new"}) \in GroupRequests(n)
    BY <2>2, GroupRequest
  <2>4. /\ Submits(GroupForm!Request(NoId, {"new"})) /\ form'.busy \in BOOLEAN
        /\ (GroupMode(n) = "flag" => ~form.busy /\ form'.busy = TRUE)
        /\ Whole(n) /\ Filled /\ form'.filled = form.filled
    BY <1>7, <2>1
       DEF GroupForm!CreatesGroup, GroupForm!Sends, Submits, Whole, Filled, Shaped, GroupMode
  <2>5. GroupForm!GroupSubmitsShown(GroupForm!Request(NoId, {"new"}))
    BY <1>7, <2>1
       DEF GroupForm!CreatesGroup, GroupForm!Request, GroupForm!GroupSubmitsShown, GroupExtra,
           GroupForm!Named, GroupForm!OpenAs
  <2>6. GroupExtra(form', n)
    BY <2>4 DEF Filled, GroupExtra, GroupForm!TagsOf
  <2> QED
    BY <2>1, <2>3, <2>4, <2>5, <2>6, GroupSends DEF Filled
<1>8. CASE GroupForm!RenamesGroup
  <2>1. n = "groups" /\ GroupPicks(n) = [adding : BOOLEAN] /\ form.pick \in [adding : BOOLEAN]
    BY <1>8 DEF GroupForm!RenamesGroup, GroupForm!OpenAs, GroupPicks
  <2>2. {"edit"} \in SUBSET GroupFields
    BY <1>8, <2>1, GroupHas DEF GroupForm!RenamesGroup
  <2>3. GroupForm!Request(form.shown, {"edit"}) \in GroupRequests(n)
    BY <2>2, GroupRequest
  <2>4. /\ Submits(GroupForm!Request(form.shown, {"edit"})) /\ form'.busy \in BOOLEAN
        /\ (GroupMode(n) = "flag" => ~form.busy /\ form'.busy = TRUE)
        /\ Whole(n) /\ Filled /\ form'.filled = form.filled
    BY <1>8, <2>1
       DEF GroupForm!RenamesGroup, GroupForm!Sends, Submits, Whole, Filled, Shaped, GroupMode
  <2>5. GroupForm!GroupSubmitsShown(GroupForm!Request(form.shown, {"edit"}))
    BY <1>8, <2>1
       DEF GroupForm!RenamesGroup, GroupForm!Request, GroupForm!GroupSubmitsShown, GroupExtra,
           GroupForm!Named, GroupForm!OpenAs
  <2>6. GroupExtra(form', n)
    BY <2>4 DEF Filled, GroupExtra, GroupForm!TagsOf
  <2> QED
    BY <2>1, <2>3, <2>4, <2>5, <2>6, GroupSends DEF Filled
<1>9. CASE GroupForm!DeletesGroup
  <2>1. n = "groups" /\ GroupPicks(n) = [adding : BOOLEAN] /\ form.pick \in [adding : BOOLEAN]
    BY <1>9 DEF GroupForm!DeletesGroup, GroupForm!OpenAs, GroupPicks
  <2>2. PICK o \in Ids : GroupForm!Sends(GroupForm!Request(o, {"delete"}))
    BY <1>9 DEF GroupForm!DeletesGroup
  <2>3. {"delete"} \in SUBSET GroupFields
    BY <2>1, <2>2, GroupHas
  <2>4. GroupForm!Request(o, {"delete"}) \in GroupRequests(n)
    BY <2>3, GroupRequest
  <2>5. /\ Submits(GroupForm!Request(o, {"delete"})) /\ form'.busy \in BOOLEAN
        /\ (GroupMode(n) = "flag" => ~form.busy /\ form'.busy = TRUE)
        /\ Whole(n) /\ Filled /\ form'.filled = form.filled
    BY <2>1, <2>2 DEF GroupForm!Sends, Submits, Whole, Filled, Shaped, GroupMode
  <2>6. GroupForm!GroupSubmitsShown(GroupForm!Request(o, {"delete"}))
    BY <2>1, <2>2
       DEF GroupForm!Request, GroupForm!GroupSubmitsShown, GroupExtra, GroupForm!Named,
           GroupForm!OpenAs
  <2>7. GroupExtra(form', n)
    BY <2>5 DEF Filled, GroupExtra, GroupForm!TagsOf
  <2> QED
    BY <2>1, <2>4, <2>5, <2>6, <2>7, GroupSends DEF Filled
<1>10. ASSUME NEW i \in DOMAIN form.sent, GroupForm!GroupsSettled(i)
      PROVE  GroupGoes(n)
  <2>1. n = "groups" /\ GroupPicks(n) = [adding : BOOLEAN] /\ form.pick \in [adding : BOOLEAN]
    BY <1>10 DEF GroupForm!GroupsSettled, GroupForm!Named, GroupPicks
  <2>2. CASE GroupForm!Settled(form, i)
    <3>1. Whole(n) /\ Replied
      BY <2>1, <2>2
         DEF GroupForm!Settled, GroupForm!Without, Form!Without, Whole, Replied, Shaped
    <3>2. /\ form'.pick \in [adding : BOOLEAN] /\ form'.filled \subseteq GroupFields
          /\ Rows(form'.rules, GroupFields)
      BY <2>1, <2>2, GroupHas DEF GroupForm!Settled, GroupForm!Without, Shaped
    <3>3. GroupExtra(form', n)
      BY <2>1, <2>2 DEF GroupForm!Settled, GroupForm!Without, Shaped, GroupExtra
    <3> QED
      BY <2>1, <3>1, <3>2, <3>3, GroupMoves
  <2>3. CASE Len(form.asked) < MaxAsked /\ GroupForm!Settled([[form EXCEPT !.filled = @ \ {"new"}, !.pick.adding = FALSE]
                        EXCEPT !.asked = Append(@, NoId), !.loading = TRUE], i)
    <3>1. Whole(n) /\ AskedAgain
      BY <2>1, <2>3
         DEF GroupForm!Settled, GroupForm!Without, Form!Without, Whole, AskedAgain, Shaped
    <3>2. /\ form'.pick \in [adding : BOOLEAN] /\ form'.filled \subseteq GroupFields
          /\ Rows(form'.rules, GroupFields)
      BY <2>1, <2>3, GroupHas DEF GroupForm!Settled, GroupForm!Without, Shaped
    <3>3. GroupExtra(form', n)
      BY <2>1, <2>3 DEF GroupForm!Settled, GroupForm!Without, Shaped, GroupExtra
    <3> QED
      BY <2>1, <3>1, <3>2, <3>3, GroupMoves
  <2>4. CASE Len(form.asked) < MaxAsked /\ GroupForm!Settled([[form EXCEPT !.filled = @ \ {"edit"}, !.shown = NoId]
                        EXCEPT !.asked = Append(@, NoId), !.loading = TRUE], i)
    <3>1. Whole(n) /\ AskedAgain
      BY <2>1, <2>4
         DEF GroupForm!Settled, GroupForm!Without, Form!Without, Whole, AskedAgain, Shaped
    <3>2. /\ form'.pick \in [adding : BOOLEAN] /\ form'.filled \subseteq GroupFields
          /\ Rows(form'.rules, GroupFields)
      BY <2>1, <2>4, GroupHas DEF GroupForm!Settled, GroupForm!Without, Shaped
    <3>3. GroupExtra(form', n)
      BY <2>1, <2>4 DEF GroupForm!Settled, GroupForm!Without, Shaped, GroupExtra
    <3> QED
      BY <2>1, <3>1, <3>2, <3>3, GroupMoves
  <2>5. CASE Len(form.asked) < MaxAsked /\ GroupForm!Settled([form EXCEPT !.asked = Append(@, NoId), !.loading = TRUE], i)
    <3>1. Whole(n) /\ AskedAgain
      BY <2>1, <2>5
         DEF GroupForm!Settled, GroupForm!Without, Form!Without, Whole, AskedAgain, Shaped
    <3>2. /\ form'.pick \in [adding : BOOLEAN] /\ form'.filled \subseteq GroupFields
          /\ Rows(form'.rules, GroupFields)
      BY <2>1, <2>5, GroupHas DEF GroupForm!Settled, GroupForm!Without, Shaped
    <3>3. GroupExtra(form', n)
      BY <2>1, <2>5 DEF GroupForm!Settled, GroupForm!Without, Shaped, GroupExtra
    <3> QED
      BY <2>1, <3>1, <3>2, <3>3, GroupMoves
  <2> QED
    BY <1>10, <2>2, <2>3, <2>4, <2>5 DEF GroupForm!GroupsSettled, GroupForm!AfterSuccess
<1>11. CASE GroupForm!MembersOpen
  <2>1. n = "members" /\ GroupPicks(n) = {Form!NoPick} /\ form.pick \in {Form!NoPick}
    BY <1>11 DEF GroupForm!MembersOpen, GroupForm!Named, GroupPicks
  <2>2. Whole(n) /\ Asked
    BY <1>11, <2>1
       DEF GroupForm!MembersOpen, GroupForm!Named, GroupForm!Asks, Whole, Asked, Shaped
  <2>3. /\ form'.pick \in {Form!NoPick} /\ form'.filled \subseteq GroupFields
        /\ Rows(form'.rules, GroupFields)
    BY <1>11, <2>1, GroupHas
       DEF GroupForm!MembersOpen, GroupForm!Named, GroupForm!Asks, Shaped
  <2>4. GroupExtra(form', n)
    BY <1>11, <2>1
       DEF GroupForm!MembersOpen, GroupForm!Named, GroupForm!Asks, Shaped, GroupExtra
  <2> QED
    BY <2>1, <2>2, <2>3, <2>4, GroupMoves
<1>12. ASSUME NEW i \in DOMAIN form.asked, GroupForm!MembersLoaded(i)
      PROVE  GroupGoes(n)
  <2>1. n = "members" /\ GroupPicks(n) = {Form!NoPick} /\ form.pick \in {Form!NoPick}
    BY <1>12 DEF GroupForm!MembersLoaded, GroupForm!Named, GroupPicks
  <2>2. CASE GroupForm!Loaded(form, i)
    <3>1. Whole(n) /\ Heard
      BY <2>1, <2>2
         DEF GroupForm!Loaded, GroupForm!Without, Form!Without, Whole, Heard, Shaped
    <3>2. /\ form'.pick \in {Form!NoPick} /\ form'.filled \subseteq GroupFields
          /\ Rows(form'.rules, GroupFields)
      BY <2>1, <2>2, GroupHas DEF GroupForm!Loaded, GroupForm!Without, Shaped
    <3>3. GroupExtra(form', n)
      BY <2>1, <2>2 DEF GroupForm!Loaded, GroupForm!Without, Shaped, GroupExtra
    <3> QED
      BY <2>1, <3>1, <3>2, <3>3, GroupMoves
  <2>3. CASE GroupForm!Loaded([form EXCEPT !.shown = form.asked[i], !.filled = {"tunnels"}], i)
    <3>1. Whole(n) /\ Heard
      BY <2>1, <2>3
         DEF GroupForm!Loaded, GroupForm!Without, Form!Without, Whole, Heard, Shaped
    <3>2. /\ form'.pick \in {Form!NoPick} /\ form'.filled \subseteq GroupFields
          /\ Rows(form'.rules, GroupFields)
      BY <2>1, <2>3, GroupHas DEF GroupForm!Loaded, GroupForm!Without, Shaped
    <3>3. GroupExtra(form', n)
      BY <2>1, <2>3 DEF GroupForm!Loaded, GroupForm!Without, Shaped, GroupExtra
    <3> QED
      BY <2>1, <3>1, <3>2, <3>3, GroupMoves
  <2> QED
    BY <1>12, <2>2, <2>3 DEF GroupForm!MembersLoaded
<1>13. CASE GroupForm!MembersSelected
  <2>1. n = "members" /\ GroupPicks(n) = {Form!NoPick} /\ form.pick \in {Form!NoPick}
    BY <1>13 DEF GroupForm!MembersSelected, GroupForm!OpenAs, GroupPicks
  <2>2. Whole(n) /\ Still
    BY <1>13, <2>1 DEF GroupForm!MembersSelected, GroupForm!OpenAs, Whole, Still, Shaped
  <2>3. /\ form'.pick \in {Form!NoPick} /\ form'.filled \subseteq GroupFields
        /\ Rows(form'.rules, GroupFields)
    BY <1>13, <2>1, GroupHas DEF GroupForm!MembersSelected, GroupForm!OpenAs, Shaped
  <2>4. GroupExtra(form', n)
    BY <1>13, <2>1 DEF GroupForm!MembersSelected, GroupForm!OpenAs, Shaped, GroupExtra
  <2> QED
    BY <2>1, <2>2, <2>3, <2>4, GroupMoves
<1>14. CASE GroupForm!MembersSubmit
  <2>1. n = "members" /\ GroupPicks(n) = {Form!NoPick} /\ form.pick \in {Form!NoPick}
    BY <1>14 DEF GroupForm!MembersSubmit, GroupForm!OpenAs, GroupPicks
  <2>2. form.filled \in SUBSET GroupFields
    BY <1>14, <2>1, GroupHas DEF GroupForm!MembersSubmit
  <2>3. GroupForm!Request(form.target, form.filled) \in GroupRequests(n)
    BY <2>2, GroupRequest
  <2>4. /\ Submits(GroupForm!Request(form.target, form.filled)) /\ form'.busy \in BOOLEAN
        /\ (GroupMode(n) = "flag" => ~form.busy /\ form'.busy = TRUE)
        /\ Whole(n) /\ Filled /\ form'.filled = form.filled
    BY <1>14, <2>1
       DEF GroupForm!MembersSubmit, GroupForm!Sends, Submits, Whole, Filled, Shaped, GroupMode
  <2>5. GroupForm!GroupSubmitsShown(GroupForm!Request(form.target, form.filled))
    BY <1>14, <2>1
       DEF GroupForm!MembersSubmit, GroupForm!Request, GroupForm!GroupSubmitsShown,
           GroupExtra, GroupForm!Named, GroupForm!OpenAs
  <2>6. GroupExtra(form', n)
    BY <2>4 DEF Filled, GroupExtra, GroupForm!TagsOf
  <2> QED
    BY <2>1, <2>3, <2>4, <2>5, <2>6, GroupSends DEF Filled
<1>15. ASSUME NEW i \in DOMAIN form.sent, GroupForm!MembersSettled(i)
      PROVE  GroupGoes(n)
  <2>1. n = "members" /\ GroupPicks(n) = {Form!NoPick} /\ form.pick \in {Form!NoPick}
    BY <1>15 DEF GroupForm!MembersSettled, GroupForm!Named, GroupPicks
  <2>2. ASSUME NEW o \in BOOLEAN, GroupForm!Answered([form EXCEPT !.open = o], i)
        PROVE  GroupGoes(n)
    <3> DEFINE f == [form EXCEPT !.open = o]
    <3>1. /\ Shaped(f) /\ f.sent = form.sent /\ f.busy = form.busy
          /\ f.name = form.name /\ f.open = o /\ f.target = form.target /\ f.shown = form.shown
          /\ f.pick = form.pick /\ f.filled = form.filled /\ f.rules = form.rules
          /\ f.asked = form.asked /\ f.loading = form.loading
      BY DEF Shaped
    <3> HIDE DEF f
    <3>2. Form!Answered(f, i)
      BY <2>2 DEF f, GroupForm!Answered, GroupForm!Own, GroupForm!Without, Form!Answered,
         Form!Own, Form!Without
    <3>3. /\ Shaped(form') /\ form'.sent = Form!Without(form.sent, i)
          /\ form'.busy \in BOOLEAN /\ (form'.busy => form.busy /\ i # Len(form.sent))
          /\ form'.name = f.name /\ form'.open = f.open
          /\ form'.target = f.target /\ form'.shown = f.shown
          /\ form'.pick = f.pick /\ form'.filled = f.filled /\ form'.rules = f.rules
          /\ form'.asked = f.asked /\ form'.loading = f.loading
      BY <1>15, <3>1, <3>2, LateAnswers DEF GroupFit
    <3>4. Whole(n) /\ Told /\ Filled /\ form'.filled = form.filled
      BY <2>2, <3>1, <3>3 DEF Whole, Told, Filled
    <3>5. GroupExtra(form', n)
      BY <2>1 DEF GroupExtra
    <3> QED
      BY <2>1, <3>4, <3>5, GroupHosts DEF Filled
  <2>3. form = [form EXCEPT !.open = form.open]
    BY DEF Shaped
  <2> QED
    BY <1>15, <2>2, <2>3 DEF GroupForm!MembersSettled
<1>16. CASE GroupForm!MembersClose
  <2>1. n = "members" /\ GroupPicks(n) = {Form!NoPick} /\ form.pick \in {Form!NoPick}
    BY <1>16 DEF GroupForm!MembersClose, GroupForm!OpenAs, GroupPicks
  <2>2. Whole(n) /\ Still
    BY <1>16, <2>1 DEF GroupForm!MembersClose, GroupForm!OpenAs, Whole, Still, Shaped
  <2>3. /\ form'.pick \in {Form!NoPick} /\ form'.filled \subseteq GroupFields
        /\ Rows(form'.rules, GroupFields)
    BY <1>16, <2>1, GroupHas DEF GroupForm!MembersClose, GroupForm!OpenAs, Shaped
  <2>4. GroupExtra(form', n)
    BY <1>16, <2>1 DEF GroupForm!MembersClose, GroupForm!OpenAs, Shaped, GroupExtra
  <2> QED
    BY <2>1, <2>2, <2>3, <2>4, GroupMoves
<1>17. CASE GroupForm!TagsRefresh
  <2>1. n = "tags" /\ TagsReady(form) /\ GroupFit(form, "tags")
    BY <1>17, TagsAtFirst DEF GroupForm!TagsRefresh, GroupForm!Named
  <2>2. PICK o \in BOOLEAN, s \in {{}, GroupForm!Tags} \cup {{t} : t \in GroupForm!Tags} :
           GroupForm!TagsTaken([form EXCEPT !.open = o], s)
    BY <1>17 DEF GroupForm!TagsRefresh
  <2>3. TagsReady([form EXCEPT !.open = o])
    BY <2>1 DEF TagsReady, Shaped
  <2>4. s \in SUBSET GroupForm!Tags
    OBVIOUS
  <2> QED
    BY <2>1, <2>2, <2>3, <2>4, TagsTake
<1>18. CASE GroupForm!TagsEditJson
  <2>1. n = "tags" /\ GroupPicks(n) = TagsPicks /\ form.pick \in TagsPicks
    BY <1>18 DEF GroupForm!TagsEditJson, GroupForm!OpenAs, GroupPicks
  <2>2. PICK j \in (SUBSET GroupForm!Tags) \cup {GroupForm!NoJson} : form' = [form EXCEPT !.pick.json = j]
    BY <1>18 DEF GroupForm!TagsEditJson
  <2>3. /\ Whole(n) /\ Still /\ form'.filled = form.filled /\ form'.rules = form.rules
        /\ form'.pick = [form.pick EXCEPT !.json = j]
    BY <2>1, <2>2 DEF Whole, Still, Shaped
  <2>4. form'.pick \in TagsPicks /\ form'.pick.tab = form.pick.tab
    BY <2>1, <2>3 DEF TagsPicks
  <2>5. form.pick.tab = "json"
    BY <1>18 DEF GroupForm!TagsEditJson
  <2>6. GroupExtra(form', n)
    BY <2>4, <2>5 DEF GroupExtra
  <2> QED
    BY <2>1, <2>3, <2>4, <2>6, GroupMoves
<1>19. CASE GroupForm!TagsToTemplate
  <2>1. n = "tags" /\ TagsReady(form) /\ GroupFit(form, "tags")
    BY <1>19, TagsAtFirst DEF GroupForm!TagsToTemplate, GroupForm!OpenAs
  <2>2. CASE form.pick.json = GroupForm!NoJson
    <3>1. /\ Whole(n) /\ Still /\ form'.filled = form.filled /\ form'.rules = form.rules
          /\ form'.pick = [[form.pick EXCEPT !.tab = "template"] EXCEPT !.error = TRUE]
      BY <1>19, <2>1, <2>2 DEF GroupForm!TagsToTemplate, TagsReady, Whole, Still, Shaped
    <3>2. form'.pick \in TagsPicks /\ form'.pick.error
      BY <2>1, <3>1 DEF TagsReady, TagsPicks
    <3>3. GroupExtra(form', n) /\ GroupPicks(n) = TagsPicks
      BY <2>1, <3>2 DEF GroupExtra, GroupPicks
    <3> QED
      BY <3>1, <3>2, <3>3, GroupMoves
  <2>3. CASE form.pick.json # GroupForm!NoJson
    <3> DEFINE s == form.pick.json
    <3>1. s \in SUBSET GroupForm!Tags
      BY <2>1, <2>3 DEF TagsReady, TagsPicks
    <3>2. PICK e, a \in BOOLEAN :
             form' = [GroupForm!Follows(GroupForm!FieldsFrom(form, s, e, a))
                        EXCEPT !.pick.tab = "template"]
      BY <1>19, <2>3, Zenon DEF GroupForm!TagsToTemplate
    <3> HIDE DEF s
    <3>4. TagsReady(GroupForm!FieldsFrom(form, s, e, a))
      BY <2>1, <3>1, Fielded
    <3> DEFINE f == GroupForm!Follows(GroupForm!FieldsFrom(form, s, e, a))
    <3>5. TagsReady(f) /\ f.pick.json = GroupForm!TagsOf(f)
      BY <3>4, Following
    <3>6. form' = [f EXCEPT !.pick.tab = "template"]
      BY <3>2
    <3> HIDE DEF f
    <3>7. TagsReady(form') /\ form'.pick.json = GroupForm!TagsOf(form')
      BY <3>5, <3>6, Turned
    <3> QED
      BY <2>1, <3>7, TagsGo
  <2> QED
    BY <2>2, <2>3
<1>20. CASE GroupForm!TagsToJson
  <2>1. n = "tags" /\ TagsReady(form) /\ GroupFit(form, "tags")
    BY <1>20, TagsAtFirst DEF GroupForm!TagsToJson, GroupForm!OpenAs
  <2> DEFINE f == GroupForm!Follows(form)
  <2>2. TagsReady(f) /\ f.pick.json = GroupForm!TagsOf(f)
    BY <2>1, Following
  <2>3. form' = [f EXCEPT !.pick.tab = "json"]
    BY <1>20 DEF GroupForm!TagsToJson
  <2> HIDE DEF f
  <2>4. TagsReady(form') /\ form'.pick.json = GroupForm!TagsOf(form')
    BY <2>2, <2>3, Turned
  <2> QED
    BY <2>1, <2>4, TagsGo
<1>21. CASE GroupForm!TagsChoose
  <2>1. n = "tags" /\ TagsReady(form) /\ GroupFit(form, "tags")
    BY <1>21, TagsAtFirst DEF GroupForm!TagsChoose, GroupForm!OpenAs
  <2>2. CASE form' = GroupForm!Follows([form EXCEPT !.pick.endless = ~@,
                        !.filled = IF form.pick.endless THEN @ ELSE @ \ {"end"}])
    <3> DEFINE p == [form.pick EXCEPT !.endless = ~@]
               h == IF form.pick.endless THEN form.filled ELSE form.filled \ {"end"}
    <3>1. p \in TagsPicks /\ h \in SUBSET GroupFields
      BY <2>1 DEF TagsReady, TagsPicks
    <3>2. form' = GroupForm!Follows([form EXCEPT !.pick = p, !.filled = h])
      BY <2>1, <2>2 DEF TagsReady, Shaped
    <3> HIDE DEF p, h
    <3> QED
      BY <2>1, <3>1, <3>2, TagsChanged, TagsFollow
  <2>3. CASE form' = GroupForm!Follows([form EXCEPT !.pick.free = ~@])
    <3> DEFINE p == [form.pick EXCEPT !.free = ~@]
    <3>1. p \in TagsPicks /\ form.filled \in SUBSET GroupFields
      BY <2>1 DEF TagsReady, TagsPicks
    <3>2. form' = GroupForm!Follows([form EXCEPT !.pick = p, !.filled = form.filled])
      BY <2>1, <2>3 DEF TagsReady, Shaped
    <3> HIDE DEF p
    <3> QED
      BY <2>1, <3>1, <3>2, TagsChanged, TagsFollow
  <2> QED
    BY <1>21, <2>2, <2>3 DEF GroupForm!TagsChoose
<1>22. CASE GroupForm!TagsType
  <2>1. n = "tags" /\ TagsReady(form) /\ GroupFit(form, "tags")
    BY <1>22, TagsAtFirst DEF GroupForm!TagsType, GroupForm!OpenAs
  <2>2. PICK h \in GroupForm!Typings(GroupForm!TagsTyped) :
           form' = GroupForm!Follows([form EXCEPT !.filled = h])
    BY <1>22 DEF GroupForm!TagsType
  <2>3. h \in SUBSET (form.filled \cup GroupForm!TagsTyped)
    BY DEF GroupForm!Typings
  <2>4. GroupForm!TagsTyped \subseteq GroupFields
    BY GroupHas DEF GroupForm!TagsTyped
  <2>5. TagsReady([form EXCEPT !.filled = h])
    BY <2>1, <2>3, <2>4 DEF TagsReady, Shaped
  <2> QED
    BY <2>1, <2>2, <2>5, TagsFollow
<1>23. CASE GroupForm!TagsSubmit
  <2>1. n = "tags" /\ GroupPicks(n) = TagsPicks /\ form.pick \in TagsPicks
    BY <1>23 DEF GroupForm!TagsSubmit, GroupForm!OpenAs, GroupPicks
  <2>0. GroupForm!TagsOf(form) \in SUBSET GroupForm!Tags /\ GroupForm!Tags \subseteq GroupFields
    BY TagsAreTags, GroupHas DEF GroupForm!Tags
  <2>2. GroupForm!TagsBody \in SUBSET GroupFields
    BY <1>23, <2>1, GroupHas, <2>0
       DEF GroupForm!TagsSubmit, GroupForm!TagsBody, TagsPicks
  <2>3. GroupForm!Request(NoId, GroupForm!TagsBody) \in GroupRequests(n)
    BY <2>2, GroupRequest
  <2>4. /\ Submits(GroupForm!Request(NoId, GroupForm!TagsBody)) /\ form'.busy \in BOOLEAN
        /\ (GroupMode(n) = "flag" => ~form.busy /\ form'.busy = TRUE)
        /\ Whole(n) /\ Filled /\ form'.filled = form.filled
    BY <1>23, <2>1
       DEF GroupForm!TagsSubmit, GroupForm!Sends, Submits, Whole, Filled, Shaped, GroupMode
  <2>5. GroupForm!GroupSubmitsShown(GroupForm!Request(NoId, GroupForm!TagsBody))
    BY <1>23, <2>1
       DEF GroupForm!TagsSubmit, GroupForm!TagsBody, GroupForm!Request,
           GroupForm!GroupSubmitsShown, GroupExtra, GroupForm!Named, GroupForm!OpenAs
  <2>6. GroupExtra(form', n)
    BY <2>4 DEF Filled, GroupExtra, GroupForm!TagsOf
  <2> QED
    BY <2>1, <2>3, <2>4, <2>5, <2>6, GroupSends DEF Filled
<1>24. ASSUME NEW i \in DOMAIN form.sent, GroupForm!TagsSettled(i)
      PROVE  GroupGoes(n)
  <2>1. n = "tags" /\ GroupPicks(n) = TagsPicks /\ form.pick \in TagsPicks
    BY <1>24 DEF GroupForm!TagsSettled, GroupForm!Named, GroupPicks
  <2>2. Whole(n) /\ Replied
    BY <1>24, <2>1
       DEF GroupForm!TagsSettled, GroupForm!Named, GroupForm!Settled, GroupForm!Without,
           Whole, Replied, Shaped, Form!Without
  <2>3. /\ form'.pick \in TagsPicks /\ form'.filled \subseteq GroupFields
        /\ Rows(form'.rules, GroupFields)
    BY <1>24, <2>1, GroupHas
       DEF GroupForm!TagsSettled, GroupForm!Named, GroupForm!Settled, GroupForm!Without,
           Shaped, TagsPicks
  <2>4. GroupExtra(form', n)
    BY <1>24, <2>1
       DEF GroupForm!TagsSettled, GroupForm!Named, GroupForm!Settled, GroupForm!Without,
           Shaped, GroupExtra, TagsPicks, GroupForm!TagsOf
  <2> QED
    BY <2>1, <2>2, <2>3, <2>4, GroupMoves
<1>25. CASE GroupForm!Closes
  <2>1. Whole(n) /\ Still /\ Filled /\ form'.filled = form.filled
    BY <1>25 DEF GroupForm!Closes, Whole, Still, Filled, Shaped
  <2>2. GroupExtra(form', n)
    BY <2>1 DEF Filled, GroupExtra, GroupForm!TagsOf
  <2> QED
    BY <2>1, <2>2, GroupMoves DEF Filled
<1>26. CASE GroupForm!DrawerCloses
  <2>1. /\ n = "members" /\ GroupPicks(n) = {Form!NoPick}
        /\ form' = Form!Unmounted(GroupForm!MembersStart)
    BY <1>26
       DEF GroupForm!DrawerCloses, GroupForm!Named, GroupPicks, GroupForm!Unmounted, Form!Unmounted
  <2>2. Fresh(GroupForm!MembersStart, "members", Form!NoPick) /\ GroupForm!MembersStart.asked = <<>>
    BY DEF GroupForm!MembersStart, GroupForm!FormOf, GroupForm!NoPick, Form!NoPick, Fresh, Shaped
  <2>3. /\ Gone /\ Whole(n) /\ form'.pick = Form!NoPick /\ form'.filled = {}
        /\ form'.rules = <<>> /\ form'.target = NoId /\ form'.shown = NoId
    BY <2>1, <2>2, Unmounts DEF GroupFit
  <2>4. GroupExtra(form', n) /\ Rows(form'.rules, GroupFields)
    BY <2>1, <2>3, NoRows DEF GroupExtra
  <2> QED
    BY <2>1, <2>3, <2>4, GroupHosts
<1> QED
  BY <1>1, <1>2, <1>3, <1>4, <1>5, <1>6, <1>7, <1>8, <1>9, <1>10, <1>11, <1>12, <1>13, <1>14,
     <1>15, <1>16, <1>17, <1>18, <1>19, <1>20, <1>21, <1>22, <1>23, <1>24, <1>25, <1>26
     DEF GroupForm!GroupFormsNext

LEMMA GroupStarts ==
    ASSUME NEW q, NEW f \in GroupForm!GroupFormsOf(q)
    PROVE  f.name \in GroupForm!GroupFormNames /\ GroupFit(f, f.name)
<1>1. ASSUME f = GroupForm!GroupsStart
      PROVE  GroupFit(f, "groups") /\ f.name = "groups"
  <2> DEFINE p == [adding |-> FALSE]
  <2>1. Fresh(f, "groups", p)
    BY <1>1 DEF GroupForm!GroupsStart, GroupForm!FormOf, Fresh, Shaped
  <2>2. p \in GroupPicks("groups")
    BY DEF GroupPicks
  <2> HIDE DEF p
  <2>3. GroupExtra(f, "groups")
    BY <2>1, <2>2 DEF Fresh, GroupExtra
  <2> QED
    BY <2>1, <2>2, <2>3, Appearance DEF GroupFit, Fresh
<1>2. ASSUME f = GroupForm!MembersStart
      PROVE  GroupFit(f, "members") /\ f.name = "members"
  <2> DEFINE p == [none |-> TRUE]
  <2>1. Fresh(f, "members", p)
    BY <1>2 DEF GroupForm!MembersStart, GroupForm!FormOf, GroupForm!NoPick, Fresh, Shaped
  <2>2. p \in GroupPicks("members")
    BY DEF GroupPicks, Form!NoPick
  <2> HIDE DEF p
  <2>3. GroupExtra(f, "members")
    BY <2>1, <2>2 DEF Fresh, GroupExtra
  <2> QED
    BY <2>1, <2>2, <2>3, Appearance DEF GroupFit, Fresh
<1>3. ASSUME f = GroupForm!TagsStart
      PROVE  GroupFit(f, "tags") /\ f.name = "tags"
  <2> DEFINE p == [tab |-> "json", json |-> {}, error |-> FALSE, endless |-> FALSE,
                    free |-> FALSE]
  <2>1. Fresh(f, "tags", p)
    BY <1>3 DEF GroupForm!TagsStart, GroupForm!FormOf, Fresh, Shaped
  <2>2. p \in GroupPicks("tags")
    BY DEF GroupPicks, TagsPicks
  <2> HIDE DEF p
  <2>3. GroupExtra(f, "tags")
    <3>1. p.tab = "json"
      BY DEF p
    <3> QED
      BY <2>1, <3>1 DEF Fresh, GroupExtra
  <2> QED
    BY <2>1, <2>2, <2>3, Appearance DEF GroupFit, Fresh
<1> QED
  BY <1>1, <1>2, <1>3 DEF GroupForm!GroupFormsOf, GroupForm!GroupFormNames

-----------------------------------------------------------------------------
(* The forms that make services                                            *)

ScenarioPicks == [scenario : ServiceForm!Scenarios, external : BOOLEAN, balance : BOOLEAN]

AssemblePicks == [type : {"0", "1", "2"}, listed : BOOLEAN]

TemplatePicks ==
    [mode : {"single", "double", "intranet"}, listen : {"all", "assign"},
     target : {"external", "local"}, random : BOOLEAN, tls : {"1", "2"}]

ServicePicks(n) ==
    CASE n = "service" -> ScenarioPicks
      [] n = "assemble" -> AssemblePicks
      [] n = "template" -> TemplatePicks
      [] OTHER -> {Form!NoPick}

ServiceFields == ServiceForm!ServiceFields

\* Two endpoints come with what is between them.
ServiceRequests(n) ==
    {r \in Requests(ServiceFields) :
        /\ ServiceForm!ServiceRequired(n) \subseteq r.has
        /\ n = "service" => ("exit" \in r.has <=> "tunnel" \in r.has)
        /\ n = "template" => ("exit" \in r.has <=> "connection" \in r.has)}

\* Further targets are on the screen, and an alias is that of its service.
ServiceExtra(f, n) ==
    /\ n = "service" /\ "extend" \in f.filled => f.pick.balance
    /\ n \in {"service", "assemble", "template"} => f.shown = NoId
    /\ n = "alias" => f.target = f.shown

ServiceFit(f, n) ==
    Fit(f, n, ServiceFields, ServicePicks(n), ServiceRequests(n), "flag") /\ ServiceExtra(f, n)

\* A step keeps the form typed, and submits what is shown.
ServiceGoes(n) == ServiceFit(form', n) /\ (Quiet \/ ServiceForm!ServiceSubmitsShown(Last))

LEMMA ServiceMoves ==
    ASSUME NEW n, ServiceFit(form, n), Whole(n),
           Still \/ Stopped \/ Asked \/ Heard \/ Replied \/ AskedAgain,
           form'.pick \in ServicePicks(n), form'.filled \subseteq ServiceFields,
           Rows(form'.rules, ServiceFields), ServiceExtra(form', n)
    PROVE  ServiceGoes(n)
  BY Steps DEF ServiceFit, ServiceGoes

LEMMA ServiceSends ==
    ASSUME NEW n, ServiceFit(form, n), NEW r \in ServiceRequests(n), Submits(r),
           ~form.busy, form'.busy = TRUE, Whole(n),
           form'.pick \in ServicePicks(n), form'.filled \subseteq ServiceFields,
           Rows(form'.rules, ServiceFields), ServiceExtra(form', n), ServiceForm!ServiceSubmitsShown(r)
    PROVE  ServiceGoes(n)
<1>1. Fit(form', n, ServiceFields, ServicePicks(n), ServiceRequests(n), "flag") /\ Last = r
  BY Submissions DEF ServiceFit
<1> QED
  BY <1>1 DEF ServiceFit, ServiceGoes

LEMMA ServiceTyped ==
    ASSUME NEW n, ServiceFit(form, n), NEW fields \in SUBSET ServiceFields, ServiceForm!Types(fields)
    PROVE  /\ Whole(n) /\ Still /\ Filled
           /\ form'.filled \subseteq form.filled \cup fields /\ form'.filled \subseteq ServiceFields
<1>1. PICK h \in SUBSET (form.filled \cup fields) : form' = [form EXCEPT !.filled = h]
  BY DEF ServiceForm!Types, ServiceForm!Typings
<1> QED
  BY <1>1 DEF ServiceFit, Fit, Shaped, Whole, Still, Filled

LEMMA ServiceHas ==
    {"name", "entry", "exit", "listen", "tunnel", "host", "port", "extend", "balanced", "client",
     "server", "extends", "alias", "user", "address", "connection", "crt"} \subseteq ServiceFields
  BY DEF ServiceFields, ServiceForm!ServiceFields

LEMMA ServiceRequest ==
    ASSUME NEW n, NEW o \in Ids \cup {NoId}, NEW h \in SUBSET ServiceFields,
           ServiceForm!ServiceRequired(n) \subseteq h,
           n = "service" => ("exit" \in h <=> "tunnel" \in h),
           n = "template" => ("exit" \in h <=> "connection" \in h)
    PROVE  ServiceForm!Request(o, h) \in ServiceRequests(n)
  BY EmptySeq DEF ServiceForm!Request, ServiceRequests, Requests

\* Whatever is done in a form, it stays typed and shows what it submits.
LEMMA ServiceFormsStep ==
    ASSUME NEW n \in ServiceForm!ServiceFormNames, ServiceFit(form, n), ServiceForm!ServiceFormsNext
    PROVE  ServiceGoes(n)
<1>n. /\ form.name = n /\ form.pick \in ServicePicks(n) /\ form.filled \subseteq ServiceFields
      /\ form.target \in Ids \cup {NoId} /\ form.shown \in Ids \cup {NoId}
      /\ form.open \in BOOLEAN /\ Rows(form.rules, ServiceFields) /\ Shaped(form) /\ ServiceExtra(form, n)
      /\ \A i \in DOMAIN form.asked : form.asked[i] \in Ids \cup {NoId}
  BY DEF ServiceFit, Fit, Asking
<1> USE <1>n
<1>1. CASE ServiceForm!ServiceOpens
  <2>1. n = "service" /\ ServicePicks(n) = ScenarioPicks /\ form.pick \in ScenarioPicks
    BY <1>1 DEF ServiceForm!ServiceOpens, ServiceForm!Named, ServicePicks
  <2>2. Whole(n) /\ Asked
    BY <1>1, <2>1
       DEF ServiceForm!ServiceOpens, ServiceForm!Named, ServiceForm!Asks, Whole, Asked, Shaped
  <2>3. /\ form'.pick \in ScenarioPicks /\ form'.filled \subseteq ServiceFields
        /\ Rows(form'.rules, ServiceFields)
    BY <1>1, <2>1, ServiceHas
       DEF ServiceForm!ServiceOpens, ServiceForm!Named, ServiceForm!Asks, Shaped,
           ScenarioPicks
  <2>4. ServiceExtra(form', n)
    BY <1>1, <2>1
       DEF ServiceForm!ServiceOpens, ServiceForm!Named, ServiceForm!Asks, Shaped,
           ServiceExtra, ScenarioPicks
  <2> QED
    BY <2>1, <2>2, <2>3, <2>4, ServiceMoves
<1>2. ASSUME NEW i \in DOMAIN form.asked, ServiceForm!ServiceLoaded(i)
      PROVE  ServiceGoes(n)
  <2>1. n = "service" /\ ServicePicks(n) = ScenarioPicks /\ form.pick \in ScenarioPicks
    BY <1>2 DEF ServiceForm!ServiceLoaded, ServiceForm!Named, ServicePicks
  <2>2. Whole(n) /\ Heard
    BY <1>2, <2>1
       DEF ServiceForm!ServiceLoaded, ServiceForm!Named, ServiceForm!Loaded,
           ServiceForm!Without, Whole, Heard, Shaped, Form!Without
  <2>3. /\ form'.pick \in ScenarioPicks /\ form'.filled \subseteq ServiceFields
        /\ Rows(form'.rules, ServiceFields)
    BY <1>2, <2>1, ServiceHas
       DEF ServiceForm!ServiceLoaded, ServiceForm!Named, ServiceForm!Loaded,
           ServiceForm!Without, Shaped, ScenarioPicks
  <2>4. ServiceExtra(form', n)
    BY <1>2, <2>1
       DEF ServiceForm!ServiceLoaded, ServiceForm!Named, ServiceForm!Loaded,
           ServiceForm!Without, Shaped, ServiceExtra, ScenarioPicks
  <2> QED
    BY <2>1, <2>2, <2>3, <2>4, ServiceMoves
<1>3. CASE ServiceForm!ServicePicksTarget
  <2>1. n = "service" /\ ServicePicks(n) = ScenarioPicks /\ form.pick \in ScenarioPicks
    BY <1>3 DEF ServiceForm!ServicePicksTarget, ServiceForm!OpenAs, ServicePicks
  <2>2. Whole(n) /\ Still /\ form'.shown = form.shown /\ form'.rules = form.rules
    BY <1>3, <2>1 DEF ServiceForm!ServicePicksTarget, Whole, Still, Shaped
  <2>3. form'.pick = [form.pick EXCEPT !.external = ~@]
        /\ form'.filled = form.filled
    BY <1>3, <2>1 DEF ServiceForm!ServicePicksTarget, Shaped
  <2>4. form'.pick \in ScenarioPicks /\ form'.filled \subseteq ServiceFields
    BY <2>1, <2>3 DEF ScenarioPicks
  <2>5. ServiceExtra(form', n)
    BY <2>1, <2>2, <2>3 DEF ServiceExtra, ScenarioPicks
  <2> QED
    BY <2>1, <2>2, <2>4, <2>5, ServiceMoves
<1>4. CASE ServiceForm!ServiceBalances
  <2>1. n = "service" /\ ServicePicks(n) = ScenarioPicks /\ form.pick \in ScenarioPicks
    BY <1>4 DEF ServiceForm!ServiceBalances, ServiceForm!OpenAs, ServicePicks
  <2>2. Whole(n) /\ Still /\ form'.shown = form.shown /\ form'.rules = form.rules
    BY <1>4, <2>1 DEF ServiceForm!ServiceBalances, Whole, Still, Shaped
  <2>3. form'.pick = [form.pick EXCEPT !.balance = ~@]
        /\ form'.filled = IF form.pick.balance THEN form.filled \ {"extend"} ELSE form.filled
    BY <1>4, <2>1 DEF ServiceForm!ServiceBalances, Shaped
  <2>4. form'.pick \in ScenarioPicks /\ form'.filled \subseteq ServiceFields
    BY <2>1, <2>3 DEF ScenarioPicks
  <2>5. ServiceExtra(form', n)
    BY <2>1, <2>2, <2>3 DEF ServiceExtra, ScenarioPicks
  <2> QED
    BY <2>1, <2>2, <2>4, <2>5, ServiceMoves
<1>5. CASE ServiceForm!ServiceTypes
  <2>1. n = "service" /\ ServicePicks(n) = ScenarioPicks /\ form.pick \in ScenarioPicks
    BY <1>5 DEF ServiceForm!ServiceTypes, ServiceForm!OpenAs, ServicePicks
  <2>2. (ServiceForm!ServiceNeeds \cup ServiceForm!ServiceHost \cup ServiceForm!ServiceExtend) \in SUBSET ServiceFields
    BY ServiceHas
       DEF ServiceForm!ServiceNeeds, ServiceForm!SingleNeeds, ServiceForm!TunnelNeeds,
           ServiceForm!NatNeeds, ServiceForm!ServiceHost, ServiceForm!ServiceExtend
  <2>3. /\ Whole(n) /\ Still /\ Filled
        /\ form'.filled \subseteq form.filled \cup (ServiceForm!ServiceNeeds \cup ServiceForm!ServiceHost \cup ServiceForm!ServiceExtend)
        /\ form'.filled \subseteq ServiceFields
    BY <1>5, <2>2, ServiceTyped DEF ServiceForm!ServiceTypes
  <2>4. ServiceExtra(form', n)
    BY <2>1, <2>3
       DEF Filled, ServiceExtra, ScenarioPicks, ServiceForm!ServiceNeeds,
           ServiceForm!SingleNeeds, ServiceForm!TunnelNeeds, ServiceForm!NatNeeds,
           ServiceForm!ServiceHost, ServiceForm!ServiceExtend
  <2> QED
    BY <2>1, <2>3, <2>4, ServiceMoves DEF Filled
<1>6. CASE ServiceForm!ServiceSubmits
  <2>1. n = "service" /\ ServicePicks(n) = ScenarioPicks /\ form.pick \in ScenarioPicks
    BY <1>6 DEF ServiceForm!ServiceSubmits, ServiceForm!OpenAs, ServicePicks
  <2>2. ServiceForm!ServiceBody \in SUBSET ServiceFields
    BY <2>1, ServiceHas
       DEF ServiceForm!ServiceBody, ServiceForm!ServiceHost, ServiceForm!ServiceNeeds,
           ServiceForm!SingleNeeds, ServiceForm!TunnelNeeds, ServiceForm!NatNeeds
  <2>3. /\ ServiceForm!ServiceRequired(n) \subseteq ServiceForm!ServiceBody
        /\ n = "service" => ("exit" \in ServiceForm!ServiceBody <=> "tunnel" \in ServiceForm!ServiceBody)
        /\ n = "template" => ("exit" \in ServiceForm!ServiceBody <=> "connection" \in ServiceForm!ServiceBody)
    BY <1>6, <2>1
       DEF ServiceForm!ServiceSubmits, ServiceForm!ServiceRequired, ServiceForm!ServiceBody,
           ServiceForm!ServiceHost, ServiceForm!ServiceNeeds, ServiceForm!SingleNeeds,
           ServiceForm!TunnelNeeds, ServiceForm!NatNeeds, ServiceForm!ServiceValid
  <2>4. ServiceForm!Request(NoId, ServiceForm!ServiceBody) \in ServiceRequests(n)
    BY <2>2, <2>3, ServiceRequest
  <2>5. /\ Submits(ServiceForm!Request(NoId, ServiceForm!ServiceBody)) /\ ~form.busy /\ form'.busy = TRUE
        /\ Whole(n) /\ Filled /\ form'.filled = form.filled
    BY <1>6, <2>1
       DEF ServiceForm!ServiceSubmits, ServiceForm!Sends, Submits, Whole, Filled, Shaped
  <2>6. ServiceForm!ServiceSubmitsShown(ServiceForm!Request(NoId, ServiceForm!ServiceBody))
    BY <1>6, <2>1
       DEF ServiceForm!ServiceSubmits, ServiceForm!Request, ServiceForm!ServiceSubmitsShown,
           ServiceExtra, ServiceForm!ServiceBody, ServiceForm!ServiceHost,
           ServiceForm!ServiceNeeds, ServiceForm!SingleNeeds, ServiceForm!TunnelNeeds,
           ServiceForm!NatNeeds, ServiceForm!ServiceValid, ServiceForm!Named,
           ServiceForm!ServicePreview, ServiceForm!ServiceTitle
  <2>7. ServiceExtra(form', n)
    BY <2>5 DEF Filled, ServiceExtra
  <2> QED
    BY <2>1, <2>4, <2>5, <2>6, <2>7, ServiceSends DEF Filled
<1>7. ASSUME NEW i \in DOMAIN form.sent, ServiceForm!ServiceSettled(i)
      PROVE  ServiceGoes(n)
  <2>1. n = "service" /\ ServicePicks(n) = ScenarioPicks /\ form.pick \in ScenarioPicks
    BY <1>7 DEF ServiceForm!ServiceSettled, ServiceForm!Named, ServicePicks
  <2>2. Whole(n) /\ Replied
    BY <1>7, <2>1
       DEF ServiceForm!ServiceSettled, ServiceForm!Named, ServiceForm!Settled,
           ServiceForm!Without, Whole, Replied, Shaped, Form!Without
  <2>3. /\ form'.pick \in ScenarioPicks /\ form'.filled \subseteq ServiceFields
        /\ Rows(form'.rules, ServiceFields)
    BY <1>7, <2>1, ServiceHas
       DEF ServiceForm!ServiceSettled, ServiceForm!Named, ServiceForm!Settled,
           ServiceForm!Without, Shaped, ScenarioPicks
  <2>4. ServiceExtra(form', n)
    BY <1>7, <2>1
       DEF ServiceForm!ServiceSettled, ServiceForm!Named, ServiceForm!Settled,
           ServiceForm!Without, Shaped, ServiceExtra, ScenarioPicks
  <2> QED
    BY <2>1, <2>2, <2>3, <2>4, ServiceMoves
<1>8. CASE ServiceForm!AssembleOpens
  <2>1. n = "assemble" /\ ServicePicks(n) = AssemblePicks /\ form.pick \in AssemblePicks
    BY <1>8 DEF ServiceForm!AssembleOpens, ServiceForm!Named, ServicePicks
  <2>2. Whole(n) /\ Asked
    BY <1>8, <2>1
       DEF ServiceForm!AssembleOpens, ServiceForm!Named, ServiceForm!Asks, Whole, Asked,
           Shaped
  <2>3. /\ form'.pick \in AssemblePicks /\ form'.filled \subseteq ServiceFields
        /\ Rows(form'.rules, ServiceFields)
    BY <1>8, <2>1, ServiceHas
       DEF ServiceForm!AssembleOpens, ServiceForm!Named, ServiceForm!Asks, Shaped,
           AssemblePicks
  <2>4. ServiceExtra(form', n)
    BY <1>8, <2>1
       DEF ServiceForm!AssembleOpens, ServiceForm!Named, ServiceForm!Asks, Shaped,
           ServiceExtra, AssemblePicks
  <2> QED
    BY <2>1, <2>2, <2>3, <2>4, ServiceMoves
<1>9. ASSUME NEW i \in DOMAIN form.asked, ServiceForm!AssembleLoaded(i)
      PROVE  ServiceGoes(n)
  <2>1. n = "assemble" /\ ServicePicks(n) = AssemblePicks /\ form.pick \in AssemblePicks
    BY <1>9 DEF ServiceForm!AssembleLoaded, ServiceForm!Named, ServicePicks
  <2>2. Whole(n) /\ Heard
    BY <1>9, <2>1
       DEF ServiceForm!AssembleLoaded, ServiceForm!Named, ServiceForm!Loaded,
           ServiceForm!Without, Whole, Heard, Shaped, Form!Without
  <2>3. /\ form'.pick \in AssemblePicks /\ form'.filled \subseteq ServiceFields
        /\ Rows(form'.rules, ServiceFields)
    BY <1>9, <2>1, ServiceHas
       DEF ServiceForm!AssembleLoaded, ServiceForm!Named, ServiceForm!Loaded,
           ServiceForm!Without, Shaped, AssemblePicks
  <2>4. ServiceExtra(form', n)
    BY <1>9, <2>1
       DEF ServiceForm!AssembleLoaded, ServiceForm!Named, ServiceForm!Loaded,
           ServiceForm!Without, Shaped, ServiceExtra, AssemblePicks
  <2> QED
    BY <2>1, <2>2, <2>3, <2>4, ServiceMoves
<1>10. CASE ServiceForm!AssemblePicksType
  <2>1. n = "assemble" /\ ServicePicks(n) = AssemblePicks /\ form.pick \in AssemblePicks
    BY <1>10 DEF ServiceForm!AssemblePicksType, ServiceForm!OpenAs, ServicePicks
  <2>2. Whole(n) /\ Still
    BY <1>10, <2>1
       DEF ServiceForm!AssemblePicksType, ServiceForm!OpenAs, Whole, Still, Shaped
  <2>3. /\ form'.pick \in AssemblePicks /\ form'.filled \subseteq ServiceFields
        /\ Rows(form'.rules, ServiceFields)
    BY <1>10, <2>1, ServiceHas
       DEF ServiceForm!AssemblePicksType, ServiceForm!OpenAs, Shaped, AssemblePicks
  <2>4. ServiceExtra(form', n)
    BY <1>10, <2>1
       DEF ServiceForm!AssemblePicksType, ServiceForm!OpenAs, Shaped, ServiceExtra,
           AssemblePicks
  <2> QED
    BY <2>1, <2>2, <2>3, <2>4, ServiceMoves
<1>11. CASE ServiceForm!AssembleTypes
  <2>1. n = "assemble" /\ ServicePicks(n) = AssemblePicks /\ form.pick \in AssemblePicks
    BY <1>11 DEF ServiceForm!AssembleTypes, ServiceForm!OpenAs, ServicePicks
  <2>2. Whole(n) /\ Still
    BY <1>11, <2>1
       DEF ServiceForm!AssembleTypes, ServiceForm!OpenAs, Whole, Still, Shaped
  <2>3. /\ form'.pick \in AssemblePicks /\ form'.filled \subseteq ServiceFields
        /\ Rows(form'.rules, ServiceFields)
    BY <1>11, <2>1, ServiceHas
       DEF ServiceForm!AssembleTypes, ServiceForm!OpenAs, Shaped, AssemblePicks
  <2>4. ServiceExtra(form', n)
    BY <1>11, <2>1
       DEF ServiceForm!AssembleTypes, ServiceForm!OpenAs, Shaped, ServiceExtra, AssemblePicks
  <2> QED
    BY <2>1, <2>2, <2>3, <2>4, ServiceMoves
<1>12. CASE ServiceForm!AssembleChooses
  <2>1. n = "assemble" /\ ServicePicks(n) = AssemblePicks /\ form.pick \in AssemblePicks
    BY <1>12 DEF ServiceForm!AssembleChooses, ServiceForm!OpenAs, ServicePicks
  <2>2. Whole(n) /\ Still
    BY <1>12, <2>1
       DEF ServiceForm!AssembleChooses, ServiceForm!OpenAs, Whole, Still, Shaped
  <2>3. /\ form'.pick \in AssemblePicks /\ form'.filled \subseteq ServiceFields
        /\ Rows(form'.rules, ServiceFields)
    BY <1>12, <2>1, ServiceHas
       DEF ServiceForm!AssembleChooses, ServiceForm!OpenAs, Shaped, AssemblePicks
  <2>4. ServiceExtra(form', n)
    BY <1>12, <2>1
       DEF ServiceForm!AssembleChooses, ServiceForm!OpenAs, Shaped, ServiceExtra,
           AssemblePicks
  <2> QED
    BY <2>1, <2>2, <2>3, <2>4, ServiceMoves
<1>13. CASE ServiceForm!AssembleSubmits
  <2>1. n = "assemble" /\ ServicePicks(n) = AssemblePicks /\ form.pick \in AssemblePicks
    BY <1>13 DEF ServiceForm!AssembleSubmits, ServiceForm!OpenAs, ServicePicks
  <2>2. ServiceForm!AssembleBody \in SUBSET ServiceFields
    BY <2>1, ServiceHas DEF ServiceForm!AssembleBody, ServiceForm!FinalType
  <2>3. /\ ServiceForm!ServiceRequired(n) \subseteq ServiceForm!AssembleBody
        /\ n = "service" => ("exit" \in ServiceForm!AssembleBody <=> "tunnel" \in ServiceForm!AssembleBody)
        /\ n = "template" => ("exit" \in ServiceForm!AssembleBody <=> "connection" \in ServiceForm!AssembleBody)
    BY <1>13, <2>1
       DEF ServiceForm!AssembleSubmits, ServiceForm!ServiceRequired, ServiceForm!AssembleBody,
           ServiceForm!FinalType, ServiceForm!AssembleValid
  <2>4. ServiceForm!Request(NoId, ServiceForm!AssembleBody) \in ServiceRequests(n)
    BY <2>2, <2>3, ServiceRequest
  <2>5. /\ Submits(ServiceForm!Request(NoId, ServiceForm!AssembleBody)) /\ ~form.busy /\ form'.busy = TRUE
        /\ Whole(n) /\ Filled /\ form'.filled = form.filled
    BY <1>13, <2>1
       DEF ServiceForm!AssembleSubmits, ServiceForm!Sends, Submits, Whole, Filled, Shaped
  <2>6. ServiceForm!ServiceSubmitsShown(ServiceForm!Request(NoId, ServiceForm!AssembleBody))
    BY <1>13, <2>1
       DEF ServiceForm!AssembleSubmits, ServiceForm!Request, ServiceForm!ServiceSubmitsShown,
           ServiceExtra, ServiceForm!AssembleBody, ServiceForm!FinalType,
           ServiceForm!AssembleValid, ServiceForm!Named
  <2>7. ServiceExtra(form', n)
    BY <2>5 DEF Filled, ServiceExtra
  <2> QED
    BY <2>1, <2>4, <2>5, <2>6, <2>7, ServiceSends DEF Filled
<1>14. ASSUME NEW i \in DOMAIN form.sent, ServiceForm!AssembleSettled(i)
      PROVE  ServiceGoes(n)
  <2>1. n = "assemble" /\ ServicePicks(n) = AssemblePicks /\ form.pick \in AssemblePicks
    BY <1>14 DEF ServiceForm!AssembleSettled, ServiceForm!Named, ServicePicks
  <2>2. Whole(n) /\ Replied
    BY <1>14, <2>1
       DEF ServiceForm!AssembleSettled, ServiceForm!Named, ServiceForm!Settled,
           ServiceForm!Without, Whole, Replied, Shaped, Form!Without
  <2>3. /\ form'.pick \in AssemblePicks /\ form'.filled \subseteq ServiceFields
        /\ Rows(form'.rules, ServiceFields)
    BY <1>14, <2>1, ServiceHas
       DEF ServiceForm!AssembleSettled, ServiceForm!Named, ServiceForm!Settled,
           ServiceForm!Without, Shaped, AssemblePicks
  <2>4. ServiceExtra(form', n)
    BY <1>14, <2>1
       DEF ServiceForm!AssembleSettled, ServiceForm!Named, ServiceForm!Settled,
           ServiceForm!Without, Shaped, ServiceExtra, AssemblePicks
  <2> QED
    BY <2>1, <2>2, <2>3, <2>4, ServiceMoves
<1>15. CASE ServiceForm!AliasOpens
  <2>1. n = "alias" /\ ServicePicks(n) = {Form!NoPick} /\ form.pick \in {Form!NoPick}
    BY <1>15 DEF ServiceForm!AliasOpens, ServiceForm!Named, ServicePicks
  <2>2. Whole(n) /\ Still
    BY <1>15, <2>1 DEF ServiceForm!AliasOpens, ServiceForm!Named, Whole, Still, Shaped
  <2>3. /\ form'.pick \in {Form!NoPick} /\ form'.filled \subseteq ServiceFields
        /\ Rows(form'.rules, ServiceFields)
    BY <1>15, <2>1, ServiceHas DEF ServiceForm!AliasOpens, ServiceForm!Named, Shaped
  <2>4. ServiceExtra(form', n)
    BY <1>15, <2>1 DEF ServiceForm!AliasOpens, ServiceForm!Named, Shaped, ServiceExtra
  <2> QED
    BY <2>1, <2>2, <2>3, <2>4, ServiceMoves
<1>16. CASE ServiceForm!AliasTypes
  <2>1. n = "alias" /\ ServicePicks(n) = {Form!NoPick} /\ form.pick \in {Form!NoPick}
    BY <1>16 DEF ServiceForm!AliasTypes, ServiceForm!OpenAs, ServicePicks
  <2>2. {"alias"} \in SUBSET ServiceFields
    BY ServiceHas
  <2>3. /\ Whole(n) /\ Still /\ Filled
        /\ form'.filled \subseteq form.filled \cup {"alias"}
        /\ form'.filled \subseteq ServiceFields
    BY <1>16, <2>2, ServiceTyped DEF ServiceForm!AliasTypes
  <2>4. ServiceExtra(form', n)
    BY <2>1, <2>3 DEF Filled, ServiceExtra
  <2> QED
    BY <2>1, <2>3, <2>4, ServiceMoves DEF Filled
<1>17. CASE ServiceForm!AliasSubmits
  <2>1. n = "alias" /\ ServicePicks(n) = {Form!NoPick} /\ form.pick \in {Form!NoPick}
    BY <1>17 DEF ServiceForm!AliasSubmits, ServiceForm!OpenAs, ServicePicks
  <2>2. {"alias"} \in SUBSET ServiceFields
    BY <2>1, ServiceHas
  <2>3. /\ ServiceForm!ServiceRequired(n) \subseteq {"alias"}
        /\ n = "service" => ("exit" \in {"alias"} <=> "tunnel" \in {"alias"})
        /\ n = "template" => ("exit" \in {"alias"} <=> "connection" \in {"alias"})
    BY <1>17, <2>1 DEF ServiceForm!AliasSubmits, ServiceForm!ServiceRequired
  <2>4. ServiceForm!Request(form.target, {"alias"}) \in ServiceRequests(n)
    BY <2>2, <2>3, ServiceRequest
  <2>5. /\ Submits(ServiceForm!Request(form.target, {"alias"})) /\ ~form.busy /\ form'.busy = TRUE
        /\ Whole(n) /\ Filled /\ form'.filled = form.filled
    BY <1>17, <2>1
       DEF ServiceForm!AliasSubmits, ServiceForm!Sends, Submits, Whole, Filled, Shaped
  <2>6. ServiceForm!ServiceSubmitsShown(ServiceForm!Request(form.target, {"alias"}))
    BY <1>17, <2>1
       DEF ServiceForm!AliasSubmits, ServiceForm!Request, ServiceForm!ServiceSubmitsShown,
           ServiceExtra, ServiceForm!Named
  <2>7. ServiceExtra(form', n)
    BY <2>5 DEF Filled, ServiceExtra
  <2> QED
    BY <2>1, <2>4, <2>5, <2>6, <2>7, ServiceSends DEF Filled
<1>18. ASSUME NEW i \in DOMAIN form.sent, ServiceForm!AliasSettled(i)
      PROVE  ServiceGoes(n)
  <2>1. n = "alias" /\ ServicePicks(n) = {Form!NoPick} /\ form.pick \in {Form!NoPick}
    BY <1>18 DEF ServiceForm!AliasSettled, ServiceForm!Named, ServicePicks
  <2>2. Whole(n) /\ Replied
    BY <1>18, <2>1
       DEF ServiceForm!AliasSettled, ServiceForm!Named, ServiceForm!Settled,
           ServiceForm!Without, Whole, Replied, Shaped, Form!Without
  <2>3. /\ form'.pick \in {Form!NoPick} /\ form'.filled \subseteq ServiceFields
        /\ Rows(form'.rules, ServiceFields)
    BY <1>18, <2>1, ServiceHas
       DEF ServiceForm!AliasSettled, ServiceForm!Named, ServiceForm!Settled,
           ServiceForm!Without, Shaped
  <2>4. ServiceExtra(form', n)
    BY <1>18, <2>1
       DEF ServiceForm!AliasSettled, ServiceForm!Named, ServiceForm!Settled,
           ServiceForm!Without, Shaped, ServiceExtra
  <2> QED
    BY <2>1, <2>2, <2>3, <2>4, ServiceMoves
<1>19. ASSUME NEW i \in DOMAIN form.asked, ServiceForm!TemplateLoaded(i)
      PROVE  ServiceGoes(n)
  <2>1. n = "template" /\ ServicePicks(n) = TemplatePicks /\ form.pick \in TemplatePicks
    BY <1>19 DEF ServiceForm!TemplateLoaded, ServiceForm!Named, ServicePicks
  <2>2. Whole(n) /\ Heard
    BY <1>19, <2>1
       DEF ServiceForm!TemplateLoaded, ServiceForm!Named, ServiceForm!Loaded,
           ServiceForm!Without, Whole, Heard, Shaped, Form!Without
  <2>3. /\ form'.pick \in TemplatePicks /\ form'.filled \subseteq ServiceFields
        /\ Rows(form'.rules, ServiceFields)
    BY <1>19, <2>1, ServiceHas
       DEF ServiceForm!TemplateLoaded, ServiceForm!Named, ServiceForm!Loaded,
           ServiceForm!Without, Shaped, TemplatePicks
  <2>4. ServiceExtra(form', n)
    BY <1>19, <2>1
       DEF ServiceForm!TemplateLoaded, ServiceForm!Named, ServiceForm!Loaded,
           ServiceForm!Without, Shaped, ServiceExtra, TemplatePicks
  <2> QED
    BY <2>1, <2>2, <2>3, <2>4, ServiceMoves
<1>20. CASE ServiceForm!TemplateMode
  <2>1. n = "template" /\ ServicePicks(n) = TemplatePicks /\ form.pick \in TemplatePicks
    BY <1>20 DEF ServiceForm!TemplateMode, ServiceForm!Named, ServicePicks
  <2>2. Whole(n) /\ Still
    BY <1>20, <2>1 DEF ServiceForm!TemplateMode, ServiceForm!Named, Whole, Still, Shaped
  <2>3. /\ form'.pick \in TemplatePicks /\ form'.filled \subseteq ServiceFields
        /\ Rows(form'.rules, ServiceFields)
    BY <1>20, <2>1, ServiceHas
       DEF ServiceForm!TemplateMode, ServiceForm!Named, Shaped, TemplatePicks,
           ServiceForm!TemplatePick, ServiceForm!TemplateBlank
  <2>4. ServiceExtra(form', n)
    BY <1>20, <2>1
       DEF ServiceForm!TemplateMode, ServiceForm!Named, Shaped, ServiceExtra, TemplatePicks
  <2> QED
    BY <2>1, <2>2, <2>3, <2>4, ServiceMoves
<1>21. CASE ServiceForm!TemplatePolicy
  <2>1. n = "template" /\ ServicePicks(n) = TemplatePicks /\ form.pick \in TemplatePicks
    BY <1>21 DEF ServiceForm!TemplatePolicy, ServiceForm!Named, ServicePicks
  <2>2. ASSUME NEW l \in {"all", "assign"}, form' = [form EXCEPT !.pick.listen = l, !.filled = @ \ {"address"}]
       PROVE  ServiceGoes(n)
    <3>1. Whole(n) /\ Still
      BY <2>1, <2>2 DEF Whole, Still, Shaped
    <3>2. /\ form'.pick \in TemplatePicks /\ form'.filled \subseteq ServiceFields
          /\ Rows(form'.rules, ServiceFields)
      BY <2>1, <2>2, ServiceHas DEF Shaped, TemplatePicks
    <3>3. ServiceExtra(form', n)
      BY <2>1, <2>2 DEF Shaped, ServiceExtra, TemplatePicks
    <3> QED
      BY <2>1, <3>1, <3>2, <3>3, ServiceMoves
  <2>3. ASSUME NEW g \in {"external", "local"}, form' = [form EXCEPT !.pick.target = g, !.filled = @ \ {"host"}]
       PROVE  ServiceGoes(n)
    <3>1. Whole(n) /\ Still
      BY <2>1, <2>3 DEF Whole, Still, Shaped
    <3>2. /\ form'.pick \in TemplatePicks /\ form'.filled \subseteq ServiceFields
          /\ Rows(form'.rules, ServiceFields)
      BY <2>1, <2>3, ServiceHas DEF Shaped, TemplatePicks
    <3>3. ServiceExtra(form', n)
      BY <2>1, <2>3 DEF Shaped, ServiceExtra, TemplatePicks
    <3> QED
      BY <2>1, <3>1, <3>2, <3>3, ServiceMoves
  <2> QED
    BY <1>21, <2>2, <2>3 DEF ServiceForm!TemplatePolicy
<1>22. CASE ServiceForm!TemplatePort
  <2>1. n = "template" /\ ServicePicks(n) = TemplatePicks /\ form.pick \in TemplatePicks
    BY <1>22 DEF ServiceForm!TemplatePort, ServiceForm!Named, ServicePicks
  <2>2. Whole(n) /\ Still
    BY <1>22, <2>1 DEF ServiceForm!TemplatePort, ServiceForm!Named, Whole, Still, Shaped
  <2>3. /\ form'.pick \in TemplatePicks /\ form'.filled \subseteq ServiceFields
        /\ Rows(form'.rules, ServiceFields)
    BY <1>22, <2>1, ServiceHas
       DEF ServiceForm!TemplatePort, ServiceForm!Named, Shaped, TemplatePicks
  <2>4. ServiceExtra(form', n)
    BY <1>22, <2>1
       DEF ServiceForm!TemplatePort, ServiceForm!Named, Shaped, ServiceExtra, TemplatePicks
  <2> QED
    BY <2>1, <2>2, <2>3, <2>4, ServiceMoves
<1>23. CASE ServiceForm!TemplateTls
  <2>1. n = "template" /\ ServicePicks(n) = TemplatePicks /\ form.pick \in TemplatePicks
    BY <1>23 DEF ServiceForm!TemplateTls, ServiceForm!Named, ServicePicks
  <2>2. Whole(n) /\ Still
    BY <1>23, <2>1 DEF ServiceForm!TemplateTls, ServiceForm!Named, Whole, Still, Shaped
  <2>3. /\ form'.pick \in TemplatePicks /\ form'.filled \subseteq ServiceFields
        /\ Rows(form'.rules, ServiceFields)
    BY <1>23, <2>1, ServiceHas
       DEF ServiceForm!TemplateTls, ServiceForm!Named, Shaped, TemplatePicks
  <2>4. ServiceExtra(form', n)
    BY <1>23, <2>1
       DEF ServiceForm!TemplateTls, ServiceForm!Named, Shaped, ServiceExtra, TemplatePicks
  <2> QED
    BY <2>1, <2>2, <2>3, <2>4, ServiceMoves
<1>24. CASE ServiceForm!TemplateTypes
  <2>1. n = "template" /\ ServicePicks(n) = TemplatePicks /\ form.pick \in TemplatePicks
    BY <1>24 DEF ServiceForm!TemplateTypes, ServiceForm!Named, ServicePicks
  <2>2. (ServiceForm!TemplateNodes \cup ServiceForm!BetweenNodes) \in SUBSET ServiceFields
    BY ServiceHas
       DEF ServiceForm!Policies, ServiceForm!SingleNodes, ServiceForm!DoubleNodes,
           ServiceForm!IntranetNodes, ServiceForm!TemplateNodes, ServiceForm!BetweenNodes
  <2>3. /\ Whole(n) /\ Still /\ Filled
        /\ form'.filled \subseteq form.filled \cup (ServiceForm!TemplateNodes \cup ServiceForm!BetweenNodes)
        /\ form'.filled \subseteq ServiceFields
    BY <1>24, <2>2, ServiceTyped DEF ServiceForm!TemplateTypes
  <2>4. ServiceExtra(form', n)
    BY <2>1, <2>3 DEF Filled, ServiceExtra, TemplatePicks
  <2> QED
    BY <2>1, <2>3, <2>4, ServiceMoves DEF Filled
<1>25. CASE ServiceForm!TemplateSubmits
  <2>1. n = "template" /\ ServicePicks(n) = TemplatePicks /\ form.pick \in TemplatePicks
    BY <1>25 DEF ServiceForm!TemplateSubmits, ServiceForm!Named, ServicePicks
  <2>2. ServiceForm!TemplateBody \in SUBSET ServiceFields
    BY <2>1, ServiceHas
       DEF ServiceForm!TemplateBody, ServiceForm!Policies, ServiceForm!SingleNodes,
           ServiceForm!DoubleNodes, ServiceForm!IntranetNodes, ServiceForm!TemplateNodes
  <2>3. /\ ServiceForm!ServiceRequired(n) \subseteq ServiceForm!TemplateBody
        /\ n = "service" => ("exit" \in ServiceForm!TemplateBody <=> "tunnel" \in ServiceForm!TemplateBody)
        /\ n = "template" => ("exit" \in ServiceForm!TemplateBody <=> "connection" \in ServiceForm!TemplateBody)
    BY <1>25, <2>1
       DEF ServiceForm!TemplateSubmits, ServiceForm!ServiceRequired, ServiceForm!TemplateBody,
           ServiceForm!Policies, ServiceForm!SingleNodes, ServiceForm!DoubleNodes,
           ServiceForm!IntranetNodes, ServiceForm!TemplateNodes, ServiceForm!TemplateValid
  <2>4. ServiceForm!Request(NoId, ServiceForm!TemplateBody) \in ServiceRequests(n)
    BY <2>2, <2>3, ServiceRequest
  <2>5. /\ Submits(ServiceForm!Request(NoId, ServiceForm!TemplateBody)) /\ ~form.busy /\ form'.busy = TRUE
        /\ Whole(n) /\ Filled /\ form'.filled = form.filled
    BY <1>25, <2>1
       DEF ServiceForm!TemplateSubmits, ServiceForm!Sends, Submits, Whole, Filled, Shaped
  <2>6. ServiceForm!ServiceSubmitsShown(ServiceForm!Request(NoId, ServiceForm!TemplateBody))
    BY <1>25, <2>1
       DEF ServiceForm!TemplateSubmits, ServiceForm!Request, ServiceForm!ServiceSubmitsShown,
           ServiceExtra, ServiceForm!TemplateBody, ServiceForm!Policies,
           ServiceForm!SingleNodes, ServiceForm!DoubleNodes, ServiceForm!IntranetNodes,
           ServiceForm!TemplateNodes, ServiceForm!TemplateValid, ServiceForm!Named
  <2>7. ServiceExtra(form', n)
    BY <2>5 DEF Filled, ServiceExtra
  <2> QED
    BY <2>1, <2>4, <2>5, <2>6, <2>7, ServiceSends DEF Filled
<1>26. ASSUME NEW i \in DOMAIN form.sent, ServiceForm!TemplateSettled(i)
      PROVE  ServiceGoes(n)
  <2>1. n = "template" /\ ServicePicks(n) = TemplatePicks /\ form.pick \in TemplatePicks
    BY <1>26 DEF ServiceForm!TemplateSettled, ServiceForm!Named, ServicePicks
  <2>2. Whole(n) /\ Replied
    BY <1>26, <2>1
       DEF ServiceForm!TemplateSettled, ServiceForm!Named, ServiceForm!Settled,
           ServiceForm!Without, Whole, Replied, Shaped, Form!Without
  <2>3. /\ form'.pick \in TemplatePicks /\ form'.filled \subseteq ServiceFields
        /\ Rows(form'.rules, ServiceFields)
    BY <1>26, <2>1, ServiceHas
       DEF ServiceForm!TemplateSettled, ServiceForm!Named, ServiceForm!Settled,
           ServiceForm!Without, Shaped, TemplatePicks
  <2>4. ServiceExtra(form', n)
    BY <1>26, <2>1
       DEF ServiceForm!TemplateSettled, ServiceForm!Named, ServiceForm!Settled,
           ServiceForm!Without, Shaped, ServiceExtra, TemplatePicks
  <2> QED
    BY <2>1, <2>2, <2>3, <2>4, ServiceMoves
<1>27. CASE ServiceForm!Closes
  <2>1. Whole(n) /\ Still /\ Filled /\ form'.filled = form.filled
    BY <1>27 DEF ServiceForm!Closes, Whole, Still, Filled, Shaped
  <2>2. ServiceExtra(form', n)
    BY <2>1 DEF Filled, ServiceExtra
  <2> QED
    BY <2>1, <2>2, ServiceMoves DEF Filled
<1> QED
  BY <1>1, <1>2, <1>3, <1>4, <1>5, <1>6, <1>7, <1>8, <1>9, <1>10, <1>11, <1>12, <1>13, <1>14,
     <1>15, <1>16, <1>17, <1>18, <1>19, <1>20, <1>21, <1>22, <1>23, <1>24, <1>25, <1>26, <1>27
     DEF ServiceForm!ServiceFormsNext, ServiceForm!ServiceFormNames

LEMMA ServiceStarts ==
    ASSUME NEW q, NEW f \in ServiceForm!ServiceFormsOf(q)
    PROVE  f.name \in ServiceForm!ServiceFormNames /\ ServiceFit(f, f.name)
<1>1. ASSUME NEW s \in ServiceForm!Scenarios, f = ServiceForm!ServiceStart(s)
      PROVE  ServiceFit(f, "service") /\ f.name = "service"
  <2> DEFINE p == [scenario |-> s, external |-> FALSE, balance |-> FALSE]
  <2>1. Fresh(f, "service", p)
    BY <1>1 DEF ServiceForm!ServiceStart, ServiceForm!FormOf, Fresh, Shaped
  <2>2. p \in ServicePicks("service")
    BY DEF ServicePicks, ScenarioPicks
  <2> HIDE DEF p
  <2>3. ServiceExtra(f, "service")
    BY <2>1, <2>2 DEF Fresh, ServiceExtra
  <2> QED
    BY <2>1, <2>2, <2>3, Appearance DEF ServiceFit, Fresh
<1>2. ASSUME f = ServiceForm!AssembleStart
      PROVE  ServiceFit(f, "assemble") /\ f.name = "assemble"
  <2> DEFINE p == [type |-> "0", listed |-> FALSE]
  <2>1. Fresh(f, "assemble", p)
    BY <1>2 DEF ServiceForm!AssembleStart, ServiceForm!FormOf, Fresh, Shaped
  <2>2. p \in ServicePicks("assemble")
    BY DEF ServicePicks, AssemblePicks
  <2> HIDE DEF p
  <2>3. ServiceExtra(f, "assemble")
    BY <2>1, <2>2 DEF Fresh, ServiceExtra
  <2> QED
    BY <2>1, <2>2, <2>3, Appearance DEF ServiceFit, Fresh
<1>3. ASSUME f = ServiceForm!AliasStart
      PROVE  ServiceFit(f, "alias") /\ f.name = "alias"
  <2> DEFINE p == [none |-> TRUE]
  <2>1. Fresh(f, "alias", p)
    BY <1>3 DEF ServiceForm!AliasStart, ServiceForm!FormOf, ServiceForm!NoPick, Fresh, Shaped
  <2>2. p \in ServicePicks("alias")
    BY DEF ServicePicks, Form!NoPick
  <2> HIDE DEF p
  <2>3. ServiceExtra(f, "alias")
    BY <2>1, <2>2 DEF Fresh, ServiceExtra
  <2> QED
    BY <2>1, <2>2, <2>3, Appearance DEF ServiceFit, Fresh
<1>4. ASSUME f = ServiceForm!TemplateStart
      PROVE  ServiceFit(f, "template") /\ f.name = "template"
  <2> DEFINE p == [mode |-> "single", listen |-> "all", target |-> "external", random |-> FALSE,
                    tls |-> "1"]
  <2>1. Fresh(f, "template", p)
    BY <1>4 DEF ServiceForm!TemplateStart, ServiceForm!FormOf, ServiceForm!TemplatePick, ServiceForm!TemplateBlank, Fresh, Shaped
  <2>2. p \in ServicePicks("template")
    BY DEF ServicePicks, TemplatePicks
  <2> HIDE DEF p
  <2>3. ServiceExtra(f, "template")
    BY <2>1, <2>2 DEF Fresh, ServiceExtra
  <2> QED
    BY <2>1, <2>2, <2>3, Appearance DEF ServiceFit, Fresh
<1> QED
  BY <1>1, <1>2, <1>3, <1>4 DEF ServiceForm!ServiceFormsOf, ServiceForm!ServiceFormNames

-----------------------------------------------------------------------------
(* The forms of endpoints                                                  *)

AddPicks ==
    [step : {"form", "import"}, result : {"none", "fit", "unfit"}, own : BOOLEAN]

ImportPicks == [file : Ids \cup {NoId}, results : BOOLEAN]

EndpointPicks(n) ==
    CASE n = "add" -> AddPicks
      [] n = "import" -> ImportPicks
      [] n = "config" -> [changed : BOOLEAN]
      [] n = "ask" -> [about : {"reset", "delete"}]
      [] OTHER -> {Form!NoPick}

EndpointFields == EndpointForm!EndpointFields

EndpointRequests(n) ==
    {r \in Requests(EndpointFields) :
        /\ EndpointForm!EndpointRequired(n) \subseteq r.has
        /\ n = "import" => r.rows # <<>>}

EndpointMode(n) == IF n = "import" THEN "flag" ELSE "many"

\* One file is looked at, the one whose text is kept, and nothing is sent meanwhile; its
\* results are shown.
ImportExtra(f) ==
    /\ f.asked # <<>> => /\ f.asked = <<f.target>> /\ f.loading
                         /\ ~f.pick.results /\ f.sent = <<>>
    /\ f.pick.results => f.target = f.shown

\* A form shows the endpoint it was opened for, or is for none.
EndpointExtra(f, n) ==
    /\ n \in {"add", "first", "config", "ask", "qr"} => f.shown = NoId
    /\ n \in {"naming", "rekey", "byurl", "erase"} => f.target = f.shown
    /\ n = "import" => ImportExtra(f)

EndpointFit(f, n) ==
    Fit(f, n, EndpointFields, EndpointPicks(n), EndpointRequests(n), EndpointMode(n)) /\ EndpointExtra(f, n)

\* A step keeps the form typed, and submits what is shown.
EndpointGoes(n) == EndpointFit(form', n) /\ (Quiet \/ EndpointForm!EndpointSubmitsShown(Last))

LEMMA EndpointMoves ==
    ASSUME NEW n, EndpointFit(form, n), Whole(n),
           Still \/ Stopped \/ Asked \/ Heard \/ Replied \/ AskedAgain,
           form'.pick \in EndpointPicks(n), form'.filled \subseteq EndpointFields,
           Rows(form'.rules, EndpointFields), EndpointExtra(form', n)
    PROVE  EndpointGoes(n)
  BY Steps DEF EndpointFit, EndpointGoes

LEMMA EndpointSends ==
    ASSUME NEW n, EndpointFit(form, n), NEW r \in EndpointRequests(n), Submits(r),
           (EndpointMode(n) = "flag" => ~form.busy /\ form'.busy = TRUE), form'.busy \in BOOLEAN, Whole(n),
           form'.pick \in EndpointPicks(n), form'.filled \subseteq EndpointFields,
           Rows(form'.rules, EndpointFields), EndpointExtra(form', n), EndpointForm!EndpointSubmitsShown(r)
    PROVE  EndpointGoes(n)
<1>1. Fit(form', n, EndpointFields, EndpointPicks(n), EndpointRequests(n), EndpointMode(n)) /\ Last = r
  BY Submissions DEF EndpointFit, EndpointMode
<1> QED
  BY <1>1 DEF EndpointFit, EndpointGoes

LEMMA EndpointTyped ==
    ASSUME NEW n, EndpointFit(form, n), NEW fields \in SUBSET EndpointFields, EndpointForm!Types(fields)
    PROVE  /\ Whole(n) /\ Still /\ Filled
           /\ form'.filled \subseteq form.filled \cup fields /\ form'.filled \subseteq EndpointFields
<1>1. PICK h \in SUBSET (form.filled \cup fields) : form' = [form EXCEPT !.filled = h]
  BY DEF EndpointForm!Types, EndpointForm!Typings
<1> QED
  BY <1>1 DEF EndpointFit, Fit, Shaped, Whole, Still, Filled

LEMMA EndpointHas == {"name", "url", "key", "ip", "import"} \subseteq EndpointFields
  BY DEF EndpointFields, EndpointForm!EndpointFields

LEMMA EndpointRequest ==
    ASSUME NEW n, n # "import", NEW o \in Ids \cup {NoId}, NEW h \in SUBSET EndpointFields,
           EndpointForm!EndpointRequired(n) \subseteq h
    PROVE  EndpointForm!Request(o, h) \in EndpointRequests(n)
  BY EmptySeq DEF EndpointForm!Request, EndpointRequests, Requests

\* The rows of a result can be imported or not.
LEMMA ImportRowsFit ==
    ASSUME NEW r \in EndpointForm!ImportRows
    PROVE  Rows(r, EndpointFields)
<1>1. PICK n \in 0..MaxRules : r \in [1..n -> {{}, {"import"}}]
  BY DEF EndpointForm!ImportRows
<1>2. n \in Nat /\ n <= MaxRules /\ r \in [1..n -> SUBSET EndpointFields]
  BY <1>1, FormBounds, EndpointHas
<1>3. r \in Seq(SUBSET EndpointFields) /\ Len(r) = n
  BY <1>2
<1> QED
  BY <1>2, <1>3 DEF Rows

\* A row is moved.
LEMMA DraggedFits ==
    ASSUME NEW F, NEW s, Rows(s, F), NEW i \in DOMAIN s, NEW j \in DOMAIN s
    PROVE  Rows(SubSeq(Form!Without(s, i), 1, j - 1) \o <<s[i]>>
                \o SubSeq(Form!Without(s, i), j, Len(Form!Without(s, i))), F)
<1> DEFINE t == Form!Without(s, i)
<1>1. s \in Seq(SUBSET F) /\ Len(s) \in Nat /\ Len(s) <= MaxRules
  BY NoneOrSome DEF Rows
<1>2. i \in 1..Len(s) /\ j \in 1..Len(s) /\ s[i] \in SUBSET F
  BY <1>1
<1>3. t \in Seq(SUBSET F) /\ Len(t) = Len(s) - 1
  BY <1>1, WithoutOne
<1> HIDE DEF t
<1> DEFINE a == SubSeq(t, 1, j - 1)
           b == SubSeq(t, j, Len(t))
           c == <<s[i]>>
<1>4. a \in Seq(SUBSET F) /\ Len(a) = j - 1
  BY <1>1, <1>2, <1>3
<1>5. b \in Seq(SUBSET F) /\ Len(b) = Len(s) - j
  BY <1>1, <1>2, <1>3
<1>6. c \in Seq(SUBSET F) /\ Len(c) = 1
  BY <1>2
<1> HIDE DEF a, b, c
<1> DEFINE d == a \o c
<1>0. j \in Nat
  BY <1>1, <1>2
<1>7a. Len(a) + 1 = j
  BY <1>0, <1>4
<1>7b. j + Len(b) = Len(s)
  BY <1>0, <1>1, <1>5
<1>7. j \in Nat /\ Len(a) + 1 = j /\ j + Len(b) = Len(s)
  BY <1>0, <1>7a, <1>7b
<1>8. d \in Seq(SUBSET F) /\ Len(d) = Len(a) + Len(c)
  BY <1>4, <1>6, ConcatProperties
<1> HIDE DEF d
<1>9. d \o b \in Seq(SUBSET F) /\ Len(d \o b) = Len(d) + Len(b)
  BY <1>5, <1>8, ConcatProperties
<1>10. Len(d) = j
  BY <1>6, <1>7, <1>8
<1>11. Len(d \o b) = Len(s)
  BY <1>7, <1>9, <1>10
<1> QED
  BY <1>1, <1>9, <1>11 DEF Rows, a, b, c, d, t

\* What is imported is made of rows.
LEMMA ImportableFits ==
    ASSUME Rows(form.rules, EndpointFields)
    PROVE  EndpointForm!Importable \in Seq(SUBSET EndpointFields)
<1> DEFINE S == {i \in DOMAIN form.rules : "import" \in form.rules[i]}
<1>1. form.rules \in Seq(SUBSET EndpointFields) /\ Len(form.rules) \in Nat
  BY NoneOrSome DEF Rows
<1>2. S \subseteq 1..Len(form.rules)
  BY <1>1
<1>3. IsFiniteSet(1..Len(form.rules))
  BY <1>1, FS_Interval
<1> HIDE DEF S
<1>3a. Cardinality(S) \in Nat
  BY <1>2, <1>3, FS_Subset, FS_CardinalityType
<1>4. EndpointForm!Importable = [k \in 1..Cardinality(S) |-> {"import"}]
  BY DEF EndpointForm!Importable, S, EndpointForm!Cardinality, Cardinality
<1>5. {"import"} \in SUBSET EndpointFields
  BY EndpointHas
<1> QED
  BY <1>3a, <1>4, <1>5

\* What is not flagged is not under way.
LEMMA ImportFree ==
    ASSUME EndpointFit(form, "import"), ~form.loading
    PROVE  form.asked = <<>> /\ (~form.busy => form.sent = <<>>)
  BY DEF EndpointFit, EndpointExtra, ImportExtra, Fit, Sending, EndpointMode

LEMMA OneGone == ASSUME NEW x PROVE Form!Without(<<x>>, 1) = <<>>
<1> DEFINE s == <<x>>
<1>a. s \in Seq({x}) /\ Len(s) = 1 /\ 1 \in DOMAIN s
  OBVIOUS
<1> HIDE DEF s
<1>b. Form!Without(s, 1) \in Seq({x}) /\ Len(Form!Without(s, 1)) = Len(s) - 1
  BY <1>a, WithoutOne
<1>1. Form!Without(s, 1) \in Seq({x}) /\ Len(Form!Without(s, 1)) = 0
  BY <1>a, <1>b
<1> QED
  BY <1>1, NoneOrSome DEF s

\* Whatever is done in a form, it stays typed and shows what it submits.
LEMMA EndpointFormsStep ==
    ASSUME NEW n \in EndpointForm!EndpointFormNames, EndpointFit(form, n), EndpointForm!EndpointFormsNext
    PROVE  EndpointGoes(n)
<1>n. /\ form.name = n /\ form.pick \in EndpointPicks(n) /\ form.filled \subseteq EndpointFields
      /\ form.target \in Ids \cup {NoId} /\ form.shown \in Ids \cup {NoId}
      /\ form.open \in BOOLEAN /\ Rows(form.rules, EndpointFields) /\ Shaped(form) /\ EndpointExtra(form, n)
      /\ \A i \in DOMAIN form.asked : form.asked[i] \in Ids \cup {NoId}
  BY DEF EndpointFit, Fit, Asking
<1> USE <1>n
<1>1. CASE EndpointForm!AddOpens
  <2>1. n = "add" /\ EndpointPicks(n) = AddPicks /\ form.pick \in AddPicks
    BY <1>1 DEF EndpointForm!AddOpens, EndpointForm!Named, EndpointPicks
  <2>2. Whole(n) /\ Still
    BY <1>1, <2>1 DEF EndpointForm!AddOpens, EndpointForm!Named, Whole, Still, Shaped
  <2>3. /\ form'.pick \in AddPicks /\ form'.filled \subseteq EndpointFields
        /\ Rows(form'.rules, EndpointFields)
    BY <1>1, <2>1, EndpointHas
       DEF EndpointForm!AddOpens, EndpointForm!Named, Shaped, AddPicks
  <2>4. EndpointExtra(form', n)
    BY <1>1, <2>1
       DEF EndpointForm!AddOpens, EndpointForm!Named, Shaped, EndpointExtra, AddPicks
  <2> QED
    BY <2>1, <2>2, <2>3, <2>4, EndpointMoves
<1>2. CASE EndpointForm!AddTypes
  <2>1. n = "add" /\ EndpointPicks(n) = AddPicks /\ form.pick \in AddPicks
    BY <1>2
       DEF EndpointForm!AddTypes, EndpointForm!OpenAs, EndpointForm!AddInFront, EndpointPicks
  <2>2. {"name", "key"} \in SUBSET EndpointFields
    BY EndpointHas
  <2>3. /\ Whole(n) /\ Still /\ Filled
        /\ form'.filled \subseteq form.filled \cup {"name", "key"}
        /\ form'.filled \subseteq EndpointFields
    BY <1>2, <2>2, EndpointTyped DEF EndpointForm!AddTypes
  <2>4. EndpointExtra(form', n)
    BY <2>1, <2>3 DEF Filled, EndpointExtra, AddPicks
  <2> QED
    BY <2>1, <2>3, <2>4, EndpointMoves DEF Filled
<1>3. CASE EndpointForm!AddTypesUrl
  <2>1. n = "add" /\ EndpointPicks(n) = AddPicks /\ form.pick \in AddPicks
    BY <1>3
       DEF EndpointForm!AddTypesUrl, EndpointForm!OpenAs, EndpointForm!AddInFront,
           EndpointPicks
  <2>2. Whole(n) /\ Still
    BY <1>3, <2>1
       DEF EndpointForm!AddTypesUrl, EndpointForm!OpenAs, EndpointForm!AddInFront, Whole,
           Still, Shaped
  <2>3. /\ form'.pick \in AddPicks /\ form'.filled \subseteq EndpointFields
        /\ Rows(form'.rules, EndpointFields)
    BY <1>3, <2>1, EndpointHas
       DEF EndpointForm!AddTypesUrl, EndpointForm!OpenAs, EndpointForm!AddInFront, Shaped,
           AddPicks, EndpointForm!FollowingUrl
  <2>4. EndpointExtra(form', n)
    BY <1>3, <2>1
       DEF EndpointForm!AddTypesUrl, EndpointForm!OpenAs, EndpointForm!AddInFront, Shaped,
           EndpointExtra, AddPicks
  <2> QED
    BY <2>1, <2>2, <2>3, <2>4, EndpointMoves
<1>4. CASE EndpointForm!AddTypesAddress
  <2>1. n = "add" /\ EndpointPicks(n) = AddPicks /\ form.pick \in AddPicks
    BY <1>4
       DEF EndpointForm!AddTypesAddress, EndpointForm!OpenAs, EndpointForm!AddInFront,
           EndpointPicks
  <2>2. Whole(n) /\ Still
    BY <1>4, <2>1
       DEF EndpointForm!AddTypesAddress, EndpointForm!OpenAs, EndpointForm!AddInFront, Whole,
           Still, Shaped
  <2>3. /\ form'.pick \in AddPicks /\ form'.filled \subseteq EndpointFields
        /\ Rows(form'.rules, EndpointFields)
    BY <1>4, <2>1, EndpointHas
       DEF EndpointForm!AddTypesAddress, EndpointForm!OpenAs, EndpointForm!AddInFront, Shaped,
           AddPicks
  <2>4. EndpointExtra(form', n)
    BY <1>4, <2>1
       DEF EndpointForm!AddTypesAddress, EndpointForm!OpenAs, EndpointForm!AddInFront, Shaped,
           EndpointExtra, AddPicks
  <2> QED
    BY <2>1, <2>2, <2>3, <2>4, EndpointMoves
<1>5. CASE EndpointForm!AddTests
  <2>1. n = "add" /\ EndpointPicks(n) = AddPicks /\ form.pick \in AddPicks
    BY <1>5
       DEF EndpointForm!AddTests, EndpointForm!OpenAs, EndpointForm!AddInFront, EndpointPicks
  <2>2. Whole(n) /\ Asked
    BY <1>5, <2>1
       DEF EndpointForm!AddTests, EndpointForm!OpenAs, EndpointForm!AddInFront,
           EndpointForm!Asks, Whole, Asked, Shaped
  <2>3. /\ form'.pick \in AddPicks /\ form'.filled \subseteq EndpointFields
        /\ Rows(form'.rules, EndpointFields)
    BY <1>5, <2>1, EndpointHas
       DEF EndpointForm!AddTests, EndpointForm!OpenAs, EndpointForm!AddInFront,
           EndpointForm!Asks, Shaped, AddPicks
  <2>4. EndpointExtra(form', n)
    BY <1>5, <2>1
       DEF EndpointForm!AddTests, EndpointForm!OpenAs, EndpointForm!AddInFront,
           EndpointForm!Asks, Shaped, EndpointExtra, AddPicks
  <2> QED
    BY <2>1, <2>2, <2>3, <2>4, EndpointMoves
<1>6. ASSUME NEW i \in DOMAIN form.asked, EndpointForm!AddTested(i)
      PROVE  EndpointGoes(n)
  <2>1. n = "add" /\ EndpointPicks(n) = AddPicks /\ form.pick \in AddPicks
    BY <1>6 DEF EndpointForm!AddTested, EndpointForm!Named, EndpointPicks
  <2>2. CASE EndpointForm!Loaded(form, i)
    <3>1. Whole(n) /\ Heard
      BY <2>1, <2>2
         DEF EndpointForm!Loaded, EndpointForm!Without, Form!Without, Whole, Heard, Shaped
    <3>2. /\ form'.pick \in AddPicks /\ form'.filled \subseteq EndpointFields
          /\ Rows(form'.rules, EndpointFields)
      BY <2>1, <2>2, EndpointHas
         DEF EndpointForm!Loaded, EndpointForm!Without, Shaped, AddPicks
    <3>3. EndpointExtra(form', n)
      BY <2>1, <2>2
         DEF EndpointForm!Loaded, EndpointForm!Without, Shaped, EndpointExtra, AddPicks
    <3> QED
      BY <2>1, <3>1, <3>2, <3>3, EndpointMoves
  <2>3. ASSUME NEW r \in {"fit", "unfit"}, EndpointForm!Loaded([form EXCEPT !.pick.result = r], i)
       PROVE  EndpointGoes(n)
    <3>1. Whole(n) /\ Heard
      BY <2>1, <2>3
         DEF EndpointForm!Loaded, EndpointForm!Without, Form!Without, Whole, Heard, Shaped
    <3>2. /\ form'.pick \in AddPicks /\ form'.filled \subseteq EndpointFields
          /\ Rows(form'.rules, EndpointFields)
      BY <2>1, <2>3, EndpointHas
         DEF EndpointForm!Loaded, EndpointForm!Without, Shaped, AddPicks
    <3>3. EndpointExtra(form', n)
      BY <2>1, <2>3
         DEF EndpointForm!Loaded, EndpointForm!Without, Shaped, EndpointExtra, AddPicks
    <3> QED
      BY <2>1, <3>1, <3>2, <3>3, EndpointMoves
  <2> QED
    BY <1>6, <2>2, <2>3 DEF EndpointForm!AddTested
<1>7. CASE EndpointForm!AddResultCloses
  <2>1. n = "add" /\ EndpointPicks(n) = AddPicks /\ form.pick \in AddPicks
    BY <1>7 DEF EndpointForm!AddResultCloses, EndpointForm!OpenAs, EndpointPicks
  <2>2. Whole(n) /\ Still
    BY <1>7, <2>1
       DEF EndpointForm!AddResultCloses, EndpointForm!OpenAs, Whole, Still, Shaped
  <2>3. /\ form'.pick \in AddPicks /\ form'.filled \subseteq EndpointFields
        /\ Rows(form'.rules, EndpointFields)
    BY <1>7, <2>1, EndpointHas
       DEF EndpointForm!AddResultCloses, EndpointForm!OpenAs, Shaped, AddPicks
  <2>4. EndpointExtra(form', n)
    BY <1>7, <2>1
       DEF EndpointForm!AddResultCloses, EndpointForm!OpenAs, Shaped, EndpointExtra, AddPicks
  <2> QED
    BY <2>1, <2>2, <2>3, <2>4, EndpointMoves
<1>8. CASE EndpointForm!AddSubmits
  <2>0. form.busy \in BOOLEAN
    BY DEF EndpointFit, Fit
  <2>1. n = "add" /\ EndpointPicks(n) = AddPicks /\ form.pick \in AddPicks
    BY <1>8 DEF EndpointForm!AddSubmits, EndpointForm!OpenAs, EndpointPicks
  <2>2. (form.filled \cap {"url", "key"}) \in SUBSET EndpointFields /\ n # "import"
        /\ EndpointForm!EndpointRequired(n) \subseteq (form.filled \cap {"url", "key"})
    BY <1>8, <2>1, EndpointHas
       DEF EndpointForm!AddSubmits, EndpointForm!EndpointRequired
  <2>3. EndpointForm!Request(NoId, (form.filled \cap {"url", "key"})) \in EndpointRequests(n)
    BY <2>2, EndpointRequest
  <2>4. /\ Submits(EndpointForm!Request(NoId, (form.filled \cap {"url", "key"}))) /\ form'.busy \in BOOLEAN /\ EndpointMode(n) = "many"
        /\ Whole(n) /\ Filled /\ form'.filled = form.filled
    BY <1>8, <2>1, <2>0
       DEF EndpointForm!AddSubmits, EndpointForm!SendsAgain, Submits, Whole, Filled, Shaped,
           EndpointMode
  <2>5. EndpointForm!EndpointSubmitsShown(EndpointForm!Request(NoId, (form.filled \cap {"url", "key"})))
    BY <2>1 DEF EndpointForm!Request, EndpointForm!EndpointSubmitsShown, EndpointExtra
  <2>6. EndpointExtra(form', n)
    BY <2>1, <2>4 DEF Filled, EndpointExtra
  <2> QED
    BY <2>1, <2>3, <2>4, <2>5, <2>6, EndpointSends DEF Filled
<1>9. ASSUME NEW i \in DOMAIN form.sent, EndpointForm!AddSettled(i)
      PROVE  EndpointGoes(n)
  <2>1. n = "add" /\ EndpointPicks(n) = AddPicks /\ form.pick \in AddPicks
    BY <1>9 DEF EndpointForm!AddSettled, EndpointForm!Named, EndpointPicks
  <2>2. Whole(n) /\ Replied
    BY <1>9, <2>1
       DEF EndpointForm!AddSettled, EndpointForm!Named, EndpointForm!Settled,
           EndpointForm!Without, Whole, Replied, Shaped, Form!Without
  <2>3. /\ form'.pick \in AddPicks /\ form'.filled \subseteq EndpointFields
        /\ Rows(form'.rules, EndpointFields)
    BY <1>9, <2>1, EndpointHas
       DEF EndpointForm!AddSettled, EndpointForm!Named, EndpointForm!Settled,
           EndpointForm!Without, Shaped, AddPicks
  <2>4. EndpointExtra(form', n)
    BY <1>9, <2>1
       DEF EndpointForm!AddSettled, EndpointForm!Named, EndpointForm!Settled,
           EndpointForm!Without, Shaped, EndpointExtra, AddPicks
  <2> QED
    BY <2>1, <2>2, <2>3, <2>4, EndpointMoves
<1>10. CASE EndpointForm!AddTurns
  <2>1. n = "add" /\ EndpointPicks(n) = AddPicks /\ form.pick \in AddPicks
    BY <1>10
       DEF EndpointForm!AddTurns, EndpointForm!OpenAs, EndpointForm!AddInFront, EndpointPicks
  <2>2. Whole(n) /\ Still
    BY <1>10, <2>1
       DEF EndpointForm!AddTurns, EndpointForm!OpenAs, EndpointForm!AddInFront, Whole, Still,
           Shaped
  <2>3. /\ form'.pick \in AddPicks /\ form'.filled \subseteq EndpointFields
        /\ Rows(form'.rules, EndpointFields)
    BY <1>10, <2>1, EndpointHas
       DEF EndpointForm!AddTurns, EndpointForm!OpenAs, EndpointForm!AddInFront, Shaped,
           AddPicks
  <2>4. EndpointExtra(form', n)
    BY <1>10, <2>1
       DEF EndpointForm!AddTurns, EndpointForm!OpenAs, EndpointForm!AddInFront, Shaped,
           EndpointExtra, AddPicks
  <2> QED
    BY <2>1, <2>2, <2>3, <2>4, EndpointMoves
<1>11. CASE EndpointForm!AddImports
  <2>1. n = "add" /\ EndpointPicks(n) = AddPicks /\ form.pick \in AddPicks
    BY <1>11
       DEF EndpointForm!AddImports, EndpointForm!OpenAs, EndpointForm!AddInFront,
           EndpointPicks
  <2>2. CASE form' = [form EXCEPT !.pick.step = "form"]
    <3>1. Whole(n) /\ Still
      BY <2>1, <2>2 DEF Whole, Still, Shaped
    <3>2. /\ form'.pick \in AddPicks /\ form'.filled \subseteq EndpointFields
          /\ Rows(form'.rules, EndpointFields)
      BY <2>1, <2>2, EndpointHas DEF Shaped, AddPicks
    <3>3. EndpointExtra(form', n)
      BY <2>1, <2>2 DEF Shaped, EndpointExtra, AddPicks
    <3> QED
      BY <2>1, <3>1, <3>2, <3>3, EndpointMoves
  <2>3. CASE form' = [form EXCEPT !.pick.step = "form", !.pick.own = FALSE,
                                           !.filled = {"name", "url", "key", "ip"}]
    <3>1. Whole(n) /\ Still
      BY <2>1, <2>3 DEF Whole, Still, Shaped
    <3>2. /\ form'.pick \in AddPicks /\ form'.filled \subseteq EndpointFields
          /\ Rows(form'.rules, EndpointFields)
      BY <2>1, <2>3, EndpointHas DEF Shaped, AddPicks
    <3>3. EndpointExtra(form', n)
      BY <2>1, <2>3 DEF Shaped, EndpointExtra, AddPicks
    <3> QED
      BY <2>1, <3>1, <3>2, <3>3, EndpointMoves
  <2> QED
    BY <1>11, <2>2, <2>3 DEF EndpointForm!AddImports
<1>12. CASE EndpointForm!AddCloses
  <2>1. n = "add" /\ EndpointPicks(n) = AddPicks /\ form.pick \in AddPicks
    BY <1>12 DEF EndpointForm!AddCloses, EndpointForm!OpenAs, EndpointPicks
  <2>2. Whole(n) /\ Still
    BY <1>12, <2>1 DEF EndpointForm!AddCloses, EndpointForm!OpenAs, Whole, Still, Shaped
  <2>3. /\ form'.pick \in AddPicks /\ form'.filled \subseteq EndpointFields
        /\ Rows(form'.rules, EndpointFields)
    BY <1>12, <2>1, EndpointHas
       DEF EndpointForm!AddCloses, EndpointForm!OpenAs, Shaped, AddPicks
  <2>4. EndpointExtra(form', n)
    BY <1>12, <2>1
       DEF EndpointForm!AddCloses, EndpointForm!OpenAs, Shaped, EndpointExtra, AddPicks
  <2> QED
    BY <2>1, <2>2, <2>3, <2>4, EndpointMoves
<1>13. CASE EndpointForm!FirstOpens
  <2>1. n = "first" /\ EndpointPicks(n) = {Form!NoPick} /\ form.pick \in {Form!NoPick}
    BY <1>13 DEF EndpointForm!FirstOpens, EndpointForm!Named, EndpointPicks
  <2>2. Whole(n) /\ Still
    BY <1>13, <2>1 DEF EndpointForm!FirstOpens, EndpointForm!Named, Whole, Still, Shaped
  <2>3. /\ form'.pick \in {Form!NoPick} /\ form'.filled \subseteq EndpointFields
        /\ Rows(form'.rules, EndpointFields)
    BY <1>13, <2>1, EndpointHas DEF EndpointForm!FirstOpens, EndpointForm!Named, Shaped
  <2>4. EndpointExtra(form', n)
    BY <1>13, <2>1
       DEF EndpointForm!FirstOpens, EndpointForm!Named, Shaped, EndpointExtra
  <2> QED
    BY <2>1, <2>2, <2>3, <2>4, EndpointMoves
<1>14. CASE EndpointForm!FirstTypes
  <2>1. n = "first" /\ EndpointPicks(n) = {Form!NoPick} /\ form.pick \in {Form!NoPick}
    BY <1>14 DEF EndpointForm!FirstTypes, EndpointForm!OpenAs, EndpointPicks
  <2>2. EndpointForm!FirstNeeds \in SUBSET EndpointFields
    BY EndpointHas DEF EndpointForm!FirstNeeds
  <2>3. /\ Whole(n) /\ Still /\ Filled
        /\ form'.filled \subseteq form.filled \cup EndpointForm!FirstNeeds
        /\ form'.filled \subseteq EndpointFields
    BY <1>14, <2>2, EndpointTyped DEF EndpointForm!FirstTypes
  <2>4. EndpointExtra(form', n)
    BY <2>1, <2>3 DEF Filled, EndpointExtra
  <2> QED
    BY <2>1, <2>3, <2>4, EndpointMoves DEF Filled
<1>15. CASE EndpointForm!FirstTests
  <2>1. n = "first" /\ EndpointPicks(n) = {Form!NoPick} /\ form.pick \in {Form!NoPick}
    BY <1>15 DEF EndpointForm!FirstTests, EndpointForm!OpenAs, EndpointPicks
  <2>2. Whole(n) /\ Asked
    BY <1>15, <2>1
       DEF EndpointForm!FirstTests, EndpointForm!OpenAs, EndpointForm!Asks, Whole, Asked,
           Shaped
  <2>3. /\ form'.pick \in {Form!NoPick} /\ form'.filled \subseteq EndpointFields
        /\ Rows(form'.rules, EndpointFields)
    BY <1>15, <2>1, EndpointHas
       DEF EndpointForm!FirstTests, EndpointForm!OpenAs, EndpointForm!Asks, Shaped
  <2>4. EndpointExtra(form', n)
    BY <1>15, <2>1
       DEF EndpointForm!FirstTests, EndpointForm!OpenAs, EndpointForm!Asks, Shaped,
           EndpointExtra
  <2> QED
    BY <2>1, <2>2, <2>3, <2>4, EndpointMoves
<1>16. ASSUME NEW i \in DOMAIN form.asked, EndpointForm!FirstTested(i)
      PROVE  EndpointGoes(n)
  <2>1. n = "first" /\ EndpointPicks(n) = {Form!NoPick} /\ form.pick \in {Form!NoPick}
    BY <1>16 DEF EndpointForm!FirstTested, EndpointForm!Named, EndpointPicks
  <2>2. Whole(n) /\ Heard
    BY <1>16, <2>1
       DEF EndpointForm!FirstTested, EndpointForm!Named, EndpointForm!Loaded,
           EndpointForm!Without, Whole, Heard, Shaped, Form!Without
  <2>3. /\ form'.pick \in {Form!NoPick} /\ form'.filled \subseteq EndpointFields
        /\ Rows(form'.rules, EndpointFields)
    BY <1>16, <2>1, EndpointHas
       DEF EndpointForm!FirstTested, EndpointForm!Named, EndpointForm!Loaded,
           EndpointForm!Without, Shaped
  <2>4. EndpointExtra(form', n)
    BY <1>16, <2>1
       DEF EndpointForm!FirstTested, EndpointForm!Named, EndpointForm!Loaded,
           EndpointForm!Without, Shaped, EndpointExtra
  <2> QED
    BY <2>1, <2>2, <2>3, <2>4, EndpointMoves
<1>17. CASE EndpointForm!FirstImports
  <2>1. n = "first" /\ EndpointPicks(n) = {Form!NoPick} /\ form.pick \in {Form!NoPick}
    BY <1>17 DEF EndpointForm!FirstImports, EndpointForm!OpenAs, EndpointPicks
  <2>2. Whole(n) /\ Still
    BY <1>17, <2>1
       DEF EndpointForm!FirstImports, EndpointForm!OpenAs, Whole, Still, Shaped
  <2>3. /\ form'.pick \in {Form!NoPick} /\ form'.filled \subseteq EndpointFields
        /\ Rows(form'.rules, EndpointFields)
    BY <1>17, <2>1, EndpointHas
       DEF EndpointForm!FirstImports, EndpointForm!OpenAs, Shaped, EndpointForm!FirstNeeds
  <2>4. EndpointExtra(form', n)
    BY <1>17, <2>1
       DEF EndpointForm!FirstImports, EndpointForm!OpenAs, Shaped, EndpointExtra
  <2> QED
    BY <2>1, <2>2, <2>3, <2>4, EndpointMoves
<1>18. CASE EndpointForm!FirstSubmits
  <2>0. form.busy \in BOOLEAN
    BY DEF EndpointFit, Fit
  <2>1. n = "first" /\ EndpointPicks(n) = {Form!NoPick} /\ form.pick \in {Form!NoPick}
    BY <1>18 DEF EndpointForm!FirstSubmits, EndpointForm!OpenAs, EndpointPicks
  <2>2. form.filled \in SUBSET EndpointFields /\ n # "import"
        /\ EndpointForm!EndpointRequired(n) \subseteq form.filled
    BY <1>18, <2>1, EndpointHas
       DEF EndpointForm!FirstSubmits, EndpointForm!EndpointRequired
  <2>3. EndpointForm!Request(NoId, form.filled) \in EndpointRequests(n)
    BY <2>2, EndpointRequest
  <2>4. /\ Submits(EndpointForm!Request(NoId, form.filled)) /\ form'.busy \in BOOLEAN /\ EndpointMode(n) = "many"
        /\ Whole(n) /\ Filled /\ form'.filled = form.filled
    BY <1>18, <2>1, <2>0
       DEF EndpointForm!FirstSubmits, EndpointForm!SendsAgain, Submits, Whole, Filled, Shaped,
           EndpointMode
  <2>5. EndpointForm!EndpointSubmitsShown(EndpointForm!Request(NoId, form.filled))
    BY <2>1 DEF EndpointForm!Request, EndpointForm!EndpointSubmitsShown, EndpointExtra
  <2>6. EndpointExtra(form', n)
    BY <2>1, <2>4 DEF Filled, EndpointExtra
  <2> QED
    BY <2>1, <2>3, <2>4, <2>5, <2>6, EndpointSends DEF Filled
<1>19. ASSUME NEW i \in DOMAIN form.sent, EndpointForm!FirstSettled(i)
      PROVE  EndpointGoes(n)
  <2>1. n = "first" /\ EndpointPicks(n) = {Form!NoPick} /\ form.pick \in {Form!NoPick}
    BY <1>19 DEF EndpointForm!FirstSettled, EndpointForm!Named, EndpointPicks
  <2>2. CASE EndpointForm!Settled(form, i)
    <3>1. Whole(n) /\ Replied
      BY <2>1, <2>2
         DEF EndpointForm!Settled, EndpointForm!Without, Form!Without, Whole, Replied, Shaped
    <3>2. /\ form'.pick \in {Form!NoPick} /\ form'.filled \subseteq EndpointFields
          /\ Rows(form'.rules, EndpointFields)
      BY <2>1, <2>2, EndpointHas DEF EndpointForm!Settled, EndpointForm!Without, Shaped
    <3>3. EndpointExtra(form', n)
      BY <2>1, <2>2 DEF EndpointForm!Settled, EndpointForm!Without, Shaped, EndpointExtra
    <3> QED
      BY <2>1, <3>1, <3>2, <3>3, EndpointMoves
  <2>3. CASE EndpointForm!Settled([form EXCEPT !.open = FALSE, !.filled = {}], i)
    <3>1. Whole(n) /\ Replied
      BY <2>1, <2>3
         DEF EndpointForm!Settled, EndpointForm!Without, Form!Without, Whole, Replied, Shaped
    <3>2. /\ form'.pick \in {Form!NoPick} /\ form'.filled \subseteq EndpointFields
          /\ Rows(form'.rules, EndpointFields)
      BY <2>1, <2>3, EndpointHas DEF EndpointForm!Settled, EndpointForm!Without, Shaped
    <3>3. EndpointExtra(form', n)
      BY <2>1, <2>3 DEF EndpointForm!Settled, EndpointForm!Without, Shaped, EndpointExtra
    <3> QED
      BY <2>1, <3>1, <3>2, <3>3, EndpointMoves
  <2> QED
    BY <1>19, <2>2, <2>3 DEF EndpointForm!FirstSettled
<1>20. CASE EndpointForm!RenameOpens
  <2>1. n = "naming" /\ EndpointPicks(n) = {Form!NoPick} /\ form.pick \in {Form!NoPick}
    BY <1>20 DEF EndpointForm!RenameOpens, EndpointForm!Named, EndpointPicks
  <2>2. Whole(n) /\ Still
    BY <1>20, <2>1
       DEF EndpointForm!RenameOpens, EndpointForm!Named, Whole, Still, Shaped
  <2>3. /\ form'.pick \in {Form!NoPick} /\ form'.filled \subseteq EndpointFields
        /\ Rows(form'.rules, EndpointFields)
    BY <1>20, <2>1, EndpointHas DEF EndpointForm!RenameOpens, EndpointForm!Named, Shaped
  <2>4. EndpointExtra(form', n)
    BY <1>20, <2>1
       DEF EndpointForm!RenameOpens, EndpointForm!Named, Shaped, EndpointExtra
  <2> QED
    BY <2>1, <2>2, <2>3, <2>4, EndpointMoves
<1>21. CASE EndpointForm!RenameTypes
  <2>1. n = "naming" /\ EndpointPicks(n) = {Form!NoPick} /\ form.pick \in {Form!NoPick}
    BY <1>21 DEF EndpointForm!RenameTypes, EndpointForm!OpenAs, EndpointPicks
  <2>2. {"name"} \in SUBSET EndpointFields
    BY EndpointHas
  <2>3. /\ Whole(n) /\ Still /\ Filled
        /\ form'.filled \subseteq form.filled \cup {"name"}
        /\ form'.filled \subseteq EndpointFields
    BY <1>21, <2>2, EndpointTyped DEF EndpointForm!RenameTypes
  <2>4. EndpointExtra(form', n)
    BY <2>1, <2>3 DEF Filled, EndpointExtra
  <2> QED
    BY <2>1, <2>3, <2>4, EndpointMoves DEF Filled
<1>22. CASE EndpointForm!RenameSubmits
  <2>1. n = "naming" /\ EndpointPicks(n) = {Form!NoPick} /\ form.pick \in {Form!NoPick}
    BY <1>22 DEF EndpointForm!RenameSubmits, EndpointForm!OpenAs, EndpointPicks
  <2>2. {"name"} \in SUBSET EndpointFields /\ n # "import"
        /\ EndpointForm!EndpointRequired(n) \subseteq {"name"}
    BY <1>22, <2>1, EndpointHas
       DEF EndpointForm!RenameSubmits, EndpointForm!EndpointRequired
  <2>3. EndpointForm!Request(form.target, {"name"}) \in EndpointRequests(n)
    BY <2>2, EndpointRequest
  <2>4. /\ Submits(EndpointForm!Request(form.target, {"name"})) /\ form'.busy \in BOOLEAN /\ EndpointMode(n) = "many"
        /\ Whole(n) /\ Filled /\ form'.filled = form.filled
    BY <1>22, <2>1
       DEF EndpointForm!RenameSubmits, EndpointForm!Sends, Submits, Whole, Filled, Shaped,
           EndpointMode
  <2>5. EndpointForm!EndpointSubmitsShown(EndpointForm!Request(form.target, {"name"}))
    BY <2>1 DEF EndpointForm!Request, EndpointForm!EndpointSubmitsShown, EndpointExtra
  <2>6. EndpointExtra(form', n)
    BY <2>1, <2>4 DEF Filled, EndpointExtra
  <2> QED
    BY <2>1, <2>3, <2>4, <2>5, <2>6, EndpointSends DEF Filled
<1>23. ASSUME NEW i \in DOMAIN form.sent, EndpointForm!RenameSettled(i)
      PROVE  EndpointGoes(n)
  <2>1. n = "naming" /\ EndpointPicks(n) = {Form!NoPick} /\ form.pick \in {Form!NoPick}
    BY <1>23 DEF EndpointForm!RenameSettled, EndpointForm!Named, EndpointPicks
  <2>2. Whole(n) /\ Replied
    BY <1>23, <2>1
       DEF EndpointForm!RenameSettled, EndpointForm!Named, EndpointForm!Settled,
           EndpointForm!Without, Whole, Replied, Shaped, Form!Without
  <2>3. /\ form'.pick \in {Form!NoPick} /\ form'.filled \subseteq EndpointFields
        /\ Rows(form'.rules, EndpointFields)
    BY <1>23, <2>1, EndpointHas
       DEF EndpointForm!RenameSettled, EndpointForm!Named, EndpointForm!Settled,
           EndpointForm!Without, Shaped
  <2>4. EndpointExtra(form', n)
    BY <1>23, <2>1
       DEF EndpointForm!RenameSettled, EndpointForm!Named, EndpointForm!Settled,
           EndpointForm!Without, Shaped, EndpointExtra
  <2> QED
    BY <2>1, <2>2, <2>3, <2>4, EndpointMoves
<1>24. CASE EndpointForm!RekeyOpens
  <2>1. n = "rekey" /\ EndpointPicks(n) = {Form!NoPick} /\ form.pick \in {Form!NoPick}
    BY <1>24 DEF EndpointForm!RekeyOpens, EndpointForm!Named, EndpointPicks
  <2>2. Whole(n) /\ Still
    BY <1>24, <2>1 DEF EndpointForm!RekeyOpens, EndpointForm!Named, Whole, Still, Shaped
  <2>3. /\ form'.pick \in {Form!NoPick} /\ form'.filled \subseteq EndpointFields
        /\ Rows(form'.rules, EndpointFields)
    BY <1>24, <2>1, EndpointHas DEF EndpointForm!RekeyOpens, EndpointForm!Named, Shaped
  <2>4. EndpointExtra(form', n)
    BY <1>24, <2>1
       DEF EndpointForm!RekeyOpens, EndpointForm!Named, Shaped, EndpointExtra
  <2> QED
    BY <2>1, <2>2, <2>3, <2>4, EndpointMoves
<1>25. CASE EndpointForm!RekeyTypes
  <2>1. n = "rekey" /\ EndpointPicks(n) = {Form!NoPick} /\ form.pick \in {Form!NoPick}
    BY <1>25 DEF EndpointForm!RekeyTypes, EndpointForm!OpenAs, EndpointPicks
  <2>2. {"key"} \in SUBSET EndpointFields
    BY EndpointHas
  <2>3. /\ Whole(n) /\ Still /\ Filled
        /\ form'.filled \subseteq form.filled \cup {"key"}
        /\ form'.filled \subseteq EndpointFields
    BY <1>25, <2>2, EndpointTyped DEF EndpointForm!RekeyTypes
  <2>4. EndpointExtra(form', n)
    BY <2>1, <2>3 DEF Filled, EndpointExtra
  <2> QED
    BY <2>1, <2>3, <2>4, EndpointMoves DEF Filled
<1>26. CASE EndpointForm!RekeySubmits
  <2>1. n = "rekey" /\ EndpointPicks(n) = {Form!NoPick} /\ form.pick \in {Form!NoPick}
    BY <1>26 DEF EndpointForm!RekeySubmits, EndpointForm!OpenAs, EndpointPicks
  <2>2. {"key"} \in SUBSET EndpointFields /\ n # "import"
        /\ EndpointForm!EndpointRequired(n) \subseteq {"key"}
    BY <1>26, <2>1, EndpointHas
       DEF EndpointForm!RekeySubmits, EndpointForm!EndpointRequired
  <2>3. EndpointForm!Request(form.target, {"key"}) \in EndpointRequests(n)
    BY <2>2, EndpointRequest
  <2>4. /\ Submits(EndpointForm!Request(form.target, {"key"})) /\ form'.busy \in BOOLEAN /\ EndpointMode(n) = "many"
        /\ Whole(n) /\ Filled /\ form'.filled = form.filled
    BY <1>26, <2>1
       DEF EndpointForm!RekeySubmits, EndpointForm!Sends, Submits, Whole, Filled, Shaped,
           EndpointMode
  <2>5. EndpointForm!EndpointSubmitsShown(EndpointForm!Request(form.target, {"key"}))
    BY <2>1 DEF EndpointForm!Request, EndpointForm!EndpointSubmitsShown, EndpointExtra
  <2>6. EndpointExtra(form', n)
    BY <2>1, <2>4 DEF Filled, EndpointExtra
  <2> QED
    BY <2>1, <2>3, <2>4, <2>5, <2>6, EndpointSends DEF Filled
<1>27. ASSUME NEW i \in DOMAIN form.sent, EndpointForm!RekeySettled(i)
      PROVE  EndpointGoes(n)
  <2>1. n = "rekey" /\ EndpointPicks(n) = {Form!NoPick} /\ form.pick \in {Form!NoPick}
    BY <1>27 DEF EndpointForm!RekeySettled, EndpointForm!Named, EndpointPicks
  <2>2. Whole(n) /\ Replied
    BY <1>27, <2>1
       DEF EndpointForm!RekeySettled, EndpointForm!Named, EndpointForm!Settled,
           EndpointForm!Without, Whole, Replied, Shaped, Form!Without
  <2>3. /\ form'.pick \in {Form!NoPick} /\ form'.filled \subseteq EndpointFields
        /\ Rows(form'.rules, EndpointFields)
    BY <1>27, <2>1, EndpointHas
       DEF EndpointForm!RekeySettled, EndpointForm!Named, EndpointForm!Settled,
           EndpointForm!Without, Shaped
  <2>4. EndpointExtra(form', n)
    BY <1>27, <2>1
       DEF EndpointForm!RekeySettled, EndpointForm!Named, EndpointForm!Settled,
           EndpointForm!Without, Shaped, EndpointExtra
  <2> QED
    BY <2>1, <2>2, <2>3, <2>4, EndpointMoves
<1>28. CASE EndpointForm!ByUrlOpens
  <2>1. n = "byurl" /\ EndpointPicks(n) = {Form!NoPick} /\ form.pick \in {Form!NoPick}
    BY <1>28 DEF EndpointForm!ByUrlOpens, EndpointForm!Named, EndpointPicks
  <2>2. Whole(n) /\ Still
    BY <1>28, <2>1 DEF EndpointForm!ByUrlOpens, EndpointForm!Named, Whole, Still, Shaped
  <2>3. /\ form'.pick \in {Form!NoPick} /\ form'.filled \subseteq EndpointFields
        /\ Rows(form'.rules, EndpointFields)
    BY <1>28, <2>1, EndpointHas DEF EndpointForm!ByUrlOpens, EndpointForm!Named, Shaped
  <2>4. EndpointExtra(form', n)
    BY <1>28, <2>1
       DEF EndpointForm!ByUrlOpens, EndpointForm!Named, Shaped, EndpointExtra
  <2> QED
    BY <2>1, <2>2, <2>3, <2>4, EndpointMoves
<1>29. CASE EndpointForm!ByUrlTypes
  <2>1. n = "byurl" /\ EndpointPicks(n) = {Form!NoPick} /\ form.pick \in {Form!NoPick}
    BY <1>29 DEF EndpointForm!ByUrlTypes, EndpointForm!OpenAs, EndpointPicks
  <2>2. {"name", "url"} \in SUBSET EndpointFields
    BY EndpointHas
  <2>3. /\ Whole(n) /\ Still /\ Filled
        /\ form'.filled \subseteq form.filled \cup {"name", "url"}
        /\ form'.filled \subseteq EndpointFields
    BY <1>29, <2>2, EndpointTyped DEF EndpointForm!ByUrlTypes
  <2>4. EndpointExtra(form', n)
    BY <2>1, <2>3 DEF Filled, EndpointExtra
  <2> QED
    BY <2>1, <2>3, <2>4, EndpointMoves DEF Filled
<1>30. CASE EndpointForm!ByUrlSubmits
  <2>0. form.busy \in BOOLEAN
    BY DEF EndpointFit, Fit
  <2>1. n = "byurl" /\ EndpointPicks(n) = {Form!NoPick} /\ form.pick \in {Form!NoPick}
    BY <1>30 DEF EndpointForm!ByUrlSubmits, EndpointForm!OpenAs, EndpointPicks
  <2>2. form.filled \in SUBSET EndpointFields /\ n # "import"
        /\ EndpointForm!EndpointRequired(n) \subseteq form.filled
    BY <1>30, <2>1, EndpointHas
       DEF EndpointForm!ByUrlSubmits, EndpointForm!EndpointRequired
  <2>3. EndpointForm!Request(form.target, form.filled) \in EndpointRequests(n)
    BY <2>2, EndpointRequest
  <2>4. /\ Submits(EndpointForm!Request(form.target, form.filled)) /\ form'.busy \in BOOLEAN /\ EndpointMode(n) = "many"
        /\ Whole(n) /\ Filled /\ form'.filled = form.filled
    BY <1>30, <2>1, <2>0
       DEF EndpointForm!ByUrlSubmits, EndpointForm!SendsAgain, Submits, Whole, Filled, Shaped,
           EndpointMode
  <2>5. EndpointForm!EndpointSubmitsShown(EndpointForm!Request(form.target, form.filled))
    BY <2>1 DEF EndpointForm!Request, EndpointForm!EndpointSubmitsShown, EndpointExtra
  <2>6. EndpointExtra(form', n)
    BY <2>1, <2>4 DEF Filled, EndpointExtra
  <2> QED
    BY <2>1, <2>3, <2>4, <2>5, <2>6, EndpointSends DEF Filled
<1>31. ASSUME NEW i \in DOMAIN form.sent, EndpointForm!ByUrlSettled(i)
      PROVE  EndpointGoes(n)
  <2>1. n = "byurl" /\ EndpointPicks(n) = {Form!NoPick} /\ form.pick \in {Form!NoPick}
    BY <1>31 DEF EndpointForm!ByUrlSettled, EndpointForm!Named, EndpointPicks
  <2>2. Whole(n) /\ Replied
    BY <1>31, <2>1
       DEF EndpointForm!ByUrlSettled, EndpointForm!Named, EndpointForm!Settled,
           EndpointForm!Without, Whole, Replied, Shaped, Form!Without
  <2>3. /\ form'.pick \in {Form!NoPick} /\ form'.filled \subseteq EndpointFields
        /\ Rows(form'.rules, EndpointFields)
    BY <1>31, <2>1, EndpointHas
       DEF EndpointForm!ByUrlSettled, EndpointForm!Named, EndpointForm!Settled,
           EndpointForm!Without, Shaped
  <2>4. EndpointExtra(form', n)
    BY <1>31, <2>1
       DEF EndpointForm!ByUrlSettled, EndpointForm!Named, EndpointForm!Settled,
           EndpointForm!Without, Shaped, EndpointExtra
  <2> QED
    BY <2>1, <2>2, <2>3, <2>4, EndpointMoves
<1>32. CASE EndpointForm!EraseOpens
  <2>1. n = "erase" /\ EndpointPicks(n) = {Form!NoPick} /\ form.pick \in {Form!NoPick}
    BY <1>32 DEF EndpointForm!EraseOpens, EndpointForm!Named, EndpointPicks
  <2>2. Whole(n) /\ Still
    BY <1>32, <2>1 DEF EndpointForm!EraseOpens, EndpointForm!Named, Whole, Still, Shaped
  <2>3. /\ form'.pick \in {Form!NoPick} /\ form'.filled \subseteq EndpointFields
        /\ Rows(form'.rules, EndpointFields)
    BY <1>32, <2>1, EndpointHas DEF EndpointForm!EraseOpens, EndpointForm!Named, Shaped
  <2>4. EndpointExtra(form', n)
    BY <1>32, <2>1
       DEF EndpointForm!EraseOpens, EndpointForm!Named, Shaped, EndpointExtra
  <2> QED
    BY <2>1, <2>2, <2>3, <2>4, EndpointMoves
<1>33. CASE EndpointForm!EraseSubmits
  <2>0. form.busy \in BOOLEAN
    BY DEF EndpointFit, Fit
  <2>1. n = "erase" /\ EndpointPicks(n) = {Form!NoPick} /\ form.pick \in {Form!NoPick}
    BY <1>33 DEF EndpointForm!EraseSubmits, EndpointForm!OpenAs, EndpointPicks
  <2>2. {} \in SUBSET EndpointFields /\ n # "import"
        /\ EndpointForm!EndpointRequired(n) \subseteq {}
    BY <1>33, <2>1, EndpointHas
       DEF EndpointForm!EraseSubmits, EndpointForm!EndpointRequired
  <2>3. EndpointForm!Request(form.target, {}) \in EndpointRequests(n)
    BY <2>2, EndpointRequest
  <2>4. /\ Submits(EndpointForm!Request(form.target, {})) /\ form'.busy \in BOOLEAN /\ EndpointMode(n) = "many"
        /\ Whole(n) /\ Filled /\ form'.filled = form.filled
    BY <1>33, <2>1, <2>0
       DEF EndpointForm!EraseSubmits, EndpointForm!SendsAgain, Submits, Whole, Filled, Shaped,
           EndpointMode
  <2>5. EndpointForm!EndpointSubmitsShown(EndpointForm!Request(form.target, {}))
    BY <2>1 DEF EndpointForm!Request, EndpointForm!EndpointSubmitsShown, EndpointExtra
  <2>6. EndpointExtra(form', n)
    BY <2>1, <2>4 DEF Filled, EndpointExtra
  <2> QED
    BY <2>1, <2>3, <2>4, <2>5, <2>6, EndpointSends DEF Filled
<1>34. ASSUME NEW i \in DOMAIN form.sent, EndpointForm!EraseSettled(i)
      PROVE  EndpointGoes(n)
  <2>1. n = "erase" /\ EndpointPicks(n) = {Form!NoPick} /\ form.pick \in {Form!NoPick}
    BY <1>34 DEF EndpointForm!EraseSettled, EndpointForm!Named, EndpointPicks
  <2>2. Whole(n) /\ Replied
    BY <1>34, <2>1
       DEF EndpointForm!EraseSettled, EndpointForm!Named, EndpointForm!Settled,
           EndpointForm!Without, Whole, Replied, Shaped, Form!Without
  <2>3. /\ form'.pick \in {Form!NoPick} /\ form'.filled \subseteq EndpointFields
        /\ Rows(form'.rules, EndpointFields)
    BY <1>34, <2>1, EndpointHas
       DEF EndpointForm!EraseSettled, EndpointForm!Named, EndpointForm!Settled,
           EndpointForm!Without, Shaped
  <2>4. EndpointExtra(form', n)
    BY <1>34, <2>1
       DEF EndpointForm!EraseSettled, EndpointForm!Named, EndpointForm!Settled,
           EndpointForm!Without, Shaped, EndpointExtra
  <2> QED
    BY <2>1, <2>2, <2>3, <2>4, EndpointMoves
<1>35. CASE EndpointForm!ImportOpens
  <2>1. n = "import" /\ EndpointPicks(n) = ImportPicks /\ form.pick \in ImportPicks
    BY <1>35 DEF EndpointForm!ImportOpens, EndpointForm!Named, EndpointPicks
  <2>2. Whole(n) /\ Still
    BY <1>35, <2>1
       DEF EndpointForm!ImportOpens, EndpointForm!Named, Whole, Still, Shaped
  <2>3. /\ form'.pick \in ImportPicks /\ form'.filled \subseteq EndpointFields
        /\ Rows(form'.rules, EndpointFields)
    BY <1>35, <2>1, EndpointHas
       DEF EndpointForm!ImportOpens, EndpointForm!Named, Shaped, ImportPicks
  <2>4. EndpointExtra(form', n)
    BY <1>35, <2>1
       DEF EndpointForm!ImportOpens, EndpointForm!Named, Shaped, EndpointExtra, ImportPicks,
           ImportExtra
  <2> QED
    BY <2>1, <2>2, <2>3, <2>4, EndpointMoves
<1>36. CASE EndpointForm!ImportSelects
  <2>1. n = "import" /\ EndpointPicks(n) = ImportPicks /\ form.pick \in ImportPicks
    BY <1>36 DEF EndpointForm!ImportSelects, EndpointForm!OpenAs, EndpointPicks
  <2>2. Whole(n) /\ Still
    BY <1>36, <2>1
       DEF EndpointForm!ImportSelects, EndpointForm!OpenAs, Whole, Still, Shaped
  <2>3. /\ form'.pick \in ImportPicks /\ form'.filled \subseteq EndpointFields
        /\ Rows(form'.rules, EndpointFields)
    BY <1>36, <2>1, EndpointHas
       DEF EndpointForm!ImportSelects, EndpointForm!OpenAs, Shaped, ImportPicks
  <2>4. EndpointExtra(form', n)
    BY <1>36, <2>1
       DEF EndpointForm!ImportSelects, EndpointForm!OpenAs, Shaped, EndpointExtra,
           ImportPicks, ImportExtra
  <2> QED
    BY <2>1, <2>2, <2>3, <2>4, EndpointMoves
<1>37. CASE EndpointForm!ImportStarts
  <2>1. n = "import" /\ EndpointPicks(n) = ImportPicks /\ form.pick \in ImportPicks
    BY <1>37 DEF EndpointForm!ImportStarts, EndpointForm!OpenAs, EndpointPicks
  <2>2. form.asked = <<>> /\ ~form.pick.results /\ form.sent = <<>> /\ form.pick.file \in Ids \cup {NoId}
    BY <1>37, <2>1, ImportFree DEF EndpointForm!ImportStarts, EndpointForm!ImportBusy, EndpointForm!Named, EndpointForm!OpenAs, ImportPicks
  <2>3. /\ Whole(n) /\ Asked /\ form'.filled = form.filled /\ form'.rules = form.rules
        /\ form'.pick = form.pick /\ form'.target = form.pick.file
        /\ form'.asked = Append(form.asked, form.pick.file) /\ form'.loading
    BY <1>37, <2>1, <2>2 DEF EndpointForm!ImportStarts, EndpointForm!Asks, Whole, Asked, Shaped
  <2>4. form'.asked = <<form'.target>> /\ form'.sent = <<>>
    BY <2>2, <2>3 DEF Asked
  <2>5. EndpointExtra(form', n)
    BY <2>1, <2>2, <2>3, <2>4 DEF EndpointExtra, ImportExtra
  <2> QED
    BY <2>1, <2>3, <2>5, EndpointMoves
<1>38. ASSUME NEW i \in DOMAIN form.asked, EndpointForm!ImportChecked(i)
      PROVE  EndpointGoes(n)
  <2>1. n = "import" /\ EndpointPicks(n) = ImportPicks /\ form.pick \in ImportPicks
    BY <1>38 DEF EndpointForm!ImportChecked, EndpointForm!Named, EndpointPicks
  <2>2. /\ form.asked = <<form.target>> /\ form.sent = <<>> /\ i = 1 /\ form.asked[i] = form.target
        /\ ~form.pick.results
    BY <2>1 DEF EndpointExtra, ImportExtra
  <2>3. Form!Without(form.asked, i) = <<>>
    BY <2>2, OneGone
  <2>4. CASE EndpointForm!Loaded(form, i)
    <3>1. /\ Whole(n) /\ Heard /\ form'.filled = form.filled /\ form'.rules = form.rules
          /\ form'.pick = form.pick /\ form'.asked = Form!Without(form.asked, i)
      BY <2>1, <2>4 DEF EndpointForm!Loaded, EndpointForm!Without, Form!Without, Whole, Heard, Shaped
    <3>2. EndpointExtra(form', n)
      BY <2>1, <2>2, <2>3, <3>1 DEF EndpointExtra, ImportExtra
    <3> QED
      BY <2>1, <3>1, <3>2, EndpointMoves
  <2>5. ASSUME NEW r \in EndpointForm!ImportRows,
               EndpointForm!Loaded([form EXCEPT !.open = FALSE, !.pick.results = TRUE, !.rules = r,
                                                !.shown = form.asked[i]], i)
        PROVE  EndpointGoes(n)
    <3>1. form' = [form EXCEPT !.open = FALSE, !.pick = [form.pick EXCEPT !.results = TRUE],
                               !.rules = r, !.shown = form.asked[i],
                               !.asked = Form!Without(form.asked, i), !.loading = FALSE]
      BY <2>5 DEF EndpointForm!Loaded, EndpointForm!Without, Form!Without, Shaped
    <3>2. /\ Whole(n) /\ Heard /\ form'.filled = form.filled /\ form'.rules = r
          /\ form'.pick = [form.pick EXCEPT !.results = TRUE]
          /\ form'.asked = Form!Without(form.asked, i)
          /\ form'.target = form.target /\ form'.shown = form.asked[i]
      BY <2>1, <2>2, <3>1 DEF Whole, Heard, Shaped
    <3>3. form'.pick \in ImportPicks
      BY <2>1, <3>2 DEF ImportPicks
    <3>4. EndpointExtra(form', n)
      BY <2>1, <2>2, <2>3, <3>2 DEF EndpointExtra, ImportExtra
    <3>5. Rows(form'.rules, EndpointFields)
      BY <3>2, ImportRowsFit
    <3> QED
      BY <2>1, <3>2, <3>3, <3>4, <3>5, EndpointMoves
  <2> QED
    BY <1>38, <2>4, <2>5 DEF EndpointForm!ImportChecked
<1>39. CASE EndpointForm!ImportDrags
  <2>1. n = "import" /\ EndpointPicks(n) = ImportPicks /\ form.pick \in ImportPicks
    BY <1>39 DEF EndpointForm!ImportDrags, EndpointForm!Named, EndpointPicks
  <2>2. PICK i, j \in DOMAIN form.rules :
           form' = [form EXCEPT !.rules = SubSeq(Form!Without(form.rules, i), 1, j - 1)
                                          \o <<form.rules[i]>>
                                          \o SubSeq(Form!Without(form.rules, i), j,
                                                    Len(Form!Without(form.rules, i)))]
    BY <1>39 DEF EndpointForm!ImportDrags, EndpointForm!Without, Form!Without
  <2> DEFINE s == SubSeq(Form!Without(form.rules, i), 1, j - 1) \o <<form.rules[i]>>
                  \o SubSeq(Form!Without(form.rules, i), j, Len(Form!Without(form.rules, i)))
  <2>3. Rows(s, EndpointFields)
    BY DraggedFits
  <2>4. form' = [form EXCEPT !.rules = s]
    BY <2>2
  <2> HIDE DEF s
  <2>5. /\ Whole(n) /\ Still /\ form'.filled = form.filled /\ form'.rules = s
        /\ form'.pick = form.pick /\ form'.target = form.target /\ form'.shown = form.shown
    BY <2>1, <2>4 DEF Whole, Still, Shaped
  <2>6. EndpointExtra(form', n)
    BY <2>1, <2>5 DEF EndpointExtra, ImportExtra, Still
  <2> QED
    BY <2>1, <2>3, <2>5, <2>6, EndpointMoves
<1>40. CASE EndpointForm!ImportSubmits
  <2>1. n = "import" /\ EndpointPicks(n) = ImportPicks /\ form.pick \in ImportPicks
    BY <1>40 DEF EndpointForm!ImportSubmits, EndpointForm!Named, EndpointPicks
  <2> DEFINE r == [EndpointForm!Request(form.target, {"import"}) EXCEPT !.rows = EndpointForm!Importable]
  <2>2. form.asked = <<>> /\ form.pick.results /\ ~form.busy
    BY <1>40, <2>1, ImportFree DEF EndpointForm!ImportSubmits, EndpointForm!ImportBusy
  <2>3. EndpointForm!Importable \in Seq(SUBSET EndpointFields)
    BY ImportableFits
  <2>3a. EndpointForm!Importable # <<>>
    BY <1>40 DEF EndpointForm!ImportSubmits
  <2> DEFINE q == EndpointForm!Request(form.target, {"import"})
  <2>4a. q \in Requests(EndpointFields) /\ q.to = form.target /\ q.has = {"import"}
    BY EmptySeq, EndpointHas DEF EndpointForm!Request, Requests
  <2>4b. r = [q EXCEPT !.rows = EndpointForm!Importable]
    OBVIOUS
  <2> HIDE DEF q
  <2>4. /\ r \in Requests(EndpointFields) /\ r.to = form.target /\ r.has = {"import"}
        /\ r.rows = EndpointForm!Importable
    BY <2>3, <2>4a, <2>4b DEF Requests
  <2>5. Submits(r) /\ form'.busy = TRUE /\ Whole(n) /\ Filled /\ form'.filled = form.filled
    BY <1>40, <2>1 DEF EndpointForm!ImportSubmits, EndpointForm!Sends, Submits, Whole, Filled, Shaped, q
  <2> HIDE DEF r
  <2>6. r \in EndpointRequests(n)
    BY <2>1, <2>3a, <2>4 DEF EndpointRequests, EndpointForm!EndpointRequired
  <2>7. EndpointForm!EndpointSubmitsShown(r)
    BY <2>1, <2>2, <2>4 DEF EndpointForm!EndpointSubmitsShown, EndpointExtra, ImportExtra
  <2>8. EndpointExtra(form', n)
    BY <2>1, <2>2, <2>5 DEF EndpointExtra, ImportExtra, Submits, Filled
  <2> QED
    BY <2>1, <2>2, <2>5, <2>6, <2>7, <2>8, EndpointSends DEF Filled
<1>41. ASSUME NEW i \in DOMAIN form.sent, EndpointForm!ImportSettled(i)
      PROVE  EndpointGoes(n)
  <2>1. n = "import" /\ EndpointPicks(n) = ImportPicks /\ form.pick \in ImportPicks
    BY <1>41 DEF EndpointForm!ImportSettled, EndpointForm!Named, EndpointPicks
  <2>2. form.asked = <<>>
    BY <2>1, SomeSent DEF EndpointExtra, ImportExtra
  <2>3. CASE EndpointForm!Settled(form, i)
    <3>1. /\ Whole(n) /\ Replied /\ form'.filled = form.filled /\ form'.rules = form.rules
          /\ form'.pick = form.pick /\ form'.target = form.target /\ form'.shown = form.shown
      BY <2>1, <2>3 DEF EndpointForm!Settled, EndpointForm!Without, Form!Without, Whole, Replied, Shaped
    <3>2. EndpointExtra(form', n)
      BY <2>1, <2>2, <3>1 DEF EndpointExtra, ImportExtra, Replied
    <3> QED
      BY <2>1, <3>1, <3>2, EndpointMoves
  <2>4. CASE EndpointForm!Settled([form EXCEPT !.pick.results = FALSE, !.pick.file = NoId,
                          !.target = NoId, !.shown = NoId, !.rules = <<>>], i)
    <3> DEFINE p == [[form.pick EXCEPT !.results = FALSE] EXCEPT !.file = NoId]
    <3>1. form' = [form EXCEPT !.pick = p, !.target = NoId, !.shown = NoId, !.rules = <<>>,
                               !.busy = FALSE, !.sent = Form!Without(form.sent, i)]
      BY <2>4 DEF EndpointForm!Settled, EndpointForm!Without, Form!Without, Shaped
    <3>2. p \in ImportPicks
      BY <2>1 DEF ImportPicks
    <3> HIDE DEF p
    <3>3. /\ Whole(n) /\ Replied /\ form'.filled = form.filled /\ form'.rules = <<>>
          /\ form'.pick = p /\ form'.target = NoId /\ form'.shown = NoId
      BY <2>1, <3>1 DEF Whole, Replied, Shaped
    <3>4. EndpointExtra(form', n)
      BY <2>1, <2>2, <3>3 DEF EndpointExtra, ImportExtra, Replied
    <3> QED
      BY <2>1, <3>2, <3>3, <3>4, NoRows, EndpointMoves
  <2> QED
    BY <1>41, <2>3, <2>4 DEF EndpointForm!ImportSettled
<1>42. CASE EndpointForm!ImportResultsClose
  <2>1. n = "import" /\ EndpointPicks(n) = ImportPicks /\ form.pick \in ImportPicks
    BY <1>42 DEF EndpointForm!ImportResultsClose, EndpointForm!Named, EndpointPicks
  <2>2. CASE form' = [form EXCEPT !.pick.results = FALSE]
    <3>1. Whole(n) /\ Still
      BY <2>1, <2>2 DEF Whole, Still, Shaped
    <3>2. /\ form'.pick \in ImportPicks /\ form'.filled \subseteq EndpointFields
          /\ Rows(form'.rules, EndpointFields)
      BY <2>1, <2>2, NoRows, EndpointHas DEF Shaped, ImportPicks
    <3>3. EndpointExtra(form', n)
      BY <2>1, <2>2 DEF Shaped, EndpointExtra, ImportPicks, ImportExtra
    <3> QED
      BY <2>1, <3>1, <3>2, <3>3, EndpointMoves
  <2>3. CASE ~EndpointForm!ImportBusy /\ form' = [form EXCEPT !.pick.results = FALSE, !.rules = <<>>, !.target = NoId,
                      !.shown = NoId]
    <3>1. Whole(n) /\ Still
      BY <2>1, <2>3 DEF EndpointForm!ImportBusy, Whole, Still, Shaped
    <3>2. /\ form'.pick \in ImportPicks /\ form'.filled \subseteq EndpointFields
          /\ Rows(form'.rules, EndpointFields)
      BY <2>1, <2>3, NoRows, EndpointHas DEF EndpointForm!ImportBusy, Shaped, ImportPicks
    <3>3. EndpointExtra(form', n)
      BY <2>1, <2>3
         DEF EndpointForm!ImportBusy, Shaped, EndpointExtra, ImportPicks, ImportExtra
    <3> QED
      BY <2>1, <3>1, <3>2, <3>3, EndpointMoves
  <2> QED
    BY <1>42, <2>2, <2>3 DEF EndpointForm!ImportResultsClose
<1>43. CASE EndpointForm!ConfigOpens
  <2>1. /\ n = "config" /\ EndpointPicks(n) = [changed : BOOLEAN]
        /\ form.pick \in [changed : BOOLEAN]
    BY <1>43 DEF EndpointForm!ConfigOpens, EndpointForm!Named, EndpointPicks
  <2>2. PICK h \in SUBSET {"ip"} :
           form' = [form EXCEPT !.open = TRUE, !.pick.changed = FALSE, !.filled = {"name", "url"} \cup h]
    BY <1>43 DEF EndpointForm!ConfigOpens
  <2>3. {"name", "url"} \cup h \subseteq EndpointFields
    BY EndpointHas
  <2>4. /\ Whole(n) /\ Still /\ form'.filled = {"name", "url"} \cup h /\ form'.rules = form.rules
        /\ form'.pick = [form.pick EXCEPT !.changed = FALSE] /\ form'.shown = form.shown
    BY <2>1, <2>2 DEF Whole, Still, Shaped
  <2>5. form'.pick \in [changed : BOOLEAN] /\ EndpointExtra(form', n)
    BY <2>1, <2>4 DEF EndpointExtra
  <2> QED
    BY <2>1, <2>3, <2>4, <2>5, EndpointMoves
<1>44. CASE EndpointForm!ConfigTypes
  <2>1. /\ n = "config" /\ EndpointPicks(n) = [changed : BOOLEAN]
        /\ form.pick \in [changed : BOOLEAN]
    BY <1>44 DEF EndpointForm!ConfigTypes, EndpointForm!OpenAs, EndpointPicks
  <2>2. PICK h \in EndpointForm!Typings({"name", "url", "key", "ip"}), c \in BOOLEAN :
           form' = [form EXCEPT !.filled = h, !.pick.changed = c]
    BY <1>44 DEF EndpointForm!ConfigTypes
  <2>3. h \subseteq EndpointFields
    BY EndpointHas DEF EndpointForm!Typings
  <2>4. /\ Whole(n) /\ Still /\ form'.filled = h /\ form'.rules = form.rules
        /\ form'.pick = [form.pick EXCEPT !.changed = c] /\ form'.shown = form.shown
    BY <2>1, <2>2 DEF Whole, Still, Shaped
  <2>5. form'.pick \in [changed : BOOLEAN] /\ EndpointExtra(form', n)
    BY <2>1, <2>4 DEF EndpointExtra
  <2> QED
    BY <2>1, <2>3, <2>4, <2>5, EndpointMoves
<1>45. CASE EndpointForm!ConfigSubmits
  <2>0. form.busy \in BOOLEAN
    BY DEF EndpointFit, Fit
  <2>1. /\ n = "config" /\ EndpointPicks(n) = [changed : BOOLEAN]
        /\ form.pick \in [changed : BOOLEAN]
    BY <1>45 DEF EndpointForm!ConfigSubmits, EndpointForm!OpenAs, EndpointPicks
  <2>2. form.filled \in SUBSET EndpointFields /\ n # "import"
        /\ EndpointForm!EndpointRequired(n) \subseteq form.filled
    BY <1>45, <2>1, EndpointHas
       DEF EndpointForm!ConfigSubmits, EndpointForm!EndpointRequired
  <2>3. EndpointForm!Request(NoId, form.filled) \in EndpointRequests(n)
    BY <2>2, EndpointRequest
  <2>4. /\ Submits(EndpointForm!Request(NoId, form.filled)) /\ form'.busy \in BOOLEAN /\ EndpointMode(n) = "many"
        /\ Whole(n) /\ Filled /\ form'.filled = form.filled
    BY <1>45, <2>1, <2>0
       DEF EndpointForm!ConfigSubmits, EndpointForm!SendsAgain, Submits, Whole, Filled,
           Shaped, EndpointMode
  <2>5. EndpointForm!EndpointSubmitsShown(EndpointForm!Request(NoId, form.filled))
    BY <2>1 DEF EndpointForm!Request, EndpointForm!EndpointSubmitsShown, EndpointExtra
  <2>6. EndpointExtra(form', n)
    BY <2>1, <2>4 DEF Filled, EndpointExtra
  <2> QED
    BY <2>1, <2>3, <2>4, <2>5, <2>6, EndpointSends DEF Filled
<1>46. ASSUME NEW i \in DOMAIN form.sent, EndpointForm!ConfigSettled(i)
      PROVE  EndpointGoes(n)
  <2>1. /\ n = "config" /\ EndpointPicks(n) = [changed : BOOLEAN]
        /\ form.pick \in [changed : BOOLEAN]
    BY <1>46 DEF EndpointForm!ConfigSettled, EndpointForm!Named, EndpointPicks
  <2>2. Whole(n) /\ Replied
    BY <1>46, <2>1
       DEF EndpointForm!ConfigSettled, EndpointForm!Named, EndpointForm!Settled,
           EndpointForm!Without, Whole, Replied, Shaped, Form!Without
  <2>3. /\ form'.pick \in [changed : BOOLEAN] /\ form'.filled \subseteq EndpointFields
        /\ Rows(form'.rules, EndpointFields)
    BY <1>46, <2>1, EndpointHas
       DEF EndpointForm!ConfigSettled, EndpointForm!Named, EndpointForm!Settled,
           EndpointForm!Without, Shaped
  <2>4. EndpointExtra(form', n)
    BY <1>46, <2>1
       DEF EndpointForm!ConfigSettled, EndpointForm!Named, EndpointForm!Settled,
           EndpointForm!Without, Shaped, EndpointExtra
  <2> QED
    BY <2>1, <2>2, <2>3, <2>4, EndpointMoves
<1>47. CASE EndpointForm!AskOpens
  <2>1. /\ n = "ask" /\ EndpointPicks(n) = [about : {"reset", "delete"}]
        /\ form.pick \in [about : {"reset", "delete"}]
    BY <1>47 DEF EndpointForm!AskOpens, EndpointForm!Named, EndpointPicks
  <2>2. Whole(n) /\ Still
    BY <1>47, <2>1 DEF EndpointForm!AskOpens, EndpointForm!Named, Whole, Still, Shaped
  <2>3. /\ form'.pick \in [about : {"reset", "delete"}] /\ form'.filled \subseteq EndpointFields
        /\ Rows(form'.rules, EndpointFields)
    BY <1>47, <2>1, EndpointHas DEF EndpointForm!AskOpens, EndpointForm!Named, Shaped
  <2>4. EndpointExtra(form', n)
    BY <1>47, <2>1 DEF EndpointForm!AskOpens, EndpointForm!Named, Shaped, EndpointExtra
  <2> QED
    BY <2>1, <2>2, <2>3, <2>4, EndpointMoves
<1>48. CASE EndpointForm!AskSubmits
  <2>0. form.busy \in BOOLEAN
    BY DEF EndpointFit, Fit
  <2>1. /\ n = "ask" /\ EndpointPicks(n) = [about : {"reset", "delete"}]
        /\ form.pick \in [about : {"reset", "delete"}]
    BY <1>48 DEF EndpointForm!AskSubmits, EndpointForm!OpenAs, EndpointPicks
  <2>2. {} \in SUBSET EndpointFields /\ n # "import"
        /\ EndpointForm!EndpointRequired(n) \subseteq {}
    BY <1>48, <2>1, EndpointHas
       DEF EndpointForm!AskSubmits, EndpointForm!EndpointRequired
  <2>3. EndpointForm!Request(NoId, {}) \in EndpointRequests(n)
    BY <2>2, EndpointRequest
  <2>4. /\ Submits(EndpointForm!Request(NoId, {})) /\ form'.busy \in BOOLEAN /\ EndpointMode(n) = "many"
        /\ Whole(n) /\ Filled /\ form'.filled = form.filled
    BY <1>48, <2>1, <2>0
       DEF EndpointForm!AskSubmits, EndpointForm!SendsAgain, Submits, Whole, Filled, Shaped,
           EndpointMode
  <2>5. EndpointForm!EndpointSubmitsShown(EndpointForm!Request(NoId, {}))
    BY <2>1 DEF EndpointForm!Request, EndpointForm!EndpointSubmitsShown, EndpointExtra
  <2>6. EndpointExtra(form', n)
    BY <2>1, <2>4 DEF Filled, EndpointExtra
  <2> QED
    BY <2>1, <2>3, <2>4, <2>5, <2>6, EndpointSends DEF Filled
<1>49. ASSUME NEW i \in DOMAIN form.sent, EndpointForm!AskSettled(i)
      PROVE  EndpointGoes(n)
  <2>1. /\ n = "ask" /\ EndpointPicks(n) = [about : {"reset", "delete"}]
        /\ form.pick \in [about : {"reset", "delete"}]
    BY <1>49 DEF EndpointForm!AskSettled, EndpointForm!Named, EndpointPicks
  <2>2. Whole(n) /\ Replied
    BY <1>49, <2>1
       DEF EndpointForm!AskSettled, EndpointForm!Named, EndpointForm!Settled,
           EndpointForm!Without, Whole, Replied, Shaped, Form!Without
  <2>3. /\ form'.pick \in [about : {"reset", "delete"}] /\ form'.filled \subseteq EndpointFields
        /\ Rows(form'.rules, EndpointFields)
    BY <1>49, <2>1, EndpointHas
       DEF EndpointForm!AskSettled, EndpointForm!Named, EndpointForm!Settled,
           EndpointForm!Without, Shaped
  <2>4. EndpointExtra(form', n)
    BY <1>49, <2>1
       DEF EndpointForm!AskSettled, EndpointForm!Named, EndpointForm!Settled,
           EndpointForm!Without, Shaped, EndpointExtra
  <2> QED
    BY <2>1, <2>2, <2>3, <2>4, EndpointMoves
<1>50. CASE EndpointForm!QrPressed
  <2>1. n = "qr" /\ EndpointPicks(n) = {Form!NoPick} /\ form.pick \in {Form!NoPick}
    BY <1>50 DEF EndpointForm!QrPressed, EndpointForm!Named, EndpointPicks
  <2>0. form.loading \in BOOLEAN
    BY DEF EndpointFit, Fit
  <2>2. Whole(n) /\ Asked
    BY <1>50, <2>1, <2>0 DEF EndpointForm!QrPressed, EndpointForm!Named, Whole, Asked, Shaped
  <2>3. /\ form'.pick \in {Form!NoPick} /\ form'.filled \subseteq EndpointFields
        /\ Rows(form'.rules, EndpointFields)
    BY <1>50, <2>1, EndpointHas DEF EndpointForm!QrPressed, EndpointForm!Named, Shaped
  <2>4. EndpointExtra(form', n)
    BY <1>50, <2>1 DEF EndpointForm!QrPressed, EndpointForm!Named, Shaped, EndpointExtra
  <2> QED
    BY <2>1, <2>2, <2>3, <2>4, EndpointMoves
<1>51. ASSUME NEW i \in DOMAIN form.asked, EndpointForm!QrMade(i)
      PROVE  EndpointGoes(n)
  <2>1. n = "qr" /\ EndpointPicks(n) = {Form!NoPick} /\ form.pick \in {Form!NoPick}
    BY <1>51 DEF EndpointForm!QrMade, EndpointForm!Named, EndpointPicks
  <2>2. Whole(n) /\ Heard
    BY <1>51, <2>1
       DEF EndpointForm!QrMade, EndpointForm!Named, EndpointForm!Loaded, EndpointForm!Without,
           Whole, Heard, Shaped, Form!Without
  <2>3. /\ form'.pick \in {Form!NoPick} /\ form'.filled \subseteq EndpointFields
        /\ Rows(form'.rules, EndpointFields)
    BY <1>51, <2>1, EndpointHas
       DEF EndpointForm!QrMade, EndpointForm!Named, EndpointForm!Loaded, EndpointForm!Without,
           Shaped
  <2>4. EndpointExtra(form', n)
    BY <1>51, <2>1
       DEF EndpointForm!QrMade, EndpointForm!Named, EndpointForm!Loaded, EndpointForm!Without,
           Shaped, EndpointExtra
  <2> QED
    BY <2>1, <2>2, <2>3, <2>4, EndpointMoves
<1>52. CASE EndpointForm!Closes
  <2>1. Whole(n) /\ Still /\ Filled /\ form'.filled = form.filled
    BY <1>52 DEF EndpointForm!Closes, Whole, Still, Filled, Shaped
  <2>2. EndpointExtra(form', n)
    BY <2>1 DEF Filled, EndpointExtra, ImportExtra, Still
  <2> QED
    BY <2>1, <2>2, EndpointMoves DEF Filled
<1> QED
  BY <1>1, <1>2, <1>3, <1>4, <1>5, <1>6, <1>7, <1>8, <1>9, <1>10, <1>11, <1>12, <1>13, <1>14,
     <1>15, <1>16, <1>17, <1>18, <1>19, <1>20, <1>21, <1>22, <1>23, <1>24, <1>25, <1>26,
     <1>27, <1>28, <1>29, <1>30, <1>31, <1>32, <1>33, <1>34, <1>35, <1>36, <1>37, <1>38,
     <1>39, <1>40, <1>41, <1>42, <1>43, <1>44, <1>45, <1>46, <1>47, <1>48, <1>49, <1>50,
     <1>51, <1>52
     DEF EndpointForm!EndpointFormsNext, EndpointForm!EndpointFormNames

LEMMA EndpointStarts ==
    ASSUME NEW q, NEW f \in EndpointForm!EndpointFormsOf(q)
    PROVE  f.name \in EndpointForm!EndpointFormNames /\ EndpointFit(f, f.name)
<1>1. ASSUME f = EndpointForm!AddStart
      PROVE  EndpointFit(f, "add") /\ f.name = "add"
  <2> DEFINE p == [step |-> "form", result |-> "none", own |-> FALSE]
  <2>1. Fresh(f, "add", p)
    BY <1>1 DEF EndpointForm!AddStart, EndpointForm!FormOf, Fresh, Shaped
  <2>2. p \in EndpointPicks("add")
    BY DEF EndpointPicks, AddPicks
  <2> HIDE DEF p
  <2>3. EndpointExtra(f, "add")
    BY <2>1, <2>2 DEF Fresh, EndpointExtra
  <2> QED
    BY <2>1, <2>2, <2>3, Appearance DEF EndpointFit, Fresh
<1>2. ASSUME f = EndpointForm!FirstStart
      PROVE  EndpointFit(f, "first") /\ f.name = "first"
  <2> DEFINE p == [none |-> TRUE]
  <2>1. Fresh(f, "first", p)
    BY <1>2 DEF EndpointForm!FirstStart, EndpointForm!FormOf, EndpointForm!NoPick, Fresh, Shaped
  <2>2. p \in EndpointPicks("first")
    BY DEF EndpointPicks, Form!NoPick
  <2> HIDE DEF p
  <2>3. EndpointExtra(f, "first")
    BY <2>1, <2>2 DEF Fresh, EndpointExtra
  <2> QED
    BY <2>1, <2>2, <2>3, Appearance DEF EndpointFit, Fresh
<1>3. ASSUME f = EndpointForm!RenameStart
      PROVE  EndpointFit(f, "naming") /\ f.name = "naming"
  <2> DEFINE p == [none |-> TRUE]
  <2>1. Fresh(f, "naming", p)
    BY <1>3 DEF EndpointForm!RenameStart, EndpointForm!FormOf, EndpointForm!NoPick, Fresh, Shaped
  <2>2. p \in EndpointPicks("naming")
    BY DEF EndpointPicks, Form!NoPick
  <2> HIDE DEF p
  <2>3. EndpointExtra(f, "naming")
    BY <2>1, <2>2 DEF Fresh, EndpointExtra
  <2> QED
    BY <2>1, <2>2, <2>3, Appearance DEF EndpointFit, Fresh
<1>4. ASSUME f = EndpointForm!RekeyStart
      PROVE  EndpointFit(f, "rekey") /\ f.name = "rekey"
  <2> DEFINE p == [none |-> TRUE]
  <2>1. Fresh(f, "rekey", p)
    BY <1>4 DEF EndpointForm!RekeyStart, EndpointForm!FormOf, EndpointForm!NoPick, Fresh, Shaped
  <2>2. p \in EndpointPicks("rekey")
    BY DEF EndpointPicks, Form!NoPick
  <2> HIDE DEF p
  <2>3. EndpointExtra(f, "rekey")
    BY <2>1, <2>2 DEF Fresh, EndpointExtra
  <2> QED
    BY <2>1, <2>2, <2>3, Appearance DEF EndpointFit, Fresh
<1>5. ASSUME f = EndpointForm!ByUrlStart
      PROVE  EndpointFit(f, "byurl") /\ f.name = "byurl"
  <2> DEFINE p == [none |-> TRUE]
  <2>1. Fresh(f, "byurl", p)
    BY <1>5 DEF EndpointForm!ByUrlStart, EndpointForm!FormOf, EndpointForm!NoPick, Fresh, Shaped
  <2>2. p \in EndpointPicks("byurl")
    BY DEF EndpointPicks, Form!NoPick
  <2> HIDE DEF p
  <2>3. EndpointExtra(f, "byurl")
    BY <2>1, <2>2 DEF Fresh, EndpointExtra
  <2> QED
    BY <2>1, <2>2, <2>3, Appearance DEF EndpointFit, Fresh
<1>6. ASSUME f = EndpointForm!EraseStart
      PROVE  EndpointFit(f, "erase") /\ f.name = "erase"
  <2> DEFINE p == [none |-> TRUE]
  <2>1. Fresh(f, "erase", p)
    BY <1>6 DEF EndpointForm!EraseStart, EndpointForm!FormOf, EndpointForm!NoPick, Fresh, Shaped
  <2>2. p \in EndpointPicks("erase")
    BY DEF EndpointPicks, Form!NoPick
  <2> HIDE DEF p
  <2>3. EndpointExtra(f, "erase")
    BY <2>1, <2>2 DEF Fresh, EndpointExtra
  <2> QED
    BY <2>1, <2>2, <2>3, Appearance DEF EndpointFit, Fresh
<1>7. ASSUME f = EndpointForm!ImportStart
      PROVE  EndpointFit(f, "import") /\ f.name = "import"
  <2> DEFINE p == [file |-> NoId, results |-> FALSE]
  <2>1. Fresh(f, "import", p)
    BY <1>7 DEF EndpointForm!ImportStart, EndpointForm!FormOf, Fresh, Shaped
  <2>2. p \in EndpointPicks("import")
    BY DEF EndpointPicks, ImportPicks
  <2> HIDE DEF p
  <2>3. EndpointExtra(f, "import")
    <3>1. p.results = FALSE
      BY DEF p
    <3>2. f.asked = <<>>
      BY <1>7 DEF EndpointForm!ImportStart, EndpointForm!FormOf
    <3> QED
      BY <2>1, <3>1, <3>2 DEF Fresh, EndpointExtra, ImportExtra
  <2> QED
    BY <2>1, <2>2, <2>3, Appearance DEF EndpointFit, Fresh
<1>8. ASSUME f = EndpointForm!ConfigStart
      PROVE  EndpointFit(f, "config") /\ f.name = "config"
  <2> DEFINE p == [changed |-> FALSE]
  <2>1. Fresh(f, "config", p)
    BY <1>8 DEF EndpointForm!ConfigStart, EndpointForm!FormOf, Fresh, Shaped
  <2>2. p \in EndpointPicks("config")
    BY DEF EndpointPicks
  <2> HIDE DEF p
  <2>3. EndpointExtra(f, "config")
    BY <2>1, <2>2 DEF Fresh, EndpointExtra
  <2> QED
    BY <2>1, <2>2, <2>3, Appearance DEF EndpointFit, Fresh
<1>9. ASSUME NEW w \in {"reset", "delete"}, f = EndpointForm!AskStart(w)
      PROVE  EndpointFit(f, "ask") /\ f.name = "ask"
  <2> DEFINE p == [about |-> w]
  <2>1. Fresh(f, "ask", p)
    BY <1>9 DEF EndpointForm!AskStart, EndpointForm!FormOf, Fresh, Shaped
  <2>2. p \in EndpointPicks("ask")
    BY DEF EndpointPicks
  <2> HIDE DEF p
  <2>3. EndpointExtra(f, "ask")
    BY <2>1, <2>2 DEF Fresh, EndpointExtra
  <2> QED
    BY <2>1, <2>2, <2>3, Appearance DEF EndpointFit, Fresh
<1>10. ASSUME f = EndpointForm!QrStart
      PROVE  EndpointFit(f, "qr") /\ f.name = "qr"
  <2> DEFINE p == [none |-> TRUE]
  <2>1. Fresh(f, "qr", p)
    BY <1>10 DEF EndpointForm!QrStart, EndpointForm!FormOf, EndpointForm!NoPick, Fresh, Shaped
  <2>2. p \in EndpointPicks("qr")
    BY DEF EndpointPicks, Form!NoPick
  <2> HIDE DEF p
  <2>3. EndpointExtra(f, "qr")
    BY <2>1, <2>2 DEF Fresh, EndpointExtra
  <2> QED
    BY <2>1, <2>2, <2>3, Appearance DEF EndpointFit, Fresh
<1> QED
  BY <1>1, <1>2, <1>3, <1>4, <1>5, <1>6, <1>7, <1>8, <1>9, <1>10 DEF EndpointForm!EndpointFormsOf, EndpointForm!EndpointFormNames

-----------------------------------------------------------------------------
(* The tabs of the settings                                                *)

SecurityPicks ==
    [dialog : SettingsForm!SecurityDialogs, bound : SUBSET SettingsForm!Providers]

CleanupPicks == [ready : BOOLEAN, dialog : BOOLEAN, triggering : BOOLEAN]

VersionPicks ==
    [ready : BOOLEAN, updates : SUBSET SettingsForm!Successors, can : BOOLEAN,
     release : SettingsForm!Successors \cup {"none"}]

SettingsPicks(n) ==
    CASE n = "security" -> SecurityPicks
      [] n = "cleanup" -> CleanupPicks
      [] OTHER -> VersionPicks

SettingsFields == SettingsForm!SettingsFields

Trigger(r) == "trigger" \in r.has

\* Nothing is sent without what goes with it; the cleanup sends its settings or starts.
SettingsRequests(n) ==
    {r \in Requests(SettingsFields) :
        /\ r.has # {}
        /\ "current" \in r.has <=> "new" \in r.has
        /\ "days" \in r.has <=> "max" \in r.has
        /\ n = "cleanup" => (Trigger(r) <=> "days" \notin r.has)}

SettingsMode(n) == IF n = "cleanup" THEN "many" ELSE "flag"

\* Either flag of the cleanup stands for one submission under way.
CleanupExtra(f) ==
    /\ {"days", "max"} \subseteq f.filled /\ f.filled \subseteq SettingsForm!CleanupFields
    /\ \A i, j \in DOMAIN f.sent : i # j => (Trigger(f.sent[i]) <=> ~Trigger(f.sent[j]))
    /\ \A i \in DOMAIN f.sent : IF Trigger(f.sent[i]) THEN f.pick.triggering ELSE f.busy
    /\ f.busy => \E i \in DOMAIN f.sent : ~Trigger(f.sent[i])

SettingsExtra(f, n) == n = "cleanup" => CleanupExtra(f)

SettingsFit(f, n) ==
    Fit(f, n, SettingsFields, SettingsPicks(n), SettingsRequests(n), SettingsMode(n)) /\ SettingsExtra(f, n)

\* A step keeps the form typed, and submits what is shown.
SettingsGoes(n) == SettingsFit(form', n) /\ (Quiet \/ SettingsForm!SettingsSubmitsShown(Last))

LEMMA SettingsMoves ==
    ASSUME NEW n, SettingsFit(form, n), Whole(n),
           Still \/ Stopped \/ Asked \/ Heard \/ Replied \/ AskedAgain,
           form'.pick \in SettingsPicks(n), form'.filled \subseteq SettingsFields,
           Rows(form'.rules, SettingsFields), SettingsExtra(form', n)
    PROVE  SettingsGoes(n)
  BY Steps DEF SettingsFit, SettingsGoes

LEMMA SettingsSends ==
    ASSUME NEW n, SettingsFit(form, n), NEW r \in SettingsRequests(n), Submits(r),
           (SettingsMode(n) = "flag" => ~form.busy /\ form'.busy = TRUE), form'.busy \in BOOLEAN, Whole(n),
           form'.pick \in SettingsPicks(n), form'.filled \subseteq SettingsFields,
           Rows(form'.rules, SettingsFields), SettingsExtra(form', n), SettingsForm!SettingsSubmitsShown(r)
    PROVE  SettingsGoes(n)
<1>1. Fit(form', n, SettingsFields, SettingsPicks(n), SettingsRequests(n), SettingsMode(n)) /\ Last = r
  BY Submissions DEF SettingsFit, SettingsMode
<1> QED
  BY <1>1 DEF SettingsFit, SettingsGoes

LEMMA SettingsTyped ==
    ASSUME NEW n, SettingsFit(form, n), NEW fields \in SUBSET SettingsFields, SettingsForm!Types(fields)
    PROVE  /\ Whole(n) /\ Still /\ Filled
           /\ form'.filled \subseteq form.filled \cup fields /\ form'.filled \subseteq SettingsFields
<1>1. PICK h \in SUBSET (form.filled \cup fields) : form' = [form EXCEPT !.filled = h]
  BY DEF SettingsForm!Types, SettingsForm!Typings
<1> QED
  BY <1>1 DEF SettingsFit, Fit, Shaped, Whole, Still, Filled

LEMMA SettingsHas ==
    {"current", "new", "confirm", "username", "github", "cloudflare", "unbind", "days", "interval",
     "max", "trigger", "stable", "beta"} \subseteq SettingsFields
  BY DEF SettingsFields, SettingsForm!SettingsFields

LEMMA SettingsRequest ==
    ASSUME NEW n, NEW h \in SUBSET SettingsFields, h # {}, "current" \in h <=> "new" \in h,
           "days" \in h <=> "max" \in h, n = "cleanup" => ("trigger" \in h <=> "days" \notin h)
    PROVE  SettingsForm!Request(NoId, h) \in SettingsRequests(n)
  BY EmptySeq DEF SettingsForm!Request, SettingsRequests, Requests, Trigger

LEMMA SecurityStarts ==
    ASSUME NEW f, f = SettingsForm!SecurityStart
    PROVE  SettingsFit(f, "security") /\ f.sent = <<>>
<1>1. f = [name |-> "security", open |-> TRUE, target |-> NoId, shown |-> NoId,
           pick |-> SettingsForm!SecurityPick, filled |-> {}, rules |-> <<>>, asked |-> <<NoId>>,
           loading |-> FALSE, busy |-> FALSE, sent |-> <<>>]
  BY DEF SettingsForm!SecurityStart, SettingsForm!FormOf
<1>2. f.pick \in SettingsPicks("security")
  BY <1>1 DEF SettingsPicks, SecurityPicks, SettingsForm!SecurityPick, SettingsForm!SecurityDialogs
<1>3. /\ Shaped(f) /\ f.name = "security" /\ f.open \in BOOLEAN /\ f.loading \in BOOLEAN
      /\ f.busy = FALSE /\ f.target = NoId /\ f.shown = NoId /\ f.filled \subseteq SettingsFields
      /\ f.rules = <<>> /\ f.asked = <<NoId>> /\ f.sent = <<>>
  BY <1>1 DEF Shaped
<1>4. SettingsExtra(f, "security")
  BY DEF SettingsExtra
<1> QED
  BY <1>2, <1>3, <1>4, Begins DEF SettingsFit

LEMMA CleanupFits ==
    ASSUME SettingsFit(form, "cleanup")
    PROVE  CleanupExtra(form) /\ form.sent \in Seq(SettingsRequests("cleanup"))
           /\ Len(form.sent) \in Nat
  BY NoneOrSome DEF SettingsFit, SettingsExtra, Fit, Sending

\* Settings are sent when none are under way, ...
LEMMA CleanupSends ==
    ASSUME SettingsFit(form, "cleanup"), NEW r, ~Trigger(r), Submits(r), form.busy = FALSE, form'.busy = TRUE,
           form'.filled = form.filled, form'.pick = form.pick
    PROVE  CleanupExtra(form')
<1> DEFINE s == form.sent
           t == form'.sent
<1>1. /\ Len(s) + 1 \in DOMAIN t /\ t[Len(s) + 1] = r
      /\ \A j \in DOMAIN s : j \in DOMAIN t /\ j # Len(s) + 1 /\ t[j] = s[j]
      /\ \A j \in DOMAIN t : j \in DOMAIN s \/ j = Len(s) + 1
  BY CleanupFits, Appended DEF Submits
<1>2. \A j \in DOMAIN s : Trigger(s[j]) /\ form.pick.triggering
  BY CleanupFits DEF CleanupExtra
<1>3. ASSUME NEW i \in DOMAIN t, NEW j \in DOMAIN t, i # j
      PROVE  Trigger(t[i]) <=> ~Trigger(t[j])
  BY <1>1, <1>2, <1>3, CleanupFits DEF CleanupExtra
<1>4. \A i \in DOMAIN t : IF Trigger(t[i]) THEN form'.pick.triggering ELSE form'.busy
  BY <1>1, <1>2
<1>5. \E i \in DOMAIN t : ~Trigger(t[i])
  BY <1>1
<1> QED
  BY <1>3, <1>4, <1>5, CleanupFits DEF CleanupExtra

\* ... the cleanup is started when it is not under way, ...
LEMMA CleanupStarts ==
    ASSUME SettingsFit(form, "cleanup"), NEW r, Trigger(r), Submits(r), ~form.pick.triggering,
           form'.pick.triggering, form'.busy = form.busy, form'.filled = form.filled
    PROVE  CleanupExtra(form')
<1> DEFINE s == form.sent
           t == form'.sent
<1>1. /\ Len(s) + 1 \in DOMAIN t /\ t[Len(s) + 1] = r
      /\ \A j \in DOMAIN s : j \in DOMAIN t /\ j # Len(s) + 1 /\ t[j] = s[j]
      /\ \A j \in DOMAIN t : j \in DOMAIN s \/ j = Len(s) + 1
  BY CleanupFits, Appended DEF Submits
<1>2. \A j \in DOMAIN s : ~Trigger(s[j]) /\ form.busy
  BY CleanupFits DEF CleanupExtra
<1>3. ASSUME NEW i \in DOMAIN t, NEW j \in DOMAIN t, i # j
      PROVE  Trigger(t[i]) <=> ~Trigger(t[j])
  BY <1>1, <1>2, <1>3, CleanupFits DEF CleanupExtra
<1>4. \A i \in DOMAIN t : IF Trigger(t[i]) THEN form'.pick.triggering ELSE form'.busy
  BY <1>1, <1>2
<1>5. form'.busy => \E i \in DOMAIN t : ~Trigger(t[i])
  BY <1>1, <1>2, CleanupFits DEF CleanupExtra
<1> QED
  BY <1>3, <1>4, <1>5, CleanupFits DEF CleanupExtra

\* ... and what is left when one is answered is the other.
LEMMA CleanupLeft ==
    ASSUME SettingsFit(form, "cleanup"), NEW i \in DOMAIN form.sent,
           NEW t, t = Form!Without(form.sent, i)
    PROVE  /\ t \in Seq(SettingsRequests("cleanup")) /\ Len(t) < Len(form.sent)
           /\ \A j \in DOMAIN t : Trigger(t[j]) <=> ~Trigger(form.sent[i])
           /\ \A j, k \in DOMAIN t : j = k
           /\ \A j \in DOMAIN t : \E k \in DOMAIN form.sent : t[j] = form.sent[k]
           /\ \A k \in DOMAIN form.sent : k # i => \E j \in DOMAIN t : t[j] = form.sent[k]
<1> DEFINE s == form.sent
<1>0. s \in Seq(SettingsRequests("cleanup")) /\ i \in DOMAIN s
  BY CleanupFits
<1>1. OthersOf(s, i, t)
  BY <1>0, Others
<1>2. /\ t \in Seq(SettingsRequests("cleanup")) /\ Len(t) = Len(s) - 1 /\ Len(s) \in Nat
  BY CleanupFits, WithoutOne
<1>3. \A k, m \in DOMAIN s : k # m => (Trigger(s[k]) <=> ~Trigger(s[m]))
  BY CleanupFits DEF CleanupExtra
<1>4. \A j \in DOMAIN t : Trigger(t[j]) <=> ~Trigger(s[i])
  BY <1>1, <1>3 DEF OthersOf
<1>5. ASSUME NEW j \in DOMAIN t, NEW l \in DOMAIN t, j # l
      PROVE  FALSE
  <2>1. \E k, m \in DOMAIN s : k # m /\ k # i /\ m # i /\ t[j] = s[k] /\ t[l] = s[m]
    BY <1>1, <1>5 DEF OthersOf
  <2> QED
    BY <1>3, <2>1
<1>6. Len(t) < Len(s)
  BY <1>2
<1> QED
  BY <1>1, <1>2, <1>4, <1>5, <1>6 DEF OthersOf

LEMMA CleanupAnswered ==
    ASSUME SettingsFit(form, "cleanup"), NEW i \in DOMAIN form.sent, ~Trigger(form.sent[i]),
           form'.sent = Form!Without(form.sent, i), form'.busy = FALSE,
           form'.pick.triggering = form.pick.triggering, form'.filled = form.filled
    PROVE  CleanupExtra(form')
<1>1. /\ \A j \in DOMAIN form'.sent : Trigger(form'.sent[j])
      /\ \A j, k \in DOMAIN form'.sent : j = k
      /\ \A j \in DOMAIN form'.sent : \E k \in DOMAIN form.sent : form'.sent[j] = form.sent[k]
  BY CleanupLeft
<1> QED
  BY <1>1, CleanupFits DEF CleanupExtra

LEMMA TriggerAnswered ==
    ASSUME SettingsFit(form, "cleanup"), NEW i \in DOMAIN form.sent, Trigger(form.sent[i]),
           form'.sent = Form!Without(form.sent, i), form'.busy = form.busy,
           form'.pick.triggering = FALSE, form'.filled = form.filled
    PROVE  /\ CleanupExtra(form') /\ Quiet
           /\ Sending(form'.busy, form'.sent, SettingsRequests("cleanup"), "many")
<1>1. /\ form'.sent \in Seq(SettingsRequests("cleanup")) /\ Len(form'.sent) < Len(form.sent)
      /\ \A j \in DOMAIN form'.sent : ~Trigger(form'.sent[j])
      /\ \A j, k \in DOMAIN form'.sent : j = k
      /\ \A j \in DOMAIN form'.sent : \E k \in DOMAIN form.sent : form'.sent[j] = form.sent[k]
      /\ \A k \in DOMAIN form.sent : k # i => \E j \in DOMAIN form'.sent : form'.sent[j] = form.sent[k]
  BY CleanupLeft
<1>2. form.busy => \E j \in DOMAIN form'.sent : ~Trigger(form'.sent[j])
  BY <1>1, CleanupFits DEF CleanupExtra
<1>3. CleanupExtra(form')
  BY <1>1, <1>2, CleanupFits DEF CleanupExtra
<1>4. form'.busy => form'.sent # <<>>
  BY <1>2, SomeSent
<1>5. Len(form'.sent) <= MaxSent
  <2>1. Len(form.sent) <= MaxSent
    BY DEF SettingsFit, Fit, Sending
  <2> QED
    BY <1>1, <2>1, CleanupFits, NoneOrSome, FormBounds
<1>6. Sending(form'.busy, form'.sent, SettingsRequests("cleanup"), "many")
  BY <1>1, <1>4, <1>5 DEF Sending
<1> QED
  BY <1>1, <1>3, <1>6 DEF Quiet

\* Whatever is done in a form, it stays typed and shows what it submits.
LEMMA SettingsFormsStep ==
    ASSUME NEW n \in SettingsForm!SettingsFormNames, SettingsFit(form, n), SettingsForm!SettingsFormsNext
    PROVE  SettingsGoes(n)
<1>n. /\ form.name = n /\ form.pick \in SettingsPicks(n) /\ form.filled \subseteq SettingsFields
      /\ form.target \in Ids \cup {NoId} /\ form.shown \in Ids \cup {NoId}
      /\ form.open \in BOOLEAN /\ Rows(form.rules, SettingsFields) /\ Shaped(form) /\ SettingsExtra(form, n)
      /\ \A i \in DOMAIN form.asked : form.asked[i] \in Ids \cup {NoId}
  BY DEF SettingsFit, Fit, Asking
<1> USE <1>n
<1>1. ASSUME NEW i \in DOMAIN form.asked, SettingsForm!SecurityHeard(i)
      PROVE  SettingsGoes(n)
  <2>1. n = "security" /\ SettingsPicks(n) = SecurityPicks /\ form.pick \in SecurityPicks
    BY <1>1 DEF SettingsForm!SecurityHeard, SettingsForm!Named, SettingsPicks
  <2>2. CASE SettingsForm!Loaded(form, i)
    <3>1. Whole(n) /\ Heard
      BY <2>1, <2>2
         DEF SettingsForm!Loaded, SettingsForm!Without, Form!Without, Whole, Heard, Shaped
    <3>2. /\ form'.pick \in SecurityPicks /\ form'.filled \subseteq SettingsFields
          /\ Rows(form'.rules, SettingsFields)
      BY <2>1, <2>2, SettingsHas
         DEF SettingsForm!Loaded, SettingsForm!Without, Shaped, SecurityPicks
    <3>3. SettingsExtra(form', n)
      BY <2>1, <2>2
         DEF SettingsForm!Loaded, SettingsForm!Without, Shaped, SettingsExtra, SecurityPicks
    <3> QED
      BY <2>1, <3>1, <3>2, <3>3, SettingsMoves
  <2>3. ASSUME NEW p \in SettingsForm!Providers, SettingsForm!Loaded([form EXCEPT !.filled = @ \cup {p}, !.pick.bound = @ \cup {p}], i)
       PROVE  SettingsGoes(n)
    <3>1. Whole(n) /\ Heard
      BY <2>1, <2>3
         DEF SettingsForm!Loaded, SettingsForm!Providers, SettingsForm!Without, Form!Without,
             Whole, Heard, Shaped
    <3>2. /\ form'.pick \in SecurityPicks /\ form'.filled \subseteq SettingsFields
          /\ Rows(form'.rules, SettingsFields)
      BY <2>1, <2>3, SettingsHas
         DEF SettingsForm!Loaded, SettingsForm!Providers, SettingsForm!Without, Shaped,
             SecurityPicks
    <3>3. SettingsExtra(form', n)
      BY <2>1, <2>3
         DEF SettingsForm!Loaded, SettingsForm!Providers, SettingsForm!Without, Shaped,
             SettingsExtra, SecurityPicks
    <3> QED
      BY <2>1, <3>1, <3>2, <3>3, SettingsMoves
  <2> QED
    BY <1>1, <2>2, <2>3 DEF SettingsForm!SecurityHeard
<1>2. CASE SettingsForm!SecurityOpens
  <2>1. n = "security" /\ SettingsPicks(n) = SecurityPicks /\ form.pick \in SecurityPicks
    BY <1>2
       DEF SettingsForm!SecurityOpens, SettingsForm!Named, SettingsForm!SecurityIn,
           SettingsPicks
  <2>2. PICK d \in SettingsForm!SecurityDialogs : form' = [form EXCEPT !.pick.dialog = d]
    BY <1>2
       DEF SettingsForm!SecurityOpens, SettingsForm!Turns, SettingsForm!SecurityDialogs,
           SettingsForm!Providers, SettingsForm!BoundProvider
  <2>3. /\ Whole(n) /\ Still /\ form'.filled = form.filled /\ form'.rules = form.rules
        /\ form'.pick = [form.pick EXCEPT !.dialog = d]
    BY <2>1, <2>2 DEF Whole, Still, Shaped
  <2>4. form'.pick \in SecurityPicks /\ SettingsExtra(form', n)
    BY <2>1, <2>3 DEF SecurityPicks, SettingsExtra
  <2> QED
    BY <2>1, <2>3, <2>4, SettingsMoves
<1>3. CASE SettingsForm!SecuritySelects
  <2>1. n = "security" /\ SettingsPicks(n) = SecurityPicks /\ form.pick \in SecurityPicks
    BY <1>3
       DEF SettingsForm!SecuritySelects, SettingsForm!Named, SettingsForm!SecurityIn,
           SettingsPicks
  <2>2. PICK d \in SettingsForm!SecurityDialogs : form' = [form EXCEPT !.pick.dialog = d]
    BY <1>3
       DEF SettingsForm!SecuritySelects, SettingsForm!Turns, SettingsForm!SecurityDialogs,
           SettingsForm!Providers
  <2>3. /\ Whole(n) /\ Still /\ form'.filled = form.filled /\ form'.rules = form.rules
        /\ form'.pick = [form.pick EXCEPT !.dialog = d]
    BY <2>1, <2>2 DEF Whole, Still, Shaped
  <2>4. form'.pick \in SecurityPicks /\ SettingsExtra(form', n)
    BY <2>1, <2>3 DEF SecurityPicks, SettingsExtra
  <2> QED
    BY <2>1, <2>3, <2>4, SettingsMoves
<1>4. CASE SettingsForm!SecurityCloses
  <2>1. n = "security" /\ SettingsPicks(n) = SecurityPicks /\ form.pick \in SecurityPicks
    BY <1>4 DEF SettingsForm!SecurityCloses, SettingsForm!Named, SettingsPicks
  <2>2. PICK d \in SettingsForm!SecurityDialogs : form' = [form EXCEPT !.pick.dialog = d]
    BY <1>4
       DEF SettingsForm!SecurityCloses, SettingsForm!Turns, SettingsForm!SecurityDialogs,
           SettingsForm!Providers
  <2>3. /\ Whole(n) /\ Still /\ form'.filled = form.filled /\ form'.rules = form.rules
        /\ form'.pick = [form.pick EXCEPT !.dialog = d]
    BY <2>1, <2>2 DEF Whole, Still, Shaped
  <2>4. form'.pick \in SecurityPicks /\ SettingsExtra(form', n)
    BY <2>1, <2>3 DEF SecurityPicks, SettingsExtra
  <2> QED
    BY <2>1, <2>3, <2>4, SettingsMoves
<1>5. CASE SettingsForm!PasswordTypes
  <2>1. n = "security" /\ SettingsPicks(n) = SecurityPicks /\ form.pick \in SecurityPicks
    BY <1>5
       DEF SettingsForm!PasswordTypes, SettingsForm!Named, SettingsForm!SecurityIn,
           SettingsPicks
  <2>2. SettingsForm!PasswordNeeds \in SUBSET SettingsFields
    BY SettingsHas DEF SettingsForm!PasswordNeeds
  <2>3. /\ Whole(n) /\ Still /\ Filled
        /\ form'.filled \subseteq form.filled \cup SettingsForm!PasswordNeeds
        /\ form'.filled \subseteq SettingsFields
    BY <1>5, <2>2, SettingsTyped DEF SettingsForm!PasswordTypes
  <2>4. SettingsExtra(form', n)
    BY <2>1, <2>3 DEF Filled, SettingsExtra, SecurityPicks
  <2> QED
    BY <2>1, <2>3, <2>4, SettingsMoves DEF Filled
<1>6. CASE SettingsForm!UsernameTypes
  <2>1. n = "security" /\ SettingsPicks(n) = SecurityPicks /\ form.pick \in SecurityPicks
    BY <1>6
       DEF SettingsForm!UsernameTypes, SettingsForm!Named, SettingsForm!SecurityIn,
           SettingsPicks
  <2>2. {"username"} \in SUBSET SettingsFields
    BY SettingsHas
  <2>3. /\ Whole(n) /\ Still /\ Filled
        /\ form'.filled \subseteq form.filled \cup {"username"}
        /\ form'.filled \subseteq SettingsFields
    BY <1>6, <2>2, SettingsTyped DEF SettingsForm!UsernameTypes
  <2>4. SettingsExtra(form', n)
    BY <2>1, <2>3 DEF Filled, SettingsExtra, SecurityPicks
  <2> QED
    BY <2>1, <2>3, <2>4, SettingsMoves DEF Filled
<1>7. CASE SettingsForm!ProviderTypes
  <2>1. n = "security" /\ SettingsPicks(n) = SecurityPicks /\ form.pick \in SecurityPicks
    BY <1>7
       DEF SettingsForm!ProviderTypes, SettingsForm!Named, SettingsForm!SecurityIn,
           SettingsPicks
  <2>2. PICK p \in SettingsForm!Providers : SettingsForm!Types({p})
    BY <1>7 DEF SettingsForm!ProviderTypes
  <2>3. {p} \in SUBSET SettingsFields
    BY SettingsHas DEF SettingsForm!Providers
  <2>4. Whole(n) /\ Still /\ Filled /\ form'.filled \subseteq SettingsFields
    BY <2>2, <2>3, SettingsTyped
  <2>5. SettingsExtra(form', n)
    BY <2>1 DEF SettingsExtra
  <2> QED
    BY <2>1, <2>4, <2>5, SettingsMoves DEF Filled
<1>8. CASE SettingsForm!PasswordSubmits
  <2>1. n = "security" /\ SettingsPicks(n) = SecurityPicks /\ form.pick \in SecurityPicks
    BY <1>8
       DEF SettingsForm!PasswordSubmits, SettingsForm!Named, SettingsForm!SecurityIn,
           SettingsPicks
  <2>2. /\ {"current", "new"} \in SUBSET SettingsFields /\ {"current", "new"} # {}
        /\ "current" \in {"current", "new"} <=> "new" \in {"current", "new"}
        /\ "days" \in {"current", "new"} <=> "max" \in {"current", "new"}
        /\ n # "cleanup"
    BY <1>8, <2>1, SettingsHas DEF SettingsForm!PasswordSubmits
  <2>3. SettingsForm!Request(NoId, {"current", "new"}) \in SettingsRequests(n)
    BY <2>2, SettingsRequest
  <2>4. /\ Submits(SettingsForm!Request(NoId, {"current", "new"})) /\ ~form.busy /\ form'.busy = TRUE
        /\ Whole(n) /\ Filled /\ form'.filled = form.filled
    BY <1>8, <2>1
       DEF SettingsForm!PasswordSubmits, SettingsForm!Sends, Submits, Whole, Filled, Shaped
  <2>5. SettingsForm!SettingsSubmitsShown(SettingsForm!Request(NoId, {"current", "new"}))
    BY <1>8, <2>1
       DEF SettingsForm!PasswordSubmits, SettingsForm!SecurityIn, SettingsForm!Request,
           SettingsForm!Named, SettingsForm!SettingsSubmitsShown
  <2>6. SettingsExtra(form', n)
    BY <2>2 DEF SettingsExtra
  <2> QED
    BY <2>1, <2>3, <2>4, <2>5, <2>6, SettingsSends DEF Filled
<1>9. CASE SettingsForm!UsernameSubmits
  <2>1. n = "security" /\ SettingsPicks(n) = SecurityPicks /\ form.pick \in SecurityPicks
    BY <1>9
       DEF SettingsForm!UsernameSubmits, SettingsForm!Named, SettingsForm!SecurityIn,
           SettingsPicks
  <2>2. /\ {"username"} \in SUBSET SettingsFields /\ {"username"} # {}
        /\ "current" \in {"username"} <=> "new" \in {"username"}
        /\ "days" \in {"username"} <=> "max" \in {"username"}
        /\ n # "cleanup"
    BY <1>9, <2>1, SettingsHas DEF SettingsForm!UsernameSubmits
  <2>3. SettingsForm!Request(NoId, {"username"}) \in SettingsRequests(n)
    BY <2>2, SettingsRequest
  <2>4. /\ Submits(SettingsForm!Request(NoId, {"username"})) /\ ~form.busy /\ form'.busy = TRUE
        /\ Whole(n) /\ Filled /\ form'.filled = form.filled
    BY <1>9, <2>1
       DEF SettingsForm!UsernameSubmits, SettingsForm!Sends, Submits, Whole, Filled, Shaped
  <2>5. SettingsForm!SettingsSubmitsShown(SettingsForm!Request(NoId, {"username"}))
    BY <1>9, <2>1
       DEF SettingsForm!UsernameSubmits, SettingsForm!SecurityIn, SettingsForm!Request,
           SettingsForm!Named, SettingsForm!SettingsSubmitsShown
  <2>6. SettingsExtra(form', n)
    BY <2>2 DEF SettingsExtra
  <2> QED
    BY <2>1, <2>3, <2>4, <2>5, <2>6, SettingsSends DEF Filled
<1>10. CASE SettingsForm!GitHubSubmits
  <2>1. n = "security" /\ SettingsPicks(n) = SecurityPicks /\ form.pick \in SecurityPicks
    BY <1>10
       DEF SettingsForm!GitHubSubmits, SettingsForm!Named, SettingsForm!SecurityIn,
           SettingsPicks
  <2>2. /\ {"github"} \in SUBSET SettingsFields /\ {"github"} # {}
        /\ "current" \in {"github"} <=> "new" \in {"github"}
        /\ "days" \in {"github"} <=> "max" \in {"github"}
        /\ n # "cleanup"
    BY <1>10, <2>1, SettingsHas DEF SettingsForm!GitHubSubmits
  <2>3. SettingsForm!Request(NoId, {"github"}) \in SettingsRequests(n)
    BY <2>2, SettingsRequest
  <2>4. /\ Submits(SettingsForm!Request(NoId, {"github"})) /\ ~form.busy /\ form'.busy = TRUE
        /\ Whole(n) /\ Filled /\ form'.filled = form.filled
    BY <1>10, <2>1
       DEF SettingsForm!GitHubSubmits, SettingsForm!Sends, Submits, Whole, Filled, Shaped
  <2>5. SettingsForm!SettingsSubmitsShown(SettingsForm!Request(NoId, {"github"}))
    BY <1>10, <2>1
       DEF SettingsForm!GitHubSubmits, SettingsForm!SecurityIn, SettingsForm!Request,
           SettingsForm!Named, SettingsForm!SettingsSubmitsShown
  <2>6. SettingsExtra(form', n)
    BY <2>2 DEF SettingsExtra
  <2> QED
    BY <2>1, <2>3, <2>4, <2>5, <2>6, SettingsSends DEF Filled
<1>11. CASE SettingsForm!CloudflareSubmits
  <2>1. n = "security" /\ SettingsPicks(n) = SecurityPicks /\ form.pick \in SecurityPicks
    BY <1>11
       DEF SettingsForm!CloudflareSubmits, SettingsForm!Named, SettingsForm!SecurityIn,
           SettingsPicks
  <2>2. /\ {"cloudflare"} \in SUBSET SettingsFields /\ {"cloudflare"} # {}
        /\ "current" \in {"cloudflare"} <=> "new" \in {"cloudflare"}
        /\ "days" \in {"cloudflare"} <=> "max" \in {"cloudflare"}
        /\ n # "cleanup"
    BY <1>11, <2>1, SettingsHas DEF SettingsForm!CloudflareSubmits
  <2>3. SettingsForm!Request(NoId, {"cloudflare"}) \in SettingsRequests(n)
    BY <2>2, SettingsRequest
  <2>4. /\ Submits(SettingsForm!Request(NoId, {"cloudflare"})) /\ ~form.busy /\ form'.busy = TRUE
        /\ Whole(n) /\ Filled /\ form'.filled = form.filled
    BY <1>11, <2>1
       DEF SettingsForm!CloudflareSubmits, SettingsForm!Sends, Submits, Whole, Filled, Shaped
  <2>5. SettingsForm!SettingsSubmitsShown(SettingsForm!Request(NoId, {"cloudflare"}))
    BY <1>11, <2>1
       DEF SettingsForm!CloudflareSubmits, SettingsForm!SecurityIn, SettingsForm!Request,
           SettingsForm!Named, SettingsForm!SettingsSubmitsShown
  <2>6. SettingsExtra(form', n)
    BY <2>2 DEF SettingsExtra
  <2> QED
    BY <2>1, <2>3, <2>4, <2>5, <2>6, SettingsSends DEF Filled
<1>12. CASE SettingsForm!UnbindSubmits
  <2>1. n = "security" /\ SettingsPicks(n) = SecurityPicks /\ form.pick \in SecurityPicks
    BY <1>12
       DEF SettingsForm!UnbindSubmits, SettingsForm!Named, SettingsForm!SecurityIn,
           SettingsPicks
  <2>2. /\ {"unbind", SettingsForm!BoundProvider} \in SUBSET SettingsFields /\ {"unbind", SettingsForm!BoundProvider} # {}
        /\ "current" \in {"unbind", SettingsForm!BoundProvider} <=> "new" \in {"unbind", SettingsForm!BoundProvider}
        /\ "days" \in {"unbind", SettingsForm!BoundProvider} <=> "max" \in {"unbind", SettingsForm!BoundProvider}
        /\ n # "cleanup"
    BY <1>12, <2>1, SettingsHas
       DEF SettingsForm!UnbindSubmits, SettingsForm!BoundProvider
  <2>3. SettingsForm!Request(NoId, {"unbind", SettingsForm!BoundProvider}) \in SettingsRequests(n)
    BY <2>2, SettingsRequest
  <2>4. /\ Submits(SettingsForm!Request(NoId, {"unbind", SettingsForm!BoundProvider})) /\ ~form.busy /\ form'.busy = TRUE
        /\ Whole(n) /\ Filled /\ form'.filled = form.filled
    BY <1>12, <2>1
       DEF SettingsForm!UnbindSubmits, SettingsForm!Sends, Submits, Whole, Filled, Shaped
  <2>5. SettingsForm!SettingsSubmitsShown(SettingsForm!Request(NoId, {"unbind", SettingsForm!BoundProvider}))
    BY <1>12, <2>1
       DEF SettingsForm!UnbindSubmits, SettingsForm!SecurityIn, SettingsForm!Request,
           SettingsForm!Named, SettingsForm!SettingsSubmitsShown, SettingsForm!BoundProvider
  <2>6. SettingsExtra(form', n)
    BY <2>2 DEF SettingsExtra
  <2> QED
    BY <2>1, <2>3, <2>4, <2>5, <2>6, SettingsSends DEF Filled
<1>13. ASSUME NEW i \in DOMAIN form.sent, SettingsForm!PasswordSettled(i)
      PROVE  SettingsGoes(n)
  <2>1. n = "security" /\ SettingsPicks(n) = SecurityPicks /\ form.pick \in SecurityPicks
    BY <1>13 DEF SettingsForm!PasswordSettled, SettingsForm!Named, SettingsPicks
  <2>2. CASE SettingsForm!Settled(form, i)
    <3>1. Whole(n) /\ Replied
      BY <2>1, <2>2
         DEF SettingsForm!Settled, SettingsForm!Without, Form!Without, Whole, Replied, Shaped
    <3>2. /\ form'.pick \in SecurityPicks /\ form'.filled \subseteq SettingsFields
          /\ Rows(form'.rules, SettingsFields)
      BY <2>1, <2>2, SettingsHas
         DEF SettingsForm!Settled, SettingsForm!Without, Shaped, SecurityPicks,
             SettingsForm!SecurityDialogs, SettingsForm!Providers
    <3>3. SettingsExtra(form', n)
      BY <2>1, <2>2
         DEF SettingsForm!Settled, SettingsForm!Without, Shaped, SettingsExtra, SecurityPicks
    <3> QED
      BY <2>1, <3>1, <3>2, <3>3, SettingsMoves
  <2>3. CASE SettingsForm!Settled([SettingsForm!WithoutDialog("password") EXCEPT !.filled = @ \ SettingsForm!PasswordNeeds], i)
    <3>1. Whole(n) /\ Replied
      BY <2>1, <2>3
         DEF SettingsForm!Settled, SettingsForm!WithoutDialog, SettingsForm!Without,
             Form!Without, Whole, Replied, Shaped
    <3>2. /\ form'.pick \in SecurityPicks /\ form'.filled \subseteq SettingsFields
          /\ Rows(form'.rules, SettingsFields)
      BY <2>1, <2>3, SettingsHas
         DEF SettingsForm!Settled, SettingsForm!WithoutDialog, SettingsForm!Without, Shaped,
             SecurityPicks, SettingsForm!SecurityDialogs, SettingsForm!Providers
    <3>3. SettingsExtra(form', n)
      BY <2>1, <2>3
         DEF SettingsForm!Settled, SettingsForm!WithoutDialog, SettingsForm!Without, Shaped,
             SettingsExtra, SecurityPicks
    <3> QED
      BY <2>1, <3>1, <3>2, <3>3, SettingsMoves
  <2> QED
    BY <1>13, <2>2, <2>3 DEF SettingsForm!PasswordSettled
<1>14. ASSUME NEW i \in DOMAIN form.sent, SettingsForm!UsernameSettled(i)
      PROVE  SettingsGoes(n)
  <2>1. n = "security" /\ SettingsPicks(n) = SecurityPicks /\ form.pick \in SecurityPicks
    BY <1>14 DEF SettingsForm!UsernameSettled, SettingsForm!Named, SettingsPicks
  <2>2. CASE SettingsForm!Settled(form, i)
    <3>1. /\ Whole(n) /\ Replied /\ form'.filled = form.filled /\ form'.rules = form.rules
          /\ form'.pick = form.pick
      BY <2>1, <2>2 DEF SettingsForm!Settled, SettingsForm!Without, Form!Without, Whole, Replied, Shaped
    <3>2. SettingsExtra(form', n)
      BY <2>1 DEF SettingsExtra
    <3> QED
      BY <2>1, <3>1, <3>2, SettingsMoves
  <2>3. CASE form' = SettingsForm!SecurityStart
    <3>1. SettingsFit(form', n) /\ form'.sent = <<>>
      BY <2>1, <2>3, SecurityStarts
    <3>2. form.sent # <<>> /\ Len(form.sent) \in Nat
      BY SomeSent, NoneOrSome DEF SettingsFit, Fit, Sending
    <3>3. Len(form'.sent) < Len(form.sent)
      BY <3>1, <3>2, NoneOrSome DEF SettingsFit, Fit, Sending
    <3> QED
      BY <3>1, <3>3 DEF SettingsGoes, Quiet
  <2> QED
    BY <1>14, <2>2, <2>3 DEF SettingsForm!UsernameSettled
<1>15. ASSUME NEW i \in DOMAIN form.sent, SettingsForm!ProviderSettled(i)
      PROVE  SettingsGoes(n)
  <2>1. n = "security" /\ SettingsPicks(n) = SecurityPicks /\ form.pick \in SecurityPicks
    BY <1>15 DEF SettingsForm!ProviderSettled, SettingsForm!Named, SettingsPicks
  <2>2. CASE SettingsForm!Settled(form, i)
    <3>1. /\ Whole(n) /\ Replied /\ form'.filled = form.filled /\ form'.rules = form.rules
          /\ form'.pick = form.pick
      BY <2>1, <2>2 DEF SettingsForm!Settled, SettingsForm!Without, Form!Without, Whole, Replied, Shaped
    <3>2. SettingsExtra(form', n)
      BY <2>1 DEF SettingsExtra
    <3> QED
      BY <2>1, <3>1, <3>2, SettingsMoves
  <2>3. ASSUME NEW p \in SettingsForm!Providers,
               SettingsForm!Settled([SettingsForm!WithoutDialog(p) EXCEPT !.pick.bound = @ \cup {p}], i)
        PROVE  SettingsGoes(n)
    <3> DEFINE w == SettingsForm!WithoutDialog(p)
    <3>1. /\ w = [form EXCEPT !.pick = w.pick] /\ w.pick \in SecurityPicks /\ w.sent = form.sent
      BY <2>1 DEF SettingsForm!WithoutDialog, SecurityPicks, SettingsForm!SecurityDialogs, Shaped
    <3> HIDE DEF w
    <3>2. form' = [w EXCEPT !.pick.bound = @ \cup {p}, !.busy = FALSE,
                            !.sent = Form!Without(form.sent, i)]
      BY <2>3, <3>1 DEF SettingsForm!Settled, SettingsForm!Without, Form!Without, w
    <3>3. /\ Whole(n) /\ Replied /\ form'.filled = form.filled /\ form'.rules = form.rules
          /\ form'.pick = [w.pick EXCEPT !.bound = @ \cup {p}]
      BY <2>1, <3>1, <3>2 DEF Whole, Replied, Shaped
    <3>5. form'.pick \in SecurityPicks
      BY <3>1, <3>3 DEF SecurityPicks
    <3>4. SettingsExtra(form', n)
      BY <2>1 DEF SettingsExtra
    <3> QED
      BY <2>1, <3>3, <3>4, <3>5, SettingsMoves
  <2> QED
    BY <1>15, <2>2, <2>3 DEF SettingsForm!ProviderSettled
<1>16. ASSUME NEW i \in DOMAIN form.sent, SettingsForm!UnbindSettled(i)
      PROVE  SettingsGoes(n)
  <2>1. n = "security" /\ SettingsPicks(n) = SecurityPicks /\ form.pick \in SecurityPicks
    BY <1>16 DEF SettingsForm!UnbindSettled, SettingsForm!Named, SettingsPicks
  <2>2. CASE SettingsForm!Settled(form, i)
    <3>1. Whole(n) /\ Replied
      BY <2>1, <2>2
         DEF SettingsForm!Settled, SettingsForm!Without, Form!Without, Whole, Replied, Shaped
    <3>2. /\ form'.pick \in SecurityPicks /\ form'.filled \subseteq SettingsFields
          /\ Rows(form'.rules, SettingsFields)
      BY <2>1, <2>2, SettingsHas
         DEF SettingsForm!Settled, SettingsForm!Without, Shaped, SecurityPicks
    <3>3. SettingsExtra(form', n)
      BY <2>1, <2>2
         DEF SettingsForm!Settled, SettingsForm!Without, Shaped, SettingsExtra, SecurityPicks
    <3> QED
      BY <2>1, <3>1, <3>2, <3>3, SettingsMoves
  <2>3. CASE SettingsForm!Settled([form EXCEPT !.pick.bound = @ \ form.sent[i].has], i)
    <3>1. Whole(n) /\ Replied
      BY <2>1, <2>3
         DEF SettingsForm!Settled, SettingsForm!Without, Form!Without, Whole, Replied, Shaped
    <3>2. /\ form'.pick \in SecurityPicks /\ form'.filled \subseteq SettingsFields
          /\ Rows(form'.rules, SettingsFields)
      BY <2>1, <2>3, SettingsHas
         DEF SettingsForm!Settled, SettingsForm!Without, Shaped, SecurityPicks
    <3>3. SettingsExtra(form', n)
      BY <2>1, <2>3
         DEF SettingsForm!Settled, SettingsForm!Without, Shaped, SettingsExtra, SecurityPicks
    <3> QED
      BY <2>1, <3>1, <3>2, <3>3, SettingsMoves
  <2> QED
    BY <1>16, <2>2, <2>3 DEF SettingsForm!UnbindSettled
<1>17. CASE SettingsForm!CleanupRefreshes
  <2>1. n = "cleanup" /\ SettingsPicks(n) = CleanupPicks /\ form.pick \in CleanupPicks
    BY <1>17
       DEF SettingsForm!CleanupRefreshes, SettingsForm!Named, SettingsForm!CleanupReady,
           SettingsPicks
  <2>2. Whole(n) /\ Asked
    BY <1>17, <2>1
       DEF SettingsForm!CleanupRefreshes, SettingsForm!Named, SettingsForm!CleanupReady,
           SettingsForm!Asks, Whole, Asked, Shaped
  <2>3. /\ form'.pick \in CleanupPicks /\ form'.filled \subseteq SettingsFields
        /\ Rows(form'.rules, SettingsFields)
    BY <1>17, <2>1, SettingsHas
       DEF SettingsForm!CleanupRefreshes, SettingsForm!Named, SettingsForm!CleanupReady,
           SettingsForm!Asks, Shaped, CleanupPicks
  <2>4. SettingsExtra(form', n)
    BY <1>17, <2>1
       DEF SettingsForm!CleanupRefreshes, SettingsForm!Named, SettingsForm!CleanupReady,
           SettingsForm!Asks, Shaped, SettingsExtra, CleanupPicks, CleanupExtra, Trigger
  <2> QED
    BY <2>1, <2>2, <2>3, <2>4, SettingsMoves
<1>18. ASSUME NEW i \in DOMAIN form.asked, SettingsForm!CleanupLoaded(i)
      PROVE  SettingsGoes(n)
  <2>1. n = "cleanup" /\ SettingsPicks(n) = CleanupPicks /\ form.pick \in CleanupPicks
    BY <1>18 DEF SettingsForm!CleanupLoaded, SettingsForm!Named, SettingsPicks
  <2>2. PICK h \in {form.filled, SettingsForm!CleanupFields} :
           form' = [form EXCEPT !.pick.ready = TRUE, !.filled = h, !.asked = Form!Without(form.asked, i),
                                !.loading = FALSE]
    BY <1>18
       DEF SettingsForm!CleanupLoaded, SettingsForm!Loaded, SettingsForm!Without,
           Form!Without, Shaped
  <2>3. /\ Whole(n) /\ Heard /\ form'.target = form.target /\ form'.shown = form.shown
        /\ form'.filled = h /\ form'.rules = form.rules
    BY <2>1, <2>2 DEF Whole, Heard, Shaped
  <2>4. /\ form'.rules = form.rules
        /\ form'.pick = [form.pick EXCEPT !.ready = TRUE]
    BY <2>1, <2>2 DEF Shaped
  <2>5. form'.pick \in CleanupPicks
    BY <2>1, <2>4 DEF CleanupPicks
  <2>6. SettingsExtra(form', n)
    BY <2>1, <2>3, <2>5, <2>4
       DEF Whole, SettingsExtra, CleanupPicks, CleanupExtra, Trigger,
           SettingsForm!CleanupFields, Heard
  <2>7. form'.filled \subseteq SettingsFields
    BY <2>2, <2>3, SettingsHas DEF SettingsForm!CleanupFields
  <2> QED
    BY <2>1, <2>3, <2>5, <2>6, <2>7, SettingsMoves
<1>19. CASE SettingsForm!CleanupOpens
  <2>1. n = "cleanup" /\ SettingsPicks(n) = CleanupPicks /\ form.pick \in CleanupPicks
    BY <1>19
       DEF SettingsForm!CleanupOpens, SettingsForm!Named, SettingsForm!CleanupReady,
           SettingsPicks
  <2>2. Whole(n) /\ Still
    BY <1>19, <2>1
       DEF SettingsForm!CleanupOpens, SettingsForm!Named, SettingsForm!CleanupReady, Whole,
           Still, Shaped
  <2>3. /\ form'.pick \in CleanupPicks /\ form'.filled \subseteq SettingsFields
        /\ Rows(form'.rules, SettingsFields)
    BY <1>19, <2>1, SettingsHas
       DEF SettingsForm!CleanupOpens, SettingsForm!Named, SettingsForm!CleanupReady, Shaped,
           CleanupPicks
  <2>4. SettingsExtra(form', n)
    BY <1>19, <2>1
       DEF SettingsForm!CleanupOpens, SettingsForm!Named, SettingsForm!CleanupReady, Shaped,
           SettingsExtra, CleanupPicks, CleanupExtra, Trigger
  <2> QED
    BY <2>1, <2>2, <2>3, <2>4, SettingsMoves
<1>20. CASE SettingsForm!CleanupCloses
  <2>1. n = "cleanup" /\ SettingsPicks(n) = CleanupPicks /\ form.pick \in CleanupPicks
    BY <1>20
       DEF SettingsForm!CleanupCloses, SettingsForm!Named, SettingsForm!CleanupReady,
           SettingsPicks
  <2>2. Whole(n) /\ Still
    BY <1>20, <2>1
       DEF SettingsForm!CleanupCloses, SettingsForm!Named, SettingsForm!CleanupReady, Whole,
           Still, Shaped
  <2>3. /\ form'.pick \in CleanupPicks /\ form'.filled \subseteq SettingsFields
        /\ Rows(form'.rules, SettingsFields)
    BY <1>20, <2>1, SettingsHas
       DEF SettingsForm!CleanupCloses, SettingsForm!Named, SettingsForm!CleanupReady, Shaped,
           CleanupPicks
  <2>4. SettingsExtra(form', n)
    BY <1>20, <2>1
       DEF SettingsForm!CleanupCloses, SettingsForm!Named, SettingsForm!CleanupReady, Shaped,
           SettingsExtra, CleanupPicks, CleanupExtra, Trigger
  <2> QED
    BY <2>1, <2>2, <2>3, <2>4, SettingsMoves
<1>21. CASE SettingsForm!CleanupTypes
  <2>1. n = "cleanup" /\ SettingsPicks(n) = CleanupPicks /\ form.pick \in CleanupPicks
    BY <1>21
       DEF SettingsForm!CleanupTypes, SettingsForm!Named, SettingsForm!CleanupReady,
           SettingsPicks
  <2>2. Whole(n) /\ Still
    BY <1>21, <2>1
       DEF SettingsForm!CleanupTypes, SettingsForm!Named, SettingsForm!CleanupReady, Whole,
           Still, Shaped
  <2>3. /\ form'.pick \in CleanupPicks /\ form'.filled \subseteq SettingsFields
        /\ Rows(form'.rules, SettingsFields)
    BY <1>21, <2>1, SettingsHas
       DEF SettingsForm!CleanupTypes, SettingsForm!Named, SettingsForm!CleanupReady, Shaped,
           CleanupPicks, SettingsForm!CleanupFields
  <2>4. SettingsExtra(form', n)
    BY <1>21, <2>1
       DEF SettingsForm!CleanupTypes, SettingsForm!Named, SettingsForm!CleanupReady, Shaped,
           SettingsExtra, CleanupPicks, CleanupExtra, Trigger, SettingsForm!CleanupFields
  <2> QED
    BY <2>1, <2>2, <2>3, <2>4, SettingsMoves
<1>22. CASE SettingsForm!CleanupSubmits
  <2>1. n = "cleanup" /\ SettingsPicks(n) = CleanupPicks /\ form.pick \in CleanupPicks
    BY <1>22
       DEF SettingsForm!CleanupSubmits, SettingsForm!Named, SettingsForm!CleanupReady,
           SettingsPicks
  <2> DEFINE r == SettingsForm!Request(NoId, form.filled)
  <2>2. /\ {"days", "max"} \subseteq form.filled /\ form.filled \subseteq SettingsForm!CleanupFields
        /\ form.busy = FALSE
    BY <1>22, <2>1 DEF SettingsForm!CleanupSubmits, SettingsExtra, CleanupExtra, SettingsFit, Fit
  <2>3. /\ form.filled \in SUBSET SettingsFields /\ form.filled # {}
        /\ "current" \in form.filled <=> "new" \in form.filled
        /\ "days" \in form.filled <=> "max" \in form.filled
        /\ "trigger" \notin form.filled /\ "days" \in form.filled
    BY <2>2 DEF SettingsForm!CleanupFields
  <2>4. r \in SettingsRequests(n)
    BY <2>3, SettingsRequest
  <2>5. ~Trigger(r)
    BY <2>3 DEF Trigger, SettingsForm!Request
  <2>6. /\ Submits(r) /\ form'.busy = TRUE /\ Whole(n)
        /\ form'.filled = form.filled /\ form'.rules = form.rules /\ form'.pick = form.pick
    BY <1>22, <2>1 DEF SettingsForm!CleanupSubmits, SettingsForm!Sends, Submits, Whole, Shaped
  <2> HIDE DEF r
  <2>7. SettingsForm!SettingsSubmitsShown(r)
    BY <2>1 DEF SettingsForm!SettingsSubmitsShown, SettingsForm!Named
  <2>8. SettingsExtra(form', n)
    BY <2>1, <2>2, <2>4, <2>5, <2>6, CleanupSends DEF SettingsExtra
  <2> QED
    BY <2>1, <2>2, <2>4, <2>6, <2>7, <2>8, SettingsSends DEF SettingsMode
<1>23. ASSUME NEW i \in DOMAIN form.sent, SettingsForm!CleanupSettled(i)
      PROVE  SettingsGoes(n)
  <2>1. n = "cleanup" /\ SettingsPicks(n) = CleanupPicks /\ form.pick \in CleanupPicks
    BY <1>23 DEF SettingsForm!CleanupSettled, SettingsForm!Named, SettingsPicks
  <2>2. PICK d \in {form.pick.dialog, FALSE} : SettingsForm!Settled([form EXCEPT !.pick.dialog = d], i)
    BY <1>23 DEF SettingsForm!CleanupSettled
  <2>3. ~Trigger(form.sent[i])
    BY <1>23 DEF SettingsForm!CleanupSettled, Trigger
  <2>4. /\ Whole(n) /\ Replied /\ form'.filled = form.filled /\ form'.rules = form.rules
        /\ form'.pick = [form.pick EXCEPT !.dialog = d] /\ form'.busy = FALSE
        /\ form'.sent = Form!Without(form.sent, i)
    BY <2>1, <2>2 DEF SettingsForm!Settled, SettingsForm!Without, Form!Without, Whole, Replied, Shaped
  <2>5. d \in BOOLEAN
    BY <2>1 DEF CleanupPicks
  <2>6. form'.pick \in CleanupPicks /\ form'.pick.triggering = form.pick.triggering
    BY <2>1, <2>4, <2>5 DEF CleanupPicks
  <2>7. SettingsExtra(form', n)
    BY <2>1, <2>3, <2>4, <2>6, CleanupAnswered DEF SettingsExtra
  <2> QED
    BY <2>1, <2>4, <2>6, <2>7, SettingsMoves
<1>24. CASE SettingsForm!TriggerSubmits
  <2>1. n = "cleanup" /\ SettingsPicks(n) = CleanupPicks /\ form.pick \in CleanupPicks
    BY <1>24
       DEF SettingsForm!TriggerSubmits, SettingsForm!Named, SettingsForm!CleanupReady,
           SettingsPicks
  <2> DEFINE r == SettingsForm!Request(NoId, {"trigger"})
  <2>2. r \in SettingsRequests(n) /\ Trigger(r)
    BY SettingsHas, SettingsRequest DEF Trigger, SettingsForm!Request
  <2>3. /\ Submits(r) /\ form'.busy = form.busy /\ Whole(n) /\ ~form.pick.triggering
        /\ form'.filled = form.filled /\ form'.rules = form.rules
        /\ form'.pick = [form.pick EXCEPT !.triggering = TRUE]
    BY <1>24, <2>1 DEF SettingsForm!TriggerSubmits, Submits, Whole, Shaped
  <2> HIDE DEF r
  <2>4. form'.pick \in CleanupPicks /\ form'.pick.triggering /\ form.busy \in BOOLEAN
    BY <2>1, <2>3 DEF CleanupPicks, SettingsFit, Fit
  <2>5. SettingsForm!SettingsSubmitsShown(r)
    BY <2>1 DEF SettingsForm!SettingsSubmitsShown, SettingsForm!Named
  <2>6. SettingsExtra(form', n)
    BY <2>1, <2>2, <2>3, <2>4, CleanupStarts DEF SettingsExtra
  <2> QED
    BY <2>1, <2>2, <2>3, <2>4, <2>5, <2>6, SettingsSends DEF SettingsMode
<1>25. ASSUME NEW i \in DOMAIN form.sent, SettingsForm!TriggerSettled(i)
      PROVE  SettingsGoes(n)
  <2>1. n = "cleanup" /\ SettingsPicks(n) = CleanupPicks /\ form.pick \in CleanupPicks
    BY <1>25 DEF SettingsForm!TriggerSettled, SettingsForm!Named, SettingsPicks
  <2>2. Trigger(form.sent[i])
    BY <1>25 DEF SettingsForm!TriggerSettled, Trigger
  <2>3. /\ Whole(n) /\ form'.filled = form.filled /\ form'.rules = form.rules
        /\ form'.pick = [form.pick EXCEPT !.triggering = FALSE] /\ form'.busy = form.busy
        /\ form'.sent = Form!Without(form.sent, i)
        /\ form'.asked = form.asked /\ form'.loading = form.loading
        /\ form'.target = form.target /\ form'.shown = form.shown
    BY <1>25, <2>1 DEF SettingsForm!TriggerSettled, Form!Without, Whole, Shaped
  <2>4. form'.pick \in CleanupPicks /\ form'.pick.triggering = FALSE
    BY <2>1, <2>3 DEF CleanupPicks
  <2>5. SettingsExtra(form', n)
    BY <2>1, <2>2, <2>3, <2>4, TriggerAnswered DEF SettingsExtra
  <2>6. Sending(form'.busy, form'.sent, SettingsRequests(n), SettingsMode(n)) /\ Quiet
    BY <2>1, <2>2, <2>3, <2>4, TriggerAnswered DEF SettingsMode
  <2> QED
    BY <2>1, <2>3, <2>4, <2>5, <2>6 DEF SettingsGoes, SettingsFit, Fit, Whole, Asking
<1>26. ASSUME NEW i \in DOMAIN form.asked, SettingsForm!VersionLoaded(i)
      PROVE  SettingsGoes(n)
  <2>1. n = "version" /\ SettingsPicks(n) = VersionPicks /\ form.pick \in VersionPicks
    BY <1>26 DEF SettingsForm!VersionLoaded, SettingsForm!Named, SettingsPicks
  <2>2. PICK c \in BOOLEAN :
           form' = [form EXCEPT !.pick.ready = TRUE, !.pick.can = c, !.asked = Form!Without(form.asked, i),
                                !.loading = FALSE]
    BY <1>26
       DEF SettingsForm!VersionLoaded, SettingsForm!Loaded, SettingsForm!Without,
           Form!Without, Shaped
  <2>3. /\ Whole(n) /\ Heard /\ form'.target = form.target /\ form'.shown = form.shown
        /\ form'.filled = form.filled /\ form'.rules = form.rules
    BY <2>1, <2>2 DEF Whole, Heard, Shaped
  <2>4. /\ form'.rules = form.rules
        /\ form'.pick = [form.pick EXCEPT !.ready = TRUE, !.can = c]
    BY <2>1, <2>2 DEF Shaped
  <2>5. form'.pick \in VersionPicks /\ form'.pick.release = form.pick.release
    <3> DEFINE p == [form.pick EXCEPT !.ready = TRUE]
    <3>1. p \in VersionPicks /\ p.release = form.pick.release
      BY <2>1 DEF VersionPicks
    <3>2. form'.pick = [p EXCEPT !.can = c]
      BY <2>4
    <3> HIDE DEF p
    <3>3. form'.pick \in VersionPicks
      BY <3>1, <3>2 DEF VersionPicks
    <3>4. form'.pick.release = p.release
      BY <3>1, <3>2 DEF VersionPicks
    <3> QED
      BY <3>1, <3>3, <3>4
  <2>6. SettingsExtra(form', n)
    BY <2>1, <2>3, <2>5 DEF Whole, SettingsExtra
  <2> QED
    BY <2>1, <2>3, <2>5, <2>6, SettingsMoves
<1>27. CASE SettingsForm!VersionChecks
  <2>1. n = "version" /\ SettingsPicks(n) = VersionPicks /\ form.pick \in VersionPicks
    BY <1>27
       DEF SettingsForm!VersionChecks, SettingsForm!Named, SettingsForm!VersionReady,
           SettingsPicks
  <2>2. Whole(n) /\ Asked
    BY <1>27, <2>1
       DEF SettingsForm!VersionChecks, SettingsForm!Named, SettingsForm!VersionReady,
           SettingsForm!Asks, Whole, Asked, Shaped
  <2>3. /\ form'.pick \in VersionPicks /\ form'.filled \subseteq SettingsFields
        /\ Rows(form'.rules, SettingsFields)
    BY <1>27, <2>1, SettingsHas
       DEF SettingsForm!VersionChecks, SettingsForm!Named, SettingsForm!VersionReady,
           SettingsForm!Asks, Shaped, VersionPicks
  <2>4. SettingsExtra(form', n)
    BY <1>27, <2>1
       DEF SettingsForm!VersionChecks, SettingsForm!Named, SettingsForm!VersionReady,
           SettingsForm!Asks, Shaped, SettingsExtra, VersionPicks
  <2> QED
    BY <2>1, <2>2, <2>3, <2>4, SettingsMoves
<1>28. ASSUME NEW i \in DOMAIN form.asked, SettingsForm!VersionChecked(i)
      PROVE  SettingsGoes(n)
  <2>1. n = "version" /\ SettingsPicks(n) = VersionPicks /\ form.pick \in VersionPicks
    BY <1>28
       DEF SettingsForm!VersionChecked, SettingsForm!Named, SettingsForm!VersionReady,
           SettingsPicks
  <2>2. Whole(n) /\ Heard
    BY <1>28, <2>1
       DEF SettingsForm!VersionChecked, SettingsForm!Named, SettingsForm!VersionReady,
           SettingsForm!Loaded, SettingsForm!Without, Whole, Heard, Shaped, Form!Without
  <2>3. /\ form'.pick \in VersionPicks /\ form'.filled \subseteq SettingsFields
        /\ Rows(form'.rules, SettingsFields)
    BY <1>28, <2>1, SettingsHas
       DEF SettingsForm!VersionChecked, SettingsForm!Named, SettingsForm!VersionReady,
           SettingsForm!Loaded, SettingsForm!Without, Shaped, VersionPicks
  <2>4. SettingsExtra(form', n)
    BY <1>28, <2>1
       DEF SettingsForm!VersionChecked, SettingsForm!Named, SettingsForm!VersionReady,
           SettingsForm!Loaded, SettingsForm!Without, Shaped, SettingsExtra, VersionPicks
  <2> QED
    BY <2>1, <2>2, <2>3, <2>4, SettingsMoves
<1>29. CASE SettingsForm!VersionShows
  <2>1. n = "version" /\ SettingsPicks(n) = VersionPicks /\ form.pick \in VersionPicks
    BY <1>29
       DEF SettingsForm!VersionShows, SettingsForm!Named, SettingsForm!VersionReady,
           SettingsPicks
  <2>2. Whole(n) /\ Still
    BY <1>29, <2>1
       DEF SettingsForm!VersionShows, SettingsForm!Named, SettingsForm!VersionReady, Whole,
           Still, Shaped
  <2>3. /\ form'.pick \in VersionPicks /\ form'.filled \subseteq SettingsFields
        /\ Rows(form'.rules, SettingsFields)
    BY <1>29, <2>1, SettingsHas
       DEF SettingsForm!VersionShows, SettingsForm!Named, SettingsForm!VersionReady, Shaped,
           VersionPicks
  <2>4. SettingsExtra(form', n)
    BY <1>29, <2>1
       DEF SettingsForm!VersionShows, SettingsForm!Named, SettingsForm!VersionReady, Shaped,
           SettingsExtra, VersionPicks
  <2> QED
    BY <2>1, <2>2, <2>3, <2>4, SettingsMoves
<1>30. CASE SettingsForm!VersionSubmits
  <2>1. n = "version" /\ SettingsPicks(n) = VersionPicks /\ form.pick \in VersionPicks
    BY <1>30
       DEF SettingsForm!VersionSubmits, SettingsForm!Named, SettingsForm!VersionReady,
           SettingsPicks
  <2>1a. PICK u \in SettingsForm!Successors : SettingsForm!Sends(SettingsForm!Request(NoId, {u})) /\ ~form.busy
    BY <1>30, <2>1 DEF SettingsForm!VersionSubmits, VersionPicks
  <2>2. /\ {u} \in SUBSET SettingsFields /\ {u} # {}
        /\ "current" \in {u} <=> "new" \in {u}
        /\ "days" \in {u} <=> "max" \in {u}
        /\ n # "cleanup"
    BY <2>1a, <2>1, SettingsHas DEF SettingsForm!Successors
  <2>3. SettingsForm!Request(NoId, {u}) \in SettingsRequests(n)
    BY <2>2, SettingsRequest
  <2>4. /\ Submits(SettingsForm!Request(NoId, {u})) /\ ~form.busy /\ form'.busy = TRUE
        /\ Whole(n) /\ Filled /\ form'.filled = form.filled
    BY <2>1a, <2>1 DEF SettingsForm!Sends, Submits, Whole, Filled, Shaped
  <2>5. SettingsForm!SettingsSubmitsShown(SettingsForm!Request(NoId, {u}))
    BY <1>30, <2>1
       DEF SettingsForm!VersionSubmits, SettingsForm!SecurityIn, SettingsForm!Request,
           SettingsForm!Named, SettingsForm!SettingsSubmitsShown, SettingsForm!Successors
  <2>6. SettingsExtra(form', n)
    BY <2>2 DEF SettingsExtra
  <2> QED
    BY <2>1, <2>3, <2>4, <2>5, <2>6, SettingsSends DEF Filled
<1>31. ASSUME NEW i \in DOMAIN form.sent, SettingsForm!VersionSettled(i)
      PROVE  SettingsGoes(n)
  <2>1. n = "version" /\ SettingsPicks(n) = VersionPicks /\ form.pick \in VersionPicks
    BY <1>31 DEF SettingsForm!VersionSettled, SettingsForm!Named, SettingsPicks
  <2>2. Whole(n) /\ Replied
    BY <1>31, <2>1
       DEF SettingsForm!VersionSettled, SettingsForm!Named, SettingsForm!Settled,
           SettingsForm!Without, Whole, Replied, Shaped, Form!Without
  <2>3. /\ form'.pick \in VersionPicks /\ form'.filled \subseteq SettingsFields
        /\ Rows(form'.rules, SettingsFields)
    BY <1>31, <2>1, SettingsHas
       DEF SettingsForm!VersionSettled, SettingsForm!Named, SettingsForm!Settled,
           SettingsForm!Without, Shaped, VersionPicks
  <2>4. SettingsExtra(form', n)
    BY <1>31, <2>1
       DEF SettingsForm!VersionSettled, SettingsForm!Named, SettingsForm!Settled,
           SettingsForm!Without, Shaped, SettingsExtra, VersionPicks
  <2> QED
    BY <2>1, <2>2, <2>3, <2>4, SettingsMoves
<1> QED
  BY <1>1, <1>2, <1>3, <1>4, <1>5, <1>6, <1>7, <1>8, <1>9, <1>10, <1>11, <1>12, <1>13, <1>14,
     <1>15, <1>16, <1>17, <1>18, <1>19, <1>20, <1>21, <1>22, <1>23, <1>24, <1>25, <1>26,
     <1>27, <1>28, <1>29, <1>30, <1>31
     DEF SettingsForm!SettingsFormsNext

LEMMA SettingsStarts ==
    ASSUME NEW q, NEW f \in SettingsForm!SettingsFormsOf(q)
    PROVE  f.name \in SettingsForm!SettingsFormNames /\ SettingsFit(f, f.name)
<1>1. ASSUME f = SettingsForm!SecurityStart
      PROVE  SettingsFit(f, "security") /\ f.name = "security"
  <2>1. SettingsFit(f, "security")
    BY <1>1, SecurityStarts
  <2> QED
    BY <2>1 DEF SettingsFit, Fit
<1>2. ASSUME f = SettingsForm!CleanupStart
      PROVE  SettingsFit(f, "cleanup") /\ f.name = "cleanup"
  <2>1. f = [name |-> "cleanup", open |-> TRUE, target |-> NoId, shown |-> NoId,
             pick |-> [ready |-> FALSE, dialog |-> FALSE, triggering |-> FALSE],
             filled |-> SettingsForm!CleanupFields, rules |-> <<>>, asked |-> <<NoId>>,
             loading |-> TRUE, busy |-> FALSE, sent |-> <<>>]
    BY <1>2 DEF SettingsForm!CleanupStart, SettingsForm!FormOf
  <2>2. f.pick \in SettingsPicks("cleanup")
    BY <2>1 DEF SettingsPicks, CleanupPicks
  <2>3. /\ Shaped(f) /\ f.name = "cleanup" /\ f.open \in BOOLEAN /\ f.loading \in BOOLEAN
        /\ f.busy = FALSE /\ f.target = NoId /\ f.shown = NoId
        /\ f.filled = SettingsForm!CleanupFields
        /\ f.rules = <<>> /\ f.asked = <<NoId>> /\ f.sent = <<>>
    BY <2>1 DEF Shaped
  <2>4. f.filled \subseteq SettingsFields /\ {"days", "max"} \subseteq f.filled
    BY <2>3, SettingsHas DEF SettingsForm!CleanupFields
  <2>5. DOMAIN f.sent = {}
    BY <2>3, SomeSent
  <2>6. SettingsExtra(f, "cleanup")
    BY <2>3, <2>4, <2>5 DEF SettingsExtra, CleanupExtra
  <2> QED
    BY <2>2, <2>3, <2>4, <2>6, Begins DEF SettingsFit
<1>3. ASSUME f = SettingsForm!VersionStart
      PROVE  SettingsFit(f, "version") /\ f.name = "version"
  <2> DEFINE p == [ready |-> FALSE, updates |-> {}, can |-> FALSE, release |-> "none"]
  <2>1. Fresh(f, "version", p)
    BY <1>3 DEF SettingsForm!VersionStart, SettingsForm!FormOf, Fresh, Shaped
  <2>2. p \in SettingsPicks("version")
    BY DEF SettingsPicks, VersionPicks
  <2> HIDE DEF p
  <2>3. SettingsExtra(f, "version")
    BY <2>1, <2>2 DEF Fresh, SettingsExtra
  <2> QED
    BY <2>1, <2>2, <2>3, Appearance DEF SettingsFit, Fresh
<1> QED
  BY <1>1, <1>2, <1>3 DEF SettingsForm!SettingsFormsOf, SettingsForm!SettingsFormNames

-----------------------------------------------------------------------------
(* The tools of diagnosis                                                  *)

ReachPicks == [chain : ToolForm!Chains]

DebugPicks ==
    [dialog : ToolForm!Probes \cup {"none"}, testing : SUBSET ToolForm!Probes,
     results : SUBSET ToolForm!Probes]

ToolPicks(n) == IF n = "reach" THEN ReachPicks ELSE DebugPicks

ToolFields == ToolForm!ToolFields

\* A chain is not submitted, it is asked for.
ToolRequests(n) ==
    {r \in Requests(ToolFields) :
        n = "debug" /\ \E p \in ToolForm!Probes : r.has = ToolForm!ProbeNeeds(p)}

\* The test p is under way in s.
Runs(s, p) == \E i \in DOMAIN s : s[i].has = ToolForm!ProbeNeeds(p)

Apart(s) == \A i, j \in DOMAIN s : i # j => s[i].has # s[j].has

\* Each test is flagged while it is under way, and has no result of the time before.
DebugExtra(f) ==
    /\ f.busy = FALSE
    /\ \A p \in ToolForm!Probes : p \in f.pick.testing <=> Runs(f.sent, p)
    /\ f.pick.testing \cap f.pick.results = {}
    /\ Apart(f.sent)

ToolExtra(f, n) ==
    /\ n = "reach" => (f.loading => f.shown = NoId)
    /\ n = "debug" => DebugExtra(f)

ToolFit(f, n) ==
    Fit(f, n, ToolFields, ToolPicks(n), ToolRequests(n), "many") /\ ToolExtra(f, n)

\* A step keeps the form typed, and submits what is shown.
ToolGoes(n) == ToolFit(form', n) /\ (Quiet \/ ToolForm!ToolSubmitsShown(Last))

LEMMA ToolMoves ==
    ASSUME NEW n, ToolFit(form, n), Whole(n),
           Still \/ Stopped \/ Asked \/ Heard \/ Replied \/ AskedAgain,
           form'.pick \in ToolPicks(n), form'.filled \subseteq ToolFields,
           Rows(form'.rules, ToolFields), ToolExtra(form', n)
    PROVE  ToolGoes(n)
  BY Steps DEF ToolFit, ToolGoes

LEMMA ToolSends ==
    ASSUME NEW n, ToolFit(form, n), NEW r \in ToolRequests(n), Submits(r),
           form'.busy \in BOOLEAN, Whole(n),
           form'.pick \in ToolPicks(n), form'.filled \subseteq ToolFields,
           Rows(form'.rules, ToolFields), ToolExtra(form', n), ToolForm!ToolSubmitsShown(r)
    PROVE  ToolGoes(n)
<1>1. Fit(form', n, ToolFields, ToolPicks(n), ToolRequests(n), "many") /\ Last = r
  BY Submissions DEF ToolFit
<1> QED
  BY <1>1 DEF ToolFit, ToolGoes

LEMMA ToolTyped ==
    ASSUME NEW n, ToolFit(form, n), NEW fields \in SUBSET ToolFields, ToolForm!Types(fields)
    PROVE  /\ Whole(n) /\ Still /\ Filled
           /\ form'.filled \subseteq form.filled \cup fields /\ form'.filled \subseteq ToolFields
<1>1. PICK h \in SUBSET (form.filled \cup fields) : form' = [form EXCEPT !.filled = h]
  BY DEF ToolForm!Types, ToolForm!Typings
<1> QED
  BY <1>1 DEF ToolFit, Fit, Shaped, Whole, Still, Filled

LEMMA ToolHas == {"url", "key", "host", "port", "target"} \subseteq ToolFields
  BY DEF ToolFields, ToolForm!ToolFields

LEMMA ToolNames ==
    /\ ToolForm!ToolFormNames = {"reach", "debug"}
    /\ ToolPicks("reach") = ReachPicks /\ ToolPicks("debug") = DebugPicks
  BY DEF ToolForm!ToolFormNames, ToolPicks

LEMMA Needs ==
    /\ \A p \in ToolForm!Probes : ToolForm!ProbeNeeds(p) \in SUBSET ToolFields
    /\ \A p, q \in ToolForm!Probes : ToolForm!ProbeNeeds(p) = ToolForm!ProbeNeeds(q) => p = q
<1>1. ToolForm!Probes = {"sse", "telnet", "ping"}
  BY DEF ToolForm!Probes
<1>2. /\ ToolForm!ProbeNeeds("sse") = {"url", "key"}
      /\ ToolForm!ProbeNeeds("telnet") = {"host", "port"}
      /\ ToolForm!ProbeNeeds("ping") = {"target"}
  BY DEF ToolForm!ProbeNeeds
<1> QED
  BY <1>1, <1>2, ToolHas

LEMMA ToolRequest ==
    ASSUME NEW n, n = "debug", NEW p \in ToolForm!Probes
    PROVE  /\ ToolForm!Request(NoId, ToolForm!ProbeNeeds(p)) \in ToolRequests(n)
           /\ ToolForm!Request(NoId, ToolForm!ProbeNeeds(p)).has = ToolForm!ProbeNeeds(p)
<1> DEFINE h == ToolForm!ProbeNeeds(p)
<1>1. h \in SUBSET ToolFields
  BY Needs
<1> HIDE DEF h
<1>2. ToolForm!Request(NoId, h) \in Requests(ToolFields) /\ ToolForm!Request(NoId, h).has = h
  BY <1>1, EmptySeq DEF ToolForm!Request, Requests
<1> QED
  BY <1>2 DEF ToolRequests, h

\* Every instance a target is tested from is one.
LEMMA OptionsAre == ToolForm!Options \subseteq Ids
<1>1. ToolForm!ClientInstance \in Ids
  BY BoundsAssumption DEF ToolForm!ClientInstance
<1>2. \E i \in Ids : i # ToolForm!ClientInstance
  BY BoundsAssumption
<1>3. ToolForm!ServerInstance \in Ids
  BY <1>2 DEF ToolForm!ServerInstance
<1> QED
  BY <1>1, <1>3 DEF ToolForm!Options

LEMMA DebugFits ==
    ASSUME ToolFit(form, "debug")
    PROVE  /\ form.sent \in Seq(ToolRequests("debug")) /\ Len(form.sent) \in Nat
           /\ form.pick \in DebugPicks /\ DebugExtra(form)
  BY NoneOrSome, ToolNames DEF ToolFit, ToolExtra, Fit, Sending

\* A test begins that is not under way.
LEMMA ProbeBegins ==
    ASSUME ToolFit(form, "debug"), NEW p \in ToolForm!Probes, p \notin form.pick.testing,
           ToolForm!Probing(p), p = form.pick.dialog
    PROVE  ToolGoes("debug")
<1> DEFINE n == "debug"
           r == ToolForm!Request(NoId, ToolForm!ProbeNeeds(p))
           s == form.sent
           t == form'.sent
<1>n. /\ form.name = n /\ form.filled \subseteq ToolFields
      /\ form.target \in Ids \cup {NoId} /\ form.shown \in Ids \cup {NoId}
      /\ form.open \in BOOLEAN /\ form.busy \in BOOLEAN /\ Rows(form.rules, ToolFields)
      /\ Shaped(form)
  BY DEF ToolFit, Fit
<1>1. r \in ToolRequests(n) /\ r.has = ToolForm!ProbeNeeds(p)
  BY ToolRequest
<1>2. Len(s) < MaxSent
  BY DEF ToolForm!Probing
<1> DEFINE a == [form.pick EXCEPT !.testing = @ \cup {p}, !.results = @ \ {p}]
           b == [a EXCEPT !.dialog = "none"]
<1>3. /\ a \in DebugPicks /\ a.testing = form.pick.testing \cup {p}
      /\ a.results = form.pick.results \ {p}
  BY DebugFits DEF DebugPicks
<1>4. form' = [form EXCEPT !.pick = b, !.sent = Append(form.sent, r)]
  BY <1>n DEF ToolForm!Probing, Shaped
<1> HIDE DEF a
<1>5. b \in DebugPicks /\ b.testing = a.testing /\ b.results = a.results
  BY <1>3 DEF DebugPicks
<1> HIDE DEF b, r
<1>6. /\ Submits(r) /\ form'.busy \in BOOLEAN /\ Whole(n)
      /\ form'.pick = b /\ form'.filled = form.filled /\ form'.rules = form.rules
      /\ form'.busy = form.busy
  BY <1>n, <1>2, <1>4 DEF Submits, Whole, Shaped
<1>7. /\ Len(s) + 1 \in DOMAIN t /\ t[Len(s) + 1] = r
      /\ \A j \in DOMAIN s : j \in DOMAIN t /\ j # Len(s) + 1 /\ t[j] = s[j]
      /\ \A j \in DOMAIN t : j \in DOMAIN s \/ j = Len(s) + 1
  BY <1>6, DebugFits, Appended DEF Submits
<1>8. /\ \A q \in ToolForm!Probes : q \in form.pick.testing <=> Runs(s, q)
      /\ form.pick.testing \cap form.pick.results = {} /\ Apart(s)
  BY DebugFits DEF DebugExtra
<1>9. ~Runs(s, p)
  BY <1>8
<1>10. Apart(t)
  BY <1>1, <1>7, <1>8, <1>9 DEF Apart, Runs
<1>11. ASSUME NEW q \in ToolForm!Probes
       PROVE  Runs(t, q) <=> Runs(s, q) \/ q = p
  <2>1. Runs(s, q) => Runs(t, q)
    BY <1>7 DEF Runs
  <2>2. Runs(t, p)
    BY <1>1, <1>7 DEF Runs
  <2>3. Runs(t, q) => Runs(s, q) \/ ToolForm!ProbeNeeds(p) = ToolForm!ProbeNeeds(q)
    BY <1>1, <1>7 DEF Runs
  <2> QED
    BY <2>1, <2>2, <2>3, Needs
<1>12. DebugExtra(form')
  <2>1. \A q \in ToolForm!Probes : q \in b.testing <=> Runs(t, q)
    BY <1>3, <1>5, <1>8, <1>11
  <2>2. b.testing \cap b.results = {}
    BY <1>3, <1>5, <1>8
  <2> QED
    BY <1>6, <1>10, <2>1, <2>2, DebugFits DEF DebugExtra
<1>13. ToolForm!ToolSubmitsShown(r)
  <2>1. form.pick.dialog # "none"
    BY DEF ToolForm!Probes
  <2> QED
    BY <1>1, <2>1 DEF ToolForm!ToolSubmitsShown
<1>14. ToolExtra(form', n)
  BY <1>12 DEF ToolExtra
<1>15. form'.pick \in ToolPicks(n) /\ form'.filled \subseteq ToolFields /\ Rows(form'.rules, ToolFields)
  BY <1>n, <1>5, <1>6, ToolNames
<1> QED
  BY <1>1, <1>6, <1>13, <1>14, <1>15, ToolSends

\* A test ends: no other is of its kind.
LEMMA ProbeEnds ==
    ASSUME ToolFit(form, "debug"), NEW i \in DOMAIN form.sent, ToolForm!ProbeSettled(i)
    PROVE  ToolGoes("debug")
<1> DEFINE n == "debug"
           s == form.sent
           t == form'.sent
<1>n. /\ form.name = n /\ form.filled \subseteq ToolFields
      /\ form.target \in Ids \cup {NoId} /\ form.shown \in Ids \cup {NoId}
      /\ form.open \in BOOLEAN /\ form.busy \in BOOLEAN /\ form.loading \in BOOLEAN
      /\ Rows(form.rules, ToolFields) /\ Asking(form.loading, form.asked)
      /\ Shaped(form) /\ Sending(form.busy, form.sent, ToolRequests(n), "many")
  BY DEF ToolFit, Fit
<1>1. PICK p \in ToolForm!Probes :
         /\ ToolForm!ProbeNeeds(p) = form.sent[i].has
         /\ \E r \in {{}, {p}} :
               form' = [form EXCEPT !.pick.testing = @ \ {p}, !.pick.results = @ \cup r,
                                    !.sent = Form!Without(@, i)]
  BY DEF ToolForm!ProbeSettled, ToolForm!Without, Form!Without
<1>2. PICK r \in {{}, {p}} :
         form' = [form EXCEPT !.pick.testing = @ \ {p}, !.pick.results = @ \cup r,
                              !.sent = Form!Without(@, i)]
  BY <1>1
<1> DEFINE b == [form.pick EXCEPT !.testing = @ \ {p}, !.results = @ \cup r]
<1>3. /\ b \in DebugPicks /\ b.testing = form.pick.testing \ {p}
      /\ b.results = form.pick.results \cup r
  BY DebugFits DEF DebugPicks
<1>4. form' = [form EXCEPT !.pick = b, !.sent = Form!Without(form.sent, i)]
  BY <1>n, <1>2 DEF Shaped
<1> HIDE DEF b
<1>5. /\ Whole(n) /\ form'.pick = b /\ form'.filled = form.filled /\ form'.rules = form.rules
      /\ form'.asked = form.asked /\ form'.loading = form.loading /\ form'.busy = form.busy
      /\ form'.target = form.target /\ form'.shown = form.shown
      /\ t = Form!Without(s, i)
  BY <1>n, <1>4 DEF Whole, Shaped
<1>6. OthersOf(s, i, t)
  BY <1>5, DebugFits, Others
<1>7. /\ \A q \in ToolForm!Probes : q \in form.pick.testing <=> Runs(s, q)
      /\ form.pick.testing \cap form.pick.results = {} /\ Apart(s)
  BY DebugFits DEF DebugExtra
<1>8. Apart(t)
  BY <1>6, <1>7 DEF Apart, OthersOf
<1>9. ASSUME NEW q \in ToolForm!Probes
      PROVE  Runs(t, q) <=> Runs(s, q) /\ q # p
  <2>1. Runs(t, q) => Runs(s, q)
    BY <1>6 DEF OthersOf, Runs
  <2>2. ~Runs(t, p)
    BY <1>1, <1>6, <1>7 DEF OthersOf, Runs, Apart
  <2>3. ASSUME Runs(s, q), q # p
        PROVE  Runs(t, q)
    <3>1. PICK k \in DOMAIN s : s[k].has = ToolForm!ProbeNeeds(q)
      BY <2>3 DEF Runs
    <3>2. k # i
      BY <1>1, <2>3, <3>1, Needs
    <3> QED
      BY <1>6, <3>1, <3>2 DEF OthersOf, Runs
  <2> QED
    BY <2>1, <2>2, <2>3
<1>13. form'.busy = FALSE
  BY <1>5, DebugFits DEF DebugExtra
<1>10. DebugExtra(form')
  <2>1. \A q \in ToolForm!Probes : q \in b.testing <=> Runs(t, q)
    BY <1>3, <1>7, <1>9
  <2>2. b.testing \cap b.results = {}
    BY <1>3, <1>7
  <2> QED
    BY <1>5, <1>8, <1>13, <2>1, <2>2 DEF DebugExtra
<1>11. /\ t \in Seq(ToolRequests(n)) /\ Len(t) = Len(s) - 1 /\ Len(s) \in Nat
  BY <1>5, DebugFits, WithoutOne
<1>12. Len(t) <= MaxSent /\ Len(t) < Len(s)
  <2>1. Len(s) <= MaxSent /\ MaxSent \in Nat
    BY <1>n, FormBounds DEF Sending
  <2> QED
    BY <1>11, <2>1
<1> QED
  <2>1. ToolExtra(form', n)
    BY <1>10 DEF ToolExtra
  <2>2. Sending(form'.busy, t, ToolRequests(n), "many")
    BY <1>11, <1>12, <1>13 DEF Sending
  <2>3. ToolFit(form', n)
    BY <1>n, <1>3, <1>5, <2>1, <2>2, ToolNames DEF ToolFit, Fit, Whole
  <2> QED
    BY <1>12, <2>3 DEF ToolGoes, Quiet

\* Whatever is done in a form, it stays typed and shows what it submits.
LEMMA ToolFormsStep ==
    ASSUME NEW n \in ToolForm!ToolFormNames, ToolFit(form, n), ToolForm!ToolFormsNext
    PROVE  ToolGoes(n)
<1>n. /\ form.name = n /\ form.pick \in ToolPicks(n) /\ form.filled \subseteq ToolFields
      /\ form.target \in Ids \cup {NoId} /\ form.shown \in Ids \cup {NoId}
      /\ form.open \in BOOLEAN /\ Rows(form.rules, ToolFields) /\ Shaped(form) /\ ToolExtra(form, n)
      /\ \A i \in DOMAIN form.asked : form.asked[i] \in Ids \cup {NoId}
  BY DEF ToolFit, Fit, Asking
<1> USE <1>n
<1>1. CASE ToolForm!ReachOpens
  <2>1. n = "reach" /\ ToolPicks(n) = ReachPicks /\ form.pick \in ReachPicks
    BY <1>1 DEF ToolForm!ReachOpens, ToolForm!Named, ToolPicks
  <2>2. Whole(n) /\ Still
    BY <1>1, <2>1 DEF ToolForm!ReachOpens, ToolForm!Named, Whole, Still, Shaped
  <2>3. /\ form'.pick \in ReachPicks /\ form'.filled \subseteq ToolFields
        /\ Rows(form'.rules, ToolFields)
    BY <1>1, <2>1, ToolHas DEF ToolForm!ReachOpens, ToolForm!Named, Shaped, ReachPicks
  <2>4. ToolExtra(form', n)
    BY <1>1, <2>1 DEF ToolForm!ReachOpens, ToolForm!Named, Shaped, ToolExtra, ReachPicks
  <2> QED
    BY <2>1, <2>2, <2>3, <2>4, ToolMoves
<1>2. CASE ToolForm!ReachTests
  <2>1. n = "reach" /\ ToolPicks(n) = ReachPicks /\ form.pick \in ReachPicks
    BY <1>2 DEF ToolForm!ReachTests, ToolForm!OpenAs, ToolPicks
  <2>2. PICK i \in Ids : /\ Len(form.asked) < MaxAsked
                         /\ form' = [form EXCEPT !.target = i, !.shown = NoId,
                                                 !.asked = Append(@, i), !.loading = TRUE]
    BY <1>2, OptionsAre DEF ToolForm!ReachTests, ToolForm!Asks, Shaped
  <2>3. /\ Whole(n) /\ Asked /\ form'.shown = NoId
        /\ form'.pick = form.pick /\ form'.filled = form.filled /\ form'.rules = form.rules
    BY <2>1, <2>2 DEF Whole, Asked, Shaped
  <2>4. ToolExtra(form', n)
    BY <2>1, <2>3 DEF ToolExtra
  <2> QED
    BY <2>1, <2>3, <2>4, ToolMoves
<1>3. ASSUME NEW i \in DOMAIN form.asked, ToolForm!ReachTested(i)
      PROVE  ToolGoes(n)
  <2>1. n = "reach" /\ ToolPicks(n) = ReachPicks /\ form.pick \in ReachPicks
    BY <1>3 DEF ToolForm!ReachTested, ToolForm!Named, ToolPicks
  <2>2. PICK r \in Ids \cup {NoId} :
           form' = [form EXCEPT !.shown = r, !.asked = Form!Without(@, i), !.loading = FALSE]
    BY <1>3 DEF ToolForm!ReachTested, ToolForm!Loaded, ToolForm!Without, Form!Without, Shaped
  <2>3. /\ Whole(n) /\ Heard /\ form'.loading = FALSE
        /\ form'.pick = form.pick /\ form'.filled = form.filled /\ form'.rules = form.rules
    BY <2>1, <2>2 DEF Whole, Heard, Shaped
  <2>4. ToolExtra(form', n)
    BY <2>1, <2>3 DEF ToolExtra
  <2> QED
    BY <2>1, <2>3, <2>4, ToolMoves
<1>4. CASE ToolForm!ReachAgain
  <2>1. n = "reach" /\ ToolPicks(n) = ReachPicks /\ form.pick \in ReachPicks
    BY <1>4 DEF ToolForm!ReachAgain, ToolForm!OpenAs, ToolPicks
  <2>2. Whole(n) /\ Still
    BY <1>4, <2>1 DEF ToolForm!ReachAgain, ToolForm!OpenAs, Whole, Still, Shaped
  <2>3. /\ form'.pick \in ReachPicks /\ form'.filled \subseteq ToolFields
        /\ Rows(form'.rules, ToolFields)
    BY <1>4, <2>1, ToolHas DEF ToolForm!ReachAgain, ToolForm!OpenAs, Shaped, ReachPicks
  <2>4. ToolExtra(form', n)
    BY <1>4, <2>1
       DEF ToolForm!ReachAgain, ToolForm!OpenAs, Shaped, ToolExtra, ReachPicks
  <2> QED
    BY <2>1, <2>2, <2>3, <2>4, ToolMoves
<1>5. CASE ToolForm!ReachCloses
  <2>1. n = "reach" /\ ToolPicks(n) = ReachPicks /\ form.pick \in ReachPicks
    BY <1>5 DEF ToolForm!ReachCloses, ToolForm!OpenAs, ToolPicks
  <2>2. Whole(n) /\ Stopped
    BY <1>5, <2>1 DEF ToolForm!ReachCloses, ToolForm!OpenAs, Whole, Stopped, Shaped
  <2>3. /\ form'.pick \in ReachPicks /\ form'.filled \subseteq ToolFields
        /\ Rows(form'.rules, ToolFields)
    BY <1>5, <2>1, ToolHas DEF ToolForm!ReachCloses, ToolForm!OpenAs, Shaped, ReachPicks
  <2>4. ToolExtra(form', n)
    BY <1>5, <2>1
       DEF ToolForm!ReachCloses, ToolForm!OpenAs, Shaped, ToolExtra, ReachPicks
  <2> QED
    BY <2>1, <2>2, <2>3, <2>4, ToolMoves
<1>6. CASE ToolForm!DebugRefreshes
  <2>1. n = "debug" /\ ToolPicks(n) = DebugPicks /\ form.pick \in DebugPicks
    BY <1>6 DEF ToolForm!DebugRefreshes, ToolForm!Named, ToolPicks
  <2>2. /\ Whole(n) /\ Asked /\ form'.pick = form.pick /\ form'.filled = form.filled
        /\ form'.rules = form.rules
    BY <1>6, <2>1 DEF ToolForm!DebugRefreshes, ToolForm!Asks, Whole, Asked, Shaped
  <2>3. ToolExtra(form', n)
    BY <2>1, <2>2, DebugFits DEF Asked, ToolExtra, DebugExtra
  <2> QED
    BY <2>1, <2>2, <2>3, ToolMoves
<1>7. ASSUME NEW i \in DOMAIN form.asked, ToolForm!DebugHeard(i)
      PROVE  ToolGoes(n)
  <2>1. n = "debug" /\ ToolPicks(n) = DebugPicks /\ form.pick \in DebugPicks
    BY <1>7 DEF ToolForm!DebugHeard, ToolForm!Named, ToolPicks
  <2>2. /\ Whole(n) /\ Heard /\ form'.pick = form.pick /\ form'.filled = form.filled
        /\ form'.rules = form.rules
    BY <1>7, <2>1 DEF ToolForm!DebugHeard, ToolForm!Loaded, ToolForm!Without, Form!Without, Whole, Heard, Shaped
  <2>3. ToolExtra(form', n)
    BY <2>1, <2>2, DebugFits DEF Heard, ToolExtra, DebugExtra
  <2> QED
    BY <2>1, <2>2, <2>3, ToolMoves
<1>8. CASE ToolForm!ProbeOpens
  <2>1. n = "debug" /\ ToolPicks(n) = DebugPicks /\ form.pick \in DebugPicks
    BY <1>8 DEF ToolForm!ProbeOpens, ToolForm!Named, ToolPicks
  <2>2. PICK p \in ToolForm!Probes \cup {"none"} : form' = [form EXCEPT !.pick.dialog = p]
    BY <1>8 DEF ToolForm!ProbeOpens, ToolForm!Probes
  <2>3. /\ Whole(n) /\ Still /\ form'.pick = [form.pick EXCEPT !.dialog = p]
        /\ form'.filled = form.filled /\ form'.rules = form.rules
    BY <2>1, <2>2 DEF Whole, Still, Shaped
  <2>4. /\ form'.pick \in DebugPicks /\ form'.pick.testing = form.pick.testing
        /\ form'.pick.results = form.pick.results
    BY <2>1, <2>3 DEF DebugPicks
  <2>5. ToolExtra(form', n)
    BY <2>1, <2>3, <2>4, DebugFits DEF Still, ToolExtra, DebugExtra
  <2> QED
    BY <2>1, <2>3, <2>4, <2>5, ToolMoves
<1>9. CASE ToolForm!ProbeCloses
  <2>1. n = "debug" /\ ToolPicks(n) = DebugPicks /\ form.pick \in DebugPicks
    BY <1>9 DEF ToolForm!ProbeCloses, ToolForm!Named, ToolForm!ProbeShown, ToolPicks
  <2>2. PICK p \in ToolForm!Probes \cup {"none"} : form' = [form EXCEPT !.pick.dialog = p]
    BY <1>9 DEF ToolForm!ProbeCloses, ToolForm!Probes
  <2>3. /\ Whole(n) /\ Still /\ form'.pick = [form.pick EXCEPT !.dialog = p]
        /\ form'.filled = form.filled /\ form'.rules = form.rules
    BY <2>1, <2>2 DEF Whole, Still, Shaped
  <2>4. /\ form'.pick \in DebugPicks /\ form'.pick.testing = form.pick.testing
        /\ form'.pick.results = form.pick.results
    BY <2>1, <2>3 DEF DebugPicks
  <2>5. ToolExtra(form', n)
    BY <2>1, <2>3, <2>4, DebugFits DEF Still, ToolExtra, DebugExtra
  <2> QED
    BY <2>1, <2>3, <2>4, <2>5, ToolMoves
<1>10. CASE ToolForm!ProbeTypes
  <2>1. n = "debug" /\ ToolPicks(n) = DebugPicks /\ form.pick \in DebugPicks
    BY <1>10 DEF ToolForm!ProbeTypes, ToolForm!Named, ToolForm!ProbeShown, ToolPicks
  <2>2. form.pick.dialog \in ToolForm!Probes
    BY <1>10, <2>1 DEF ToolForm!ProbeTypes, ToolForm!ProbeShown, DebugPicks
  <2>3. ToolForm!ProbeNeeds(form.pick.dialog) \in SUBSET ToolFields
    BY <2>2, Needs
  <2>4. Whole(n) /\ Still /\ Filled /\ form'.filled \subseteq ToolFields
    BY <1>10, <2>3, ToolTyped DEF ToolForm!ProbeTypes
  <2>5. ToolExtra(form', n)
    BY <2>1, <2>4, DebugFits DEF Still, Filled, ToolExtra, DebugExtra
  <2> QED
    BY <2>1, <2>4, <2>5, ToolMoves DEF Filled
<1>11. CASE ToolForm!SseTests
  <2>1. n = "debug" /\ ToolPicks(n) = DebugPicks /\ form.pick \in DebugPicks
    BY <1>11 DEF ToolForm!SseTests, ToolForm!Named, ToolForm!ProbeShown, ToolPicks
  <2>2. /\ "sse" \in ToolForm!Probes /\ "sse" \notin form.pick.testing
        /\ ToolForm!Probing("sse") /\ form.pick.dialog = "sse"
    BY <1>11 DEF ToolForm!SseTests, ToolForm!Probes
  <2> QED
    BY <2>1, <2>2, ProbeBegins
<1>12. CASE ToolForm!TelnetTests
  <2>1. n = "debug" /\ ToolPicks(n) = DebugPicks /\ form.pick \in DebugPicks
    BY <1>12 DEF ToolForm!TelnetTests, ToolForm!Named, ToolForm!ProbeShown, ToolPicks
  <2>2. /\ "telnet" \in ToolForm!Probes /\ "telnet" \notin form.pick.testing
        /\ ToolForm!Probing("telnet") /\ form.pick.dialog = "telnet"
    BY <1>12 DEF ToolForm!TelnetTests, ToolForm!Probes
  <2> QED
    BY <2>1, <2>2, ProbeBegins
<1>13. CASE ToolForm!PingTests
  <2>1. n = "debug" /\ ToolPicks(n) = DebugPicks /\ form.pick \in DebugPicks
    BY <1>13 DEF ToolForm!PingTests, ToolForm!Named, ToolForm!ProbeShown, ToolPicks
  <2>2. /\ "ping" \in ToolForm!Probes /\ "ping" \notin form.pick.testing
        /\ ToolForm!Probing("ping") /\ form.pick.dialog = "ping"
    BY <1>13 DEF ToolForm!PingTests, ToolForm!Probes
  <2> QED
    BY <2>1, <2>2, ProbeBegins
<1>14. ASSUME NEW i \in DOMAIN form.sent, ToolForm!ProbeSettled(i)
      PROVE  ToolGoes(n)
  <2>1. n = "debug" /\ ToolPicks(n) = DebugPicks /\ form.pick \in DebugPicks
    BY <1>14 DEF ToolForm!ProbeSettled, ToolForm!Named, ToolPicks
  <2> QED
    BY <1>14, <2>1, ProbeEnds
<1> QED
  BY <1>1, <1>2, <1>3, <1>4, <1>5, <1>6, <1>7, <1>8, <1>9, <1>10, <1>11, <1>12, <1>13, <1>14
     DEF ToolForm!ToolFormsNext

LEMMA ToolStarts ==
    ASSUME NEW p, NEW f \in ToolForm!ToolFormsOf(p)
    PROVE  f.name \in ToolForm!ToolFormNames /\ ToolFit(f, f.name)
<1>1. CASE p = "service"
  <2>1. PICK c \in ToolForm!Chains :
           f = [name |-> "reach", open |-> FALSE, target |-> NoId, shown |-> NoId,
                pick |-> [chain |-> c], filled |-> {}, rules |-> <<>>, asked |-> <<>>,
                loading |-> FALSE, busy |-> FALSE, sent |-> <<>>]
    BY <1>1 DEF ToolForm!ToolFormsOf, ToolForm!ReachStart, ToolForm!FormOf
  <2>2. f.pick \in ToolPicks("reach")
    BY <2>1, ToolNames DEF ReachPicks
  <2>3. /\ Shaped(f) /\ f.name = "reach" /\ f.open \in BOOLEAN /\ f.loading = FALSE
        /\ f.busy = FALSE /\ f.target = NoId /\ f.shown = NoId /\ f.filled \subseteq ToolFields
        /\ f.rules = <<>> /\ f.asked = <<>> /\ f.sent = <<>>
    BY <2>1 DEF Shaped
  <2>4. ToolExtra(f, "reach")
    BY <2>3 DEF ToolExtra
  <2> QED
    BY <2>2, <2>3, <2>4, Begins, ToolNames DEF ToolFit
<1>2. CASE p = "dashboard"
  <2>1. f = [name |-> "debug", open |-> TRUE, target |-> NoId, shown |-> NoId,
             pick |-> [dialog |-> "none", testing |-> {}, results |-> {}], filled |-> {},
             rules |-> <<>>, asked |-> <<NoId>>, loading |-> TRUE, busy |-> FALSE, sent |-> <<>>]
    BY <1>2 DEF ToolForm!ToolFormsOf, ToolForm!DebugStart, ToolForm!FormOf
  <2>2. /\ f.pick \in ToolPicks("debug") /\ f.pick.testing = {} /\ f.pick.results = {}
    BY <2>1, ToolNames DEF DebugPicks
  <2>3. /\ Shaped(f) /\ f.name = "debug" /\ f.open \in BOOLEAN /\ f.loading \in BOOLEAN
        /\ f.busy = FALSE /\ f.target = NoId /\ f.shown = NoId /\ f.filled \subseteq ToolFields
        /\ f.rules = <<>> /\ f.asked = <<NoId>> /\ f.sent = <<>>
    BY <2>1 DEF Shaped
  <2>4. \A i \in DOMAIN f.sent : FALSE
    BY <2>3, SomeSent
  <2>5. DebugExtra(f)
    BY <2>2, <2>3, <2>4 DEF DebugExtra, Runs, Apart
  <2>6. ToolExtra(f, "debug")
    BY <2>5 DEF ToolExtra
  <2> QED
    BY <2>2, <2>3, <2>6, Begins, ToolNames DEF ToolFit
<1> QED
  BY <1>1, <1>2 DEF ToolForm!ToolFormsOf
=============================================================================
