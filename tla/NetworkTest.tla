----------------------------- MODULE NetworkTest ----------------------------
(***************************************************************************)
(* The network test of an endpoint (ui/network-debug-modal): a number of   *)
(* requests one after another, each but the first after a timer.  A        *)
(* sequence that was stopped goes on if the next test has begun when its   *)
(* request is answered; the index and the results are those of both.       *)
(*                                                                         *)
(* Abstracted: latencies; a failing request counts like any other.         *)
(* Bounds: Tests requests in a test, MaxSequences sequences alive.         *)
(***************************************************************************)
EXTENDS Naturals

CONSTANTS Tests, MaxSequences

VARIABLE
    test  \* open, started, running, first (isInitialLoading); index: testIndexRef,
          \* and as many results are shown; runs: what each sequence waits for,
          \* "first" for the answer to the request of index 0; ref: the sequence
          \* whose timer intervalRef has, 0 once it fired

Waits == {"none", "first", "answer", "timer"}

\* Each sequence but one may still add a result when all have come.
Counts == 0..(Tests + MaxSequences - 1)

Test ==
    [open : BOOLEAN, started : BOOLEAN, running : BOOLEAN, first : BOOLEAN,
     index : Counts, runs : [1..MaxSequences -> Waits],
     ref : 0..MaxSequences]

TestTypeOK == test \in Test

Closed ==
    [open |-> FALSE, started |-> FALSE, running |-> FALSE, first |-> FALSE,
     index |-> 0, runs |-> [k \in 1..MaxSequences |-> "none"], ref |-> 0]

\* The dialog is closed and nothing of it is left.
AtRest == test = Closed

OpenTest == ~test.open /\ test' = [test EXCEPT !.open = TRUE]

\* runTestSequence asks, from a dialog in the state t.
Asks(t, k) == [t EXCEPT !.runs[k] = IF t.index = 0 THEN "first" ELSE "answer"]

StartTest ==
    /\ test.open /\ ~test.started
    /\ \E k \in 1..MaxSequences :
          /\ test.runs[k] = "none"
          /\ test' = Asks([test EXCEPT !.started = TRUE, !.running = TRUE, !.first = TRUE,
                                       !.index = 0], k)

\* The answer counts, and the next request follows after a timer.
TestAnswered(k) ==
    /\ test.runs[k] \in {"first", "answer"}
    /\ LET t == [test EXCEPT !.first = @ /\ test.runs[k] # "first", !.index = @ + 1]
       IN  test' = IF t.index < Tests THEN [t EXCEPT !.runs[k] = "timer", !.ref = k]
                   ELSE [t EXCEPT !.runs[k] = "none", !.running = FALSE]

\* The timer of a test that is not running, or has done all, ends its sequence.
TestTimerFires(k) ==
    /\ test.runs[k] = "timer"
    /\ LET t == [test EXCEPT !.ref = IF @ = k THEN 0 ELSE @]
       IN  test' = IF ~t.running THEN [t EXCEPT !.runs[k] = "none"]
                   ELSE IF t.index >= Tests
                     THEN [t EXCEPT !.runs[k] = "none", !.running = FALSE]
                   ELSE Asks(t, k)

\* stopTest knows one timer only.
Stopped(t) ==
    [t EXCEPT !.running = FALSE, !.ref = 0,
              !.runs = [k \in 1..MaxSequences |->
                           IF k = t.ref /\ @[k] = "timer" THEN "none" ELSE @[k]]]

StopTest == test.open /\ test.running /\ test' = Stopped(test)

\* resetTest
Forgotten(t) ==
    [(IF t.running THEN Stopped(t) ELSE t) EXCEPT
        !.started = FALSE, !.first = FALSE, !.index = 0]

RetryTest == test.open /\ test.started /\ ~test.running /\ test' = Forgotten(test)

CloseTest == test.open /\ test' = [Forgotten(test) EXCEPT !.open = FALSE]

TestNext ==
    \/ StartTest \/ StopTest \/ RetryTest \/ CloseTest
    \/ \E k \in 1..MaxSequences : TestAnswered(k) \/ TestTimerFires(k)

-----------------------------------------------------------------------------
\* A test that runs has a request or a timer that goes on with it, and its spinner
\* a first request, whichever sequences of stopped tests take part in it.
TestBusyMeansPending ==
    /\ test.running => \E k \in 1..MaxSequences : test.runs[k] # "none"
    /\ test.first => \E k \in 1..MaxSequences : test.runs[k] = "first"
=============================================================================
