--------------------------- MODULE MCSSEManager ---------------------------
\* SSEManager for TLC: objects of one kind are alike.
EXTENDS SSEManager, TLC
Symmetry == Permutations(Conns) \cup Permutations(Listeners)

\* Two states are the same to safety if they differ only in an object that
\* nothing can reach, of which the flag alone counts, or in the status of a row
\* that is there, which nothing reads once the boot is over.
View ==
    <<connections,
      [o \in Conns |-> IF Unreachable(o)
                       THEN [connected |-> conn[o].connected] ELSE conn[o]],
      [e \in Endpoints |-> IF boot.passes = 0 /\ Exists(e)
                           THEN [row[e] EXCEPT !.status = "OFFLINE"] ELSE row[e]],
      listener, daemon, boot, calls, shutdown, phase>>
=============================================================================
