-------------------------- MODULE MCTunnelLifecycle --------------------------
\* TunnelLifecycle for TLC: goroutines of one kind are alike.
EXTENDS TunnelLifecycle, TLC
Symmetry == Permutations(Workers) \cup Permutations(RowIds)
=============================================================================
