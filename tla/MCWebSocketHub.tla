--------------------------- MODULE MCWebSocketHub ---------------------------
\* WebSocketHub for TLC.
EXTENDS WebSocketHub, TLC

Symmetry == Permutations(Clients)
=============================================================================
