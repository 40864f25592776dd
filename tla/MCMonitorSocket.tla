--------------------------- MODULE MCMonitorSocket ---------------------------
\* MonitorSocket for TLC.
EXTENDS MonitorSocket, TLC
=============================================================================
