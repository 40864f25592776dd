--------------------------- MODULE MCHistoryWorker ---------------------------
\* HistoryWorker for TLC: bounds that keep the sets TypeOK names finite are in
\* the configurations.
EXTENDS HistoryWorker, TLC
=============================================================================
