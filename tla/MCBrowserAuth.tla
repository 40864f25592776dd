---------------------------- MODULE MCBrowserAuth ----------------------------
\* BrowserAuth for TLC.
EXTENDS BrowserAuth, TLC
=============================================================================
