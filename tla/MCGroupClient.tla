---------------------------- MODULE MCGroupClient ----------------------------
\* Instances of GroupClient for TLC.
EXTENDS GroupClient
=============================================================================
