------------------------------- MODULE MCNsIpc ------------------------------
EXTENDS NsIpc
=============================================================================
