---------------------------- MODULE MCSPSCQueue ----------------------------
EXTENDS SPSCQueue
=============================================================================
