----------------------------- MODULE MCGateway -----------------------------
(* The gateway with connections that may follow one another on a           *)
(* descriptor, log in under one trader id, and close at any moment.        *)
EXTENDS Gateway
=============================================================================
