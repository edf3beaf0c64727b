------------------------------ MODULE MCClient ------------------------------
(* One internal id, 0, which is no exchange id, and two orders: the client *)
(* can use the id twice, or the other order is the rival's, another        *)
(* trader's, or was entered on the connection that had the descriptor      *)
(* before.                                                                 *)
EXTENDS Client
=============================================================================
