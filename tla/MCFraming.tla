----------------------------- MODULE MCFraming -----------------------------
(* Wire sizes scaled down: a header of two bytes that can arrive in two    *)
(* pieces, requests of just a header, at the limit and above it, and a     *)
(* receive buffer smaller than some requests.                              *)
EXTENDS Framing
=============================================================================
