----------------------------- MODULE MCDelivery -----------------------------
(* A queue of one slot, so that the epoll thread waits for the matching    *)
(* thread, and one descriptor that connections use after one another.      *)
EXTENDS Delivery
=============================================================================
