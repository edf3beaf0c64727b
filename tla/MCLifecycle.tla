----------------------------- MODULE MCLifecycle -----------------------------
(* A queue of two messages: room for one, and full.                        *)
EXTENDS Lifecycle
=============================================================================
