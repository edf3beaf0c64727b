-------------------------- MODULE MCMatchingEngine --------------------------
(* The engine with one book, requests on an unlisted symbol, and a         *)
(* Quantity wide enough that no total wraps.                               *)
EXTENDS MatchingEngine
=============================================================================
