--------------------------- MODULE MCMarketState ---------------------------
(* Two books, an unlisted symbol that has no row, and a Quantity so narrow *)
(* that the volume shown wraps around.                                     *)
EXTENDS MarketState

(* Traders are only ever compared with one another.                        *)
TraderSymmetry == Permutations(Traders)
=============================================================================
