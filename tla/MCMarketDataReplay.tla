------------------------- MODULE MCMarketDataReplay -------------------------
(* One book with a subscriber and traders that follow its messages.        *)
EXTENDS MarketDataReplay

(* Traders are only ever compared with one another.                        *)
TraderSymmetry == Permutations(Traders)
=============================================================================
