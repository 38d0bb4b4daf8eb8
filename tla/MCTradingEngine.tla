--------------------------- MODULE MCTradingEngine ---------------------------
(* Instances of TradingEngine for TLC: a lot is two shares, fees are ten or *)
(* twenty percent but never less than two.                                  *)
EXTENDS TradingEngine, TLC

Symmetry == Permutations(Tickers)
=============================================================================
