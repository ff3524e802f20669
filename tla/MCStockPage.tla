---------------------------- MODULE MCStockPage ----------------------------
(* Instance: a watchlist of two rows, of which one has a quote already, and a *)
(* symbol typed in the search that no server knows.                          *)
EXTENDS StockPage

CONSTANTS a, b, x

MCWatchlist == <<a, b>>

\* Bound: a failure takes the place of a refresh.
Bounded == generation' + Cardinality(failed') <= MaxRefreshes
BoundedSpec == Init /\ [][Next /\ Bounded]_vars /\ Fairness

=============================================================================
