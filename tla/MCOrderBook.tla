---------------------------- MODULE MCOrderBook ----------------------------
(* Model-checking instance of OrderBook: two prices, so that a sweep can   *)
(* cross a level and stop at the next, and two quantities, so that partial *)
(* fills happen on both the taker and the resting side.                    *)
EXTENDS OrderBook

MCPrices     == {1, 2}
MCQuantities == {1, 2}
MCTypes      == AllTypes \ {"STOP_LOSS"}
====
