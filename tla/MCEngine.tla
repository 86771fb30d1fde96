------------------------------ MODULE MCEngine ------------------------------
(* Model values and small sets for checking Engine with TLC.               *)
EXTENDS Engine

MCSymbols    == {"S"}
MCPrices     == {1, 2}
MCQuantities == {1}
MCTypes      == {"LIMIT", "MARKET"}
MCLimitOnly  == {"LIMIT"}
ThreadSymmetry == Permutations(Threads)
====
