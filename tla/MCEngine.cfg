CONSTANTS
  Threads = {t1, t2}
  Symbols <- MCSymbols
  PreOpened <- MCSymbols
  OpKinds = {"submit", "cancel", "modify"}
  Prices <- MCPrices
  Quantities <- MCQuantities
  Types <- MCTypes
  MaxOrders = 3
  ServerCaller = FALSE
SYMMETRY ThreadSymmetry
SPECIFICATION Spec
INVARIANTS TypeOK ResolvableResting
