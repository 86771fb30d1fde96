CONSTANTS
  Threads = {t1}
  Symbols <- MCSymbols
  PreOpened = {}
  OpKinds = {"submit", "cancel", "modify"}
  Prices <- MCPrices
  Quantities <- MCQuantities
  Types <- MCTypes
  MaxOrders = 3
  ServerCaller = TRUE
SPECIFICATION Spec
INVARIANTS ResolvableResting
