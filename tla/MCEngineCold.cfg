CONSTANTS
  Threads = {t1, t2}
  Symbols <- MCSymbols
  PreOpened = {}
  OpKinds = {"submit"}
  Prices <- MCPrices
  Quantities <- MCQuantities
  Types <- MCLimitOnly
  MaxOrders = 2
  ServerCaller = TRUE
SPECIFICATION Spec
INVARIANT ResolvableResting
