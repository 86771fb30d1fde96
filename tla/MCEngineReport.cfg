CONSTANTS
  Threads = {t1}
  Symbols <- MCSymbols
  PreOpened <- MCSymbols
  OpKinds = {"submit"}
  Prices <- MCPrices
  Quantities <- MCQuantities
  Types <- MCLimitOnly
  MaxOrders = 2
  ServerCaller = TRUE
SPECIFICATION Spec
PROPERTY ReportsEveryFill
