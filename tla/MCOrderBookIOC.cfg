\* IOC orders against resting LIMIT orders at two prices.
CONSTANTS
  Prices <- MCPrices
  Quantities <- MCQuantities
  Types = {"LIMIT", "IOC"}
  MaxOrders = 2
SPECIFICATION EngineSpec
INVARIANT TradesWithinLimit
