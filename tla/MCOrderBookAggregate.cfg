\* A resting order partially filled by a taker: is the level total kept?
CONSTANTS
  Prices <- MCPrices
  Quantities <- MCQuantities
  Types = {"LIMIT"}
  MaxOrders = 2
SPECIFICATION EngineSpec
INVARIANT AggregateConsistency
