CONSTANTS
  Prices <- MCPrices
  Quantities <- MCQuantities
  Types <- MCTypes
  MaxOrders = 3
SPECIFICATION Spec
INVARIANTS
  TypeOK
  IndexConsistency
  NoEmptyLevels
PROPERTIES
  MatchNeverCrosses
  ImplementsBookSpec
