CONSTANTS
    FruitNames <- MCFruitNames
    ClientIds <- MCClientIds
    MaxAggregators = 8
SPECIFICATION MCSpec
INVARIANT FruitsSpread
CHECK_DEADLOCK FALSE
