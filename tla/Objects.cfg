SPECIFICATION Spec
CONSTANTS
  Columns <- TwoColumns
  Texts <- TextWithNul
  Stored <- TwoRows
  MaxBlocks = 10
  MaxRows = 3
  MaxActions = 6
  MaxFaults = 1
INVARIANTS TypeOK Owned BoundAlive StringsTerminated TableAsAsked ListAsAsked
