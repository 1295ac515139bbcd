SPECIFICATION AuthoringSpec
CONSTANTS
  SnakeNames <- MCSnakeNames
  ReservedNames <- MCReservedNames
  PascalNames <- MCPascalNames
  IntHigh = 1
  LongHigh = 3
  Documents <- MCDocuments
  FieldNames <- MCFieldNames
  TypeNameTexts <- MCTypeNameTexts
  TypePairs <- MCTypePairs
  Options <- MCOptions
  Bindings <- MCBindings
  Numbers <- MCNumbers
  Probes <- MCProbes
  MaxEdits = 2
INVARIANTS EveryFieldRenders ScalarFitsWire
CHECK_DEADLOCK FALSE
