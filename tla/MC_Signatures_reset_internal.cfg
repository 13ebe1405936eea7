\* A load with an internal error, then reset, then another load.
CONSTANTS
  Inputs <- ResetInputs
  MaxLoads = 2
  MaxClauses = 5
  ClauseOf <- MCClauseOf
  Chop <- MCChop
  ServiceHttpText <- MCServiceHttpText
  FieldUpper <- MCFieldUpper
  ClassTitle <- MCClassTitle
  NoField = NoField
  NoArg = NoArg
  NoValue = NoValue
  NoSSM = NoSSM
  NaN = NaN
SPECIFICATION Spec
INVARIANT SpecAccounting
\* The batch stops: after the last call, or when a call aborts.
CHECK_DEADLOCK FALSE
