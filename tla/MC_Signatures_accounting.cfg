\* Every line of one or two loads, with resets, ends in one channel or is skipped.
CONSTANTS
  Inputs <- AccountingInputs
  MaxLoads = 2
  MaxClauses = 5
  ClauseOf <- MCClauseOf
  Chop <- MCChop
  ServiceHttpText <- MCServiceHttpText
  FieldUpper <- MCFieldUpper
  ClassTitle <- MCClassTitle
  NoField = NoField
  NoArg = NoArg
  NoValue = NoValue
  NoSSM = NoSSM
  NaN = NaN
SPECIFICATION Spec
INVARIANT TypeOK
INVARIANT SpecAccounting
\* The batch stops: after the last call, or when a call aborts.
CHECK_DEADLOCK FALSE
