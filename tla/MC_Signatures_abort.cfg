\* A line with a piece that is blank after stripping.
CONSTANTS
  Inputs <- AbortInputs
  MaxLoads = 1
  MaxClauses = 5
  ClauseOf <- MCClauseOf
  Chop <- MCChop
  ServiceHttpText <- MCServiceHttpText
  FieldUpper <- MCFieldUpper
  ClassTitle <- MCClassTitle
  NoField = NoField
  NoArg = NoArg
  NoValue = NoValue
  NoSSM = NoSSM
  NaN = NaN
SPECIFICATION Spec
INVARIANT NoBatchAbort
\* The batch stops: after the last call, or when a call aborts.
CHECK_DEADLOCK FALSE
