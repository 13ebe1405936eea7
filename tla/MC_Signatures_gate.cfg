\* A non-HTTP header whose service clause lists http with another service.
CONSTANTS
  Inputs <- GateInputs
  MaxLoads = 1
  MaxClauses = 5
  ClauseOf <- MCClauseOf
  Chop <- MCChop
  ServiceHttpText <- MCServiceHttpText
  FieldUpper <- MCFieldUpper
  ClassTitle <- MCClassTitle
  NoField = NoField
  NoArg = NoArg
  NoValue = NoValue
  NoSSM = NoSSM
  NaN = NaN
SPECIFICATION Spec
INVARIANT HttpGateBySubstring
\* The batch stops: after the last call, or when a call aborts.
CHECK_DEADLOCK FALSE
