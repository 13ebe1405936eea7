\* Two invocations of the script or of convert_incoming_rules, against the
\* same output files, with every fault of the fault model.
CONSTANTS
  Inputs <- CallerInputs
  MaxLoads = 1
  MaxInvocations = 2
  Corrupt = Corrupt
  MaxClauses = 5
  ClauseOf <- CallerClauseOf
  Chop <- MCChop
  ServiceHttpText <- MCServiceHttpText
  FieldUpper <- MCFieldUpper
  ClassTitle <- MCClassTitle
  NoField = NoField
  NoArg = NoArg
  NoValue = NoValue
  NoSSM = NoSSM
  NaN = NaN
SPECIFICATION CallerSpec
INVARIANT ExitStatusMatchesFiles
\* The callers stop after the last invocation.
CHECK_DEADLOCK FALSE
