\* Rules files whose rules fail internally: a rule without msg, priority:0
\* and a msg holding a colon, run through the script once.
CONSTANTS
  Inputs <- SilentInputs
  MaxLoads = 1
  MaxInvocations = 1
  Corrupt = Corrupt
  MaxClauses = 5
  ClauseOf <- CallerClauseOf
  Chop <- MCChop
  ServiceHttpText <- MCServiceHttpText
  FieldUpper <- MCFieldUpper
  ClassTitle <- MCClassTitle
  NoField = NoField
  NoArg = NoArg
  NoValue = NoValue
  NoSSM = NoSSM
  NaN = NaN
SPECIFICATION CallerSpec
INVARIANT ScriptAccountsEveryLine
\* The callers stop after the last invocation.
CHECK_DEADLOCK FALSE
