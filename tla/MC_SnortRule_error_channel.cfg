\* Rules the spec says fail with a recoverable rule error: which channel reports them.
CONSTANTS
  Clauses <- ErrorChannelClauses
  MinLen = 0
  MaxLen = 3
  FieldUpper <- MCFieldUpper
  NoField = NoField
  NoArg = NoArg
  NoValue = NoValue
  NoSSM = NoSSM
  NaN = NaN
  ClassTitle <- MCClassTitle
SPECIFICATION Spec
INVARIANT RecoverableErrorsOnRuleChannel
