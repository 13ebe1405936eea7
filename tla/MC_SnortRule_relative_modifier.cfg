\* A content with the spec's relative modifier.
CONSTANTS
  Clauses <- RelativeClauses
  MinLen = 0
  MaxLen = 2
  FieldUpper <- MCFieldUpper
  NoField = NoField
  NoArg = NoArg
  NoValue = NoValue
  NoSSM = NoSSM
  NaN = NaN
  ClassTitle <- MCClassTitle
SPECIFICATION Spec
INVARIANT ContentModifiersAsSpec
