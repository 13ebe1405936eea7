\* A bufferlen value with an operand before a one-sided operator (5<10).
CONSTANTS
  Clauses <- BufferlenOperandClauses
  MinLen = 0
  MaxLen = 1
  FieldUpper <- MCFieldUpper
  NoField = NoField
  NoArg = NoArg
  NoValue = NoValue
  NoSSM = NoSSM
  NaN = NaN
  ClassTitle <- MCClassTitle
SPECIFICATION Spec
INVARIANT BufferlenAsSpec
