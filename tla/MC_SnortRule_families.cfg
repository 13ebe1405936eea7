\* Cross-keyword context, metadata and detection keywords: the bodies of
\* each clause family, and the end of every conversion over them.
CONSTANTS
  Clauses <- FamilyClauses
  MinLen = 0
  MaxLen = 4
  FieldUpper <- MCFieldUpper
  NoField = NoField
  NoArg = NoArg
  NoValue = NoValue
  NoSSM = NoSSM
  NaN = NaN
  ClassTitle <- MCClassTitle
SPECIFICATION FamilySpec
INVARIANT TypeOK
INVARIANT DetectionPartsFollowPrecedingClauses
INVARIANT SeverityLastWriteWins
INVARIANT MetadataInSourceOrder
INVARIANT FastPatternExclusive
INVARIANT ContentModifiersAsSpec
INVARIANT BufferlenAsSpec
PROPERTY ImplementsRuleOutcome
