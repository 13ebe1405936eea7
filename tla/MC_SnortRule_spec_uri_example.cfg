\* The spec's worked example with http_uri after content.
CONSTANTS
  Clauses <- UriExampleClauses
  MinLen = 0
  MaxLen = 4
  FieldUpper <- MCFieldUpper
  NoField = NoField
  NoArg = NoArg
  NoValue = NoValue
  NoSSM = NoSSM
  NaN = NaN
  ClassTitle <- MCClassTitle
SPECIFICATION Spec
INVARIANT SpecUriExample
