\* prepare_warnings_log and parse_snort_rules_line against their references.
CONSTANTS
  Inputs <- MCInputs
SPECIFICATION UtilsSpec
INVARIANT LogMatchesReference
INVARIANT TokenizerMatchesSpec
\* Each helper returns; nothing follows.
CHECK_DEADLOCK FALSE
