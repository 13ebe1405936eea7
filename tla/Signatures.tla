----------------------------- MODULE Signatures -----------------------------
(***************************************************************************)
(* The batch driver: Signatures.load_snort_signatures over the lines of    *)
(* one input, and reset.  Each candidate line is segmented (RuleLine),     *)
(* its header parsed (SnortRuleHeader), the HTTP gate applied, and the     *)
(* rule converted step by step (SnortRule, instantiated on the rule        *)
(* variables below); the result goes to one of three channels.            *)
(* parse_snort_rules_line runs outside the try block: an exception there   *)
(* leaves load_snort_signatures (phase "aborted").                         *)
(***************************************************************************)
EXTENDS Integers, Sequences, SequencesExt, FiniteSets, RuleLine, SnortRuleHeader

CONSTANTS Inputs,         \* the rules_input texts, as sequences of lines
          MaxLoads,       \* how many times load_snort_signatures is called
          MaxClauses,     \* the longest rule body the inputs produce
          ClauseOf(_),    \* the clause record of a clause string
          ServiceHttpText,\* the body lexemes whose text contains "service:http"
          FieldUpper, NoField, NoArg, NoValue, NoSSM, NaN, ClassTitle

ASSUME MaxLoads \in Nat

VARIABLES phase,          \* "idle" | "line" | "rule" | "aborted"
          input,          \* the lines of the current rules_input
          ln,             \* line_number
          signatures, error_rules, error_internal,
          loads,          \* calls of load_snort_signatures so far
          seen,           \* observation: lines read since the last reset
          skipped,        \* observation: of those, blank, comment or non-HTTP
          dropped,        \* observation: lines of this load the gate dropped
          body, stage, pc, keywords, sticky_buffer, dynamic_buffer, flow,
          signature, outcome

ruleVars == <<body, stage, pc, keywords, sticky_buffer, dynamic_buffer, flow,
              signature, outcome>>
batchVars == <<phase, input, ln, signatures, error_rules, error_internal, loads,
               seen, skipped, dropped>>
vars == <<batchVars, ruleVars>>

Rule == INSTANCE SnortRule WITH Clauses <- {}, MinLen <- 0, MaxLen <- MaxClauses

Line == input[ln]

\* rule = line.strip(); header, body = parse_snort_rules_line(rule)
SegmentedOf(l) == ParseSnortRulesLine(Strip(l))
Segmented == SegmentedOf(Line)

\* SnortRuleHeader(header): the header text split on single spaces.
HeaderOf(l) == LET ts == Split(SegmentedOf(l).header, Space)
               IN ParseHeader([i \in DOMAIN ts |-> Text(ts[i])])
Header == HeaderOf(Line)

\* snort_rule.is_http_rule(body): list membership of the clause string.
IsHttpRule == IsHttpHeader(Header.rules) \/ "service:http" \in Range(Segmented.body)

Init ==
  /\ phase = "idle"
  /\ input = <<>>
  /\ ln = 1
  /\ signatures = <<>> /\ error_rules = <<>> /\ error_internal = <<>>
  /\ loads = 0 /\ seen = 0 /\ skipped = 0 /\ dropped = {}
  /\ body = <<>> /\ Rule!Fresh

\* Fault variant of NextLine: the call returns before its last line.
NextLineStoppingEarly ==
  /\ ln' = ln + 1
  /\ phase' = IF ln + 1 >= Len(input) THEN "idle" ELSE "line"
  /\ seen' = seen + 1

\* The loop moves to the next line; after the last one the call returns.
NextLine ==
  /\ ln' = ln + 1
  /\ phase' = IF ln = Len(input) THEN "idle" ELSE "line"
  /\ seen' = seen + 1

\* load_snort_signatures(rules_input): the lists are not cleared.
Load ==
  /\ phase = "idle" /\ loads < MaxLoads
  /\ \E rules_input \in Inputs : input' = rules_input
  /\ ln' = 1 /\ phase' = "line" /\ loads' = loads + 1 /\ dropped' = {}
  /\ UNCHANGED <<signatures, error_rules, error_internal, seen, skipped, ruleVars>>

\* is_invalid_line: continue.
SkipInvalidLine ==
  /\ phase = "line" /\ IsInvalidLine(Line)
  /\ NextLine /\ skipped' = skipped + 1
  /\ UNCHANGED <<input, signatures, error_rules, error_internal, loads, dropped, ruleVars>>

\* parse_snort_rules_line raises before the try: the call ends.
AbortOnSegmenter ==
  /\ phase = "line" /\ ~IsInvalidLine(Line) /\ Segmented.err
  /\ phase' = "aborted"
  /\ UNCHANGED <<input, ln, signatures, error_rules, error_internal, loads, seen,
                 skipped, dropped, ruleVars>>

\* SnortRule(header) raises SnortHookException: a rule error.
RejectHeader ==
  /\ phase = "line" /\ ~IsInvalidLine(Line) /\ ~Segmented.err /\ ~Header.ok
  /\ error_rules' = Append(error_rules, [cause |-> Header.cause, line |-> ln])
  /\ NextLine
  /\ UNCHANGED <<input, signatures, error_internal, loads, skipped, dropped, ruleVars>>

\* not snort_rule.is_http_rule(body): continue.
DropNonHttp ==
  /\ phase = "line" /\ ~IsInvalidLine(Line) /\ ~Segmented.err /\ Header.ok /\ ~IsHttpRule
  /\ NextLine /\ skipped' = skipped + 1 /\ dropped' = dropped \cup {ln}
  /\ UNCHANGED <<input, signatures, error_rules, error_internal, loads, ruleVars>>

\* A fresh SnortRule on the line's clauses; parse_body and convert follow.
StartRule ==
  /\ phase = "line" /\ ~IsInvalidLine(Line) /\ ~Segmented.err /\ Header.ok /\ IsHttpRule
  /\ Rule!Start([i \in DOMAIN Segmented.body |-> ClauseOf(Segmented.body[i])])
  /\ phase' = "rule"
  /\ UNCHANGED <<input, ln, signatures, error_rules, error_internal, loads, seen,
                 skipped, dropped>>

RuleStep == phase = "rule" /\ Rule!Next /\ UNCHANGED batchVars

\* self.signatures.append(...) or one of the two except branches.
FinishRule ==
  /\ phase = "rule" /\ Rule!Done
  /\ signatures' = IF outcome.ch = "sig" THEN Append(signatures, signature) ELSE signatures
  /\ error_rules' = IF outcome.ch = "rule"
                    THEN Append(error_rules, [cause |-> outcome.cause, line |-> ln])
                    ELSE error_rules
  /\ error_internal' = IF outcome.ch = "internal"
                       THEN Append(error_internal, [cause |-> outcome.cause, line |-> ln])
                       ELSE error_internal
  /\ NextLine
  /\ UNCHANGED <<input, loads, skipped, dropped, ruleVars>>

\* Fault variant of Reset: error_rules is kept as well.
ResetKeepingRuleErrors ==
  /\ phase = "idle"
  /\ signatures' = <<>>
  /\ seen' = 0 /\ skipped' = 0
  /\ UNCHANGED <<phase, input, ln, error_rules, error_internal, loads, dropped, ruleVars>>

\* Signatures.reset: error_internal is not cleared.
Reset ==
  /\ phase = "idle"
  /\ signatures' = <<>> /\ error_rules' = <<>>
  /\ seen' = 0 /\ skipped' = 0
  /\ UNCHANGED <<phase, input, ln, error_internal, loads, dropped, ruleVars>>

Next ==
  \/ Load \/ SkipInvalidLine \/ AbortOnSegmenter \/ RejectHeader \/ DropNonHttp
  \/ StartRule \/ RuleStep \/ FinishRule \/ Reset

Spec == Init /\ [][Next]_vars

\* get_payload_data: the three lists, as convert_incoming_rules returns them.
Payload == <<signatures, error_rules, error_internal>>

-----------------------------------------------------------------------------
(***************************************************************************)
(* Properties                                                              *)
(***************************************************************************)

TypeOK ==
  /\ phase \in {"idle", "line", "rule", "aborted"}
  /\ input \in Inputs \cup {<<>>}
  /\ ln \in 1..Len(input) + 1
  /\ loads \in 0..MaxLoads
  /\ \A e \in Range(error_rules) \cup Range(error_internal) : e.line >= 1
  /\ dropped \subseteq 1..Len(input)
  /\ phase = "idle" => ln = Len(input) + 1
  /\ (phase = "rule") => stage \in {"parse", "convert", "done"}

\* Spec section 8 and the ConversionResult of section 3: when a call of
\* load_snort_signatures has returned, every line read since the last
\* reset is in exactly one of the three channels or was skipped (blank,
\* comment or non-HTTP); reset clears all three channels.
SpecAccounting ==
  phase = "idle" =>
    Len(Payload[1]) + Len(Payload[2]) + Len(Payload[3]) + skipped = seen

\* Spec section 7: no error is fatal to the batch; load_snort_signatures
\* always consumes its whole input.
NoBatchAbort == phase # "aborted"

\* Spec section 4.3: a line the gate drops (is_http_rule false) has neither
\* an HTTP header nor the text "service:http" in its body.
HttpGateBySubstring ==
  \A n \in dropped :
    /\ ~IsHttpHeader(HeaderOf(input[n]).rules)
    /\ \A i \in DOMAIN input[n] : input[n][i] \notin ServiceHttpText
=============================================================================
