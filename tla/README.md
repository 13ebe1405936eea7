# TLA+ models of the Snort 3 to IPS signature converter

The code under `src/nodes/http_transaction_handler/package/snort3_to_ips/`
converts Snort 3 rule text into IPS signature records. It is a sequential
compiler with one thread, no I/O inside the core and no persistence. The hard
behaviour is therefore not concurrency. It is the *order* of steps inside one
rule's conversion:

- context that one keyword leaves behind for later ones;
- a parse phase that runs to the end before any conversion;
- last-write-wins and deduplicating merges into the signature;
- exceptions that stop the conversion and are sorted onto one of two
  error channels.

Around the core, the local script writes a package file and an error file
in two steps, with no `try`. Which of its runs last wrote each file, and
what its exit status says about that, is the one place where state outlives
a call.

The modules below model that control exactly. The data is abstracted: a
clause is a record of the fields that matter, literals and names are short
strings or model values, and a rendered keyword string is a record of the
pieces it is printed from.

## 1. Inventory of the system

Paths below are relative to `src/nodes/http_transaction_handler/package/snort3_to_ips/`.

| Part | Source | State | Operations |
|---|---|---|---|
| Line segmenter | `utils/utils.py` `parse_snort_rules_line`, `is_invalid_line` | none (a list built per call) | split the header at the first `(`; split the body on `;` and rejoin `\;` continuations |
| Header parser | `SnortRule/SnortRuleHeader.py` | action, protocol, addresses, ports, direction | 2-token or 7-token form, each field checked against a fixed set; `is_http_header` |
| Keyword parser | `SnortRule/SnortKWParser.py` | none | `parse_func_map` dispatch on the text before `:`; one parse function per keyword; the priority map and the classification table |
| Rule context | `SnortRule/SnortRule.py` | `keywords`, `sticky_buffer`, `dynamic_buffer`, `flow`, `signature` | `parse_body` (all clauses), `convert` (each keyword in order), `get_ips_context` through `convert_http_map`, `is_http_rule` |
| Keyword converter | `SnortRule/SnortKW.py` | reads and writes the rule context | one converter per keyword; content modifiers; the bufferlen operators; flow tokens; sticky buffers |
| Signature assembler | `Signature/IpsKW.py`, `IpsSignature.py`, `ProtectionMetadata.py`, `DetectionRules.py` | metadata (`protectionName`, `severity`, `maintrainId`, `tags`, `cveList`), detection rules (`SSM`, `keywords`, `context`) | `construct`, `parse_data`, `validate`, `set_default_if_needed`, `output_signature` |
| Batch driver | `Signature/Signatures.py` | `signatures`, `error_rules`, `error_internal` | `load_snort_signatures` (a loop over lines), `reset`, `get_payload_data` |
| Callers | `../snort_to_ips_local.py`, `main.py`, `Signatures.output_*` | the package file and the error file | the script: check argv, read the rules file, convert with a new `Signatures`, write the package then the errors, no `try`; `convert_incoming_rules`: convert and return the payload |
| Warning log | `utils/utils.py` `prepare_warnings_log` | none (a list built per call) | list up to ten warnings by line, group more per asset and error, append the other warnings and a closing entry |
| Helpers | `utils/utils.py` | none | base64 decode and verify of custom signatures, version id hash |
| Build script | `src/core/version/build_version_vars_h.py` | none | prints a C header |

How the parts interact:

1. `load_snort_signatures` splits each line.
2. It builds the header and drops non-HTTP rules.
3. It builds a `SnortRule`. Its `parse_body` parses every clause first, and
   `convert` then converts the keywords in source order.
4. Each converter reads the context that earlier converters left
   (`sticky_buffer`, `dynamic_buffer`, `flow`). It returns IPS keywords, and
   their constructs are folded into the one `IpsSignature`.
5. `output_signature` validates the signature and then fills defaults.
6. A `SnortHookException` anywhere goes to `error_rules`. Any other exception
   goes to `error_internal`. The segmenter runs outside the `try`.

Hard behaviours (the `hazards` of `PROJECT.json` list each at its line):

- The context is resolved when a content is converted. It comes from
  clauses *before* it, so Snort 2 style modifiers written after a content do
  not apply to it.
- `dynamic_buffer` and `flow` are rule-wide and never reset.
- `fast_pattern` uniqueness is enforced at merge time. A hex segment silently
  falls back to a keyword.
- Severity is written by both classtype and priority, and the last one wins.
  Tags and cves are deduplicated, while sid/rev are not.
- Failures are classified by Python exception type, not by meaning. KeyError,
  ValueError and a plain `Exception` all land on the internal channel.
- Malformed input that the segmenter meets aborts the whole batch.

## 2. Plan (most important first)

1. **Done.** One rule's conversion: the parse phase, every converter, the
   context, the signature merge, output and the error channels (`SnortRule`,
   `SnortKWParser`, `IpsSignature`).
2. **Done.** The batch driver (`Signatures`) composing the line segmenter
   (`RuleLine`), the header parser (`SnortRuleHeader`) and the rule
   conversion (`SnortRule` through INSTANCE), with repeated calls and
   `reset`. It checks the spec's accounting of lines into channels, the
   abort on a blank body piece, and the HTTP gate.
3. **Partly done.** More converter properties:
   - done: content-modifier flags against spec section 4.5
     (`ContentModifiersAsSpec`), which also shows that `relative` is
     refused;
   - done: the bufferlen operator cascade against spec section 4.5
     (`BufferlenAsSpec`), which also shows that `5<10` is accepted as a
     maximum of 10;
   - next: the bufferlen, msg and priority edges the hazards list.
4. **Done.** An abstract specification of one rule's conversion
   (`RuleOutcome`: body to outcome in one step), with `SnortRule` shown to
   refine it (`ImplementsRuleOutcome`). This also settles the error
   precedence of parse-all-before-convert.
5. **Dropped.** The header grammar against a reference of spec section
   4.2. `ParseHeader` already follows section 4.2 clause by clause, so a
   reference would restate the same table, and a check would only compare
   the table with itself. The header's reachable behaviour is exercised
   through the batch runs instead (one-token header, 7-token header to
   `$HTTP_PORTS`).
6. **Done.** The two algorithms of `utils.py`, `parse_snort_rules_line`
   and `prepare_warnings_log`, each against a reference (`MC_Utils`).
7. **Done.** The callers of the batch driver composed with it
   (`LocalConverter`): the local script and `convert_incoming_rules`, run
   in turn against the same output files, with a fault model for the
   files. It checks what the script's exit status tells about the files,
   and that internal errors vanish from the script's output.

## 3. Modules

### `IpsSignature.tla`: signature assembler

| Definition | Code |
|---|---|
| `EmptyMetadata`, `EmptyDetection`, `EmptySignature` | the `__init__` of `ProtectionMetadata`, `DetectionRules` and `IpsSignature` |
| `MetadataKeys`, `DetectionKeys` | the two `is_key_valid`: the keys of each section's dict |
| `Constructs(k)` | `IpsKW.construct` and all its `construct_*` functions |
| `ApplyMetadata`, `ApplyDetection`, `AppendIfAbsent` | each section's `parse_data` through its `parse_func_map` |
| `SSMConflict`, `ConstructError` | the exceptions a construct raises: an unknown key, `parse_type_data`, a second SSM |
| `Apply`, `ParseData` | `IpsSignature.parse_data`: metadata keys first, then detection keys, over the constructs of a keyword list; the first failing construct aborts |
| `MetadataValid`, `DetectionValid`, `OutputSignature`, `SetDefaultIfNeeded` | the two `validate`, in order, then the defaults, with the channel each validation's exception type leads to |

### `SnortKWParser.tla`: keyword parser

`ParseKw(c)` is `parse_kw_parameters` with every parse function's failure.
Each failure is classed as `rule` (`SnortHookException`) or `internal`
(KeyError, ValueError, IndexError). The priority clamp, `PriorityMap` and
the full classification table are kept.

### `SnortRule.tla`: one rule's conversion

Variables are the fields of `SnortRule` plus the `IpsSignature` being built:

- `stage`/`pc` are the position in `parse_body` and then in `convert`;
- `outcome` is the channel the rule ends on.

Actions:

| Action | Code |
|---|---|
| `AddKeyword` | one iteration of `parse_body` |
| `ConvertContent`, `ConvertPcre`, `ConvertBufferlen`, `ConvertFlow`, `ConvertStickyBuffer`, `ConvertMsg`, `ConvertReference`, `ConvertClasstype`, `ConvertPriority`, `ConvertSidRev`, `ConvertNothing`, `ConvertUnknown` | one converter each, with the `signature.parse_data` that `SnortRule.convert` calls on its result folded in (`Emit`) |
| `Output` | `output_signature` |
| `Terminating` | none: the finished rule repeats its final state, so that a state with no successor means a stuck rule |

An exception ends the rule (`Fail`) with the channel that
`load_snort_signatures` would use. `ContextOf` is `convert_http_map`;
`IpsModifiers` is `get_ips_modifiers_from_rule`; `BufferlenKws` is the
operator cascade of `convert_snort_bufferlen_kw`; `IsHexSegmentInStr` is
`is_hex_segment_in_str`, compared through `FastPatternExclusive` with the
spec's unescaped-`|` test (`UnescapedPipe`). A bufferlen value is kept
as its characters `<`, `=`, `>` and its operands (digit strings, or `NaN`
for a word with a non-digit), so the substring tests, `split` and
`isnumeric` of the code are evaluated on it, not assumed.

The module also holds reference definitions, computed from the body alone
and independent of the converter state, that the properties compare against:

- `RefContext` is the context implied by the preceding clauses.
- `FastPatternContents` are the literal contents marked `fast_pattern`.
- `FirstOccurrences` is the first-seen order without repeats.

### `RuleOutcome.tla`: what one rule's conversion promises

The abstract specification. Its variables are `body` and `result`, and
`Convert` takes `result` from "no outcome" to `Verdict(body)` in one step.
`Verdict` is the fold over the clauses that `parse_body` followed by
`convert` performs:

- the error of the first clause the parser refuses;
- if every clause parses, the error of the first clause whose conversion
  fails in the context its preceding clauses set;
- otherwise what validation of the finished signature decides.

The per-clause verdicts are constant operators. `SnortRule` supplies them
from the body alone:

- `ParseVerdictOf` is `ParseKw`;
- `ConvertVerdictOf` holds every converter's failure conditions under
  `RefContext`, plus the duplicate fast_pattern;
- `OutputVerdictOf` is the two `validate` methods. Only content and pcre
  give a context, so a bufferlen-only rule ends `NoDetectionRule`.

The refinement mapping is `result <- outcome`. Every step of `SnortRule`
other than the one that sets the outcome is a stuttering step of
`RuleOutcome`.

### `MC_SnortRule.tla`: instantiation

Clause constructors, and small clause alphabets each aimed at one question.
All bodies of up to `MaxLen` clauses drawn from an alphabet are checked, so
every order of the chosen clauses occurs. `FamilySpec` starts from the
bodies of the context, metadata and detection alphabets, each alphabet on
its own, so that one passing run covers the three without the bodies that
mix them.

### `RuleLine.tla`: line segmenter and body tokenizer

A line is a sequence of lexemes: the one-character lexemes ` `, `(`, `)`,
`;`, `\` and `#`, and words that hold none of them.

- `ParseSnortRulesLine` is `parse_snort_rules_line`. It includes Python's
  slicing when `find`/`rfind` return -1: `line[0:-1]` cuts the last
  character, through the constant `Chop`.
- The loop is a fold of `SegmentStep`, one pass of the `for`. It skips an
  empty piece, records the IndexError of a piece that strips to nothing,
  holds a piece that ends in a backslash, and flushes otherwise.
- `IsInvalidLine` is `is_invalid_line`.
- `RefBody` is the reference: the segmentation of spec section 4.1, written
  as a recursion over trimmed pieces.

### `WarningsLog.tla`: warning log

`PrepareWarningsLog` is `prepare_warnings_log`. Its control is kept whole:

- the switch on the length of the whole list (ten or fewer: one
  `LineEntry` per SnortRule warning);
- `Tally`, one pass of the first loop of the grouping branch, folded over
  the SnortRule warnings: a sequence of assets in first-seen order, each
  with its errors in first-seen order and their counts (the dict of dicts
  `assets_errors`);
- `Grouped`, the nested loops that turn the tally into entries, all under
  `tmp_id`;
- the other warnings as `PlainEntry`s, and the closing entry, singular
  when exactly one entry precedes it, with the `tmp_id` the loops left.

A message is a record of the pieces it is formatted from. The state
machine is one call: `warnings` is the argument, `PrepareLog` sets `log`.
`RefLog` is the reference. It states the same list over the positions of
the warnings, with counts as cardinalities and orders as first
occurrences, and uses no loops or dicts.

### `MC_Utils.tla`: the `utils.py` algorithms against their references

One run checks both pure algorithms of `utils.py`. A behaviour either
prepares one warning list (`line` is empty) or segments one rule line (the
warning list is empty).

- `MCInputs` are all lists of up to five warnings drawn from four
  (SnortRule warnings of asset a1 with errors e1 and e2, of asset a2 with
  e1, and one of another type), and the lists of ten and eleven made of
  seven SnortRule warnings of a1 and a2 followed by three or four of the
  four.
- `Lines` are all `alert http (...)` lines with up to five body lexemes
  drawn from `msg:t`, `;`, `\` and ` `, plus lines lacking a parenthesis.
  `RuleLine` is instantiated on them, and `TokenizerMatchesSpec` compares
  `ParseSnortRulesLine` of the stripped line with `RefBody`, as
  `load_snort_signatures` calls it.

### `SnortRuleHeader.tla`: header parser

`ParseHeader` is `SnortRuleHeader.__init__`. It takes the 2- or 7-token
form and validates in the code's order: action, protocol, direction.
`Ports` keeps only `$HTTP_PORTS`. `IsHttpHeader` is `is_http_header`.

### `Signatures.tla`: batch driver

The variables are the object's three lists, the loop's `line_number`
(`ln`), the current input, and `phase`:

- `line`: inside the loop at a line;
- `rule`: a rule is converting;
- `idle`: the call has returned;
- `aborted`: an exception left the call.

SnortRule's variables are shared through `Rule == INSTANCE SnortRule`.
Each branch of the loop body is one action:

| Action | Code |
|---|---|
| `SkipInvalidLine` | `is_invalid_line` |
| `AbortOnSegmenter` | an IndexError of `parse_snort_rules_line`, which runs outside the `try` |
| `RejectHeader` | `SnortRule(header)` raises |
| `DropNonHttp` | `is_http_rule` is false |
| `StartRule` | a new `SnortRule` and `parse_body` |
| `RuleStep` | a step of the rule's `Next` |
| `FinishRule` | the append to `signatures`, or one of the two `except` branches |

`Load` is a call of `load_snort_signatures`, which does not clear the
lists. `Payload` is `get_payload_data`, the triple that `main.py`'s
`convert_incoming_rules` returns, and the one `SpecAccounting` counts. `Reset` is `reset`. `seen`, `skipped` and `dropped` are observation
variables for the properties; the code has no such fields.

### `MC_Signatures.tla`: instantiation

- Rule lines are written as lexeme sequences.
- `MCClauseOf` gives the clause record that the keyword parser makes of
  each clause string. Any other string names an unknown keyword.
- Inputs are one or two lines.

### `LocalConverter.tla`: the callers, composed with the batch driver

`LocalConverter` EXTENDS `Signatures` and runs its callers one after
another, each on a new `Signatures` object, against one package file and
one error file. A file is a record `[by, data]` of the invocation that last
wrote it (`by = 0`: as it was before the first invocation).

| Action | Code |
|---|---|
| `Usage` | `len(sys.argv) < 4`: usage line, `exit(1)` |
| `OpenInputFails` | `open(input_pf)` raises; no `try`, so status 1 |
| `StartScript` | the `__main__` block calls `convert_snort_to_ips_package`; `NewAndLoad` is `Signatures()` then `load_snort_signatures` |
| `StartService` | `convert_incoming_rules` (`main.py`) |
| `LoadStep` | one step of the load loop (the actions of `Signatures`) |
| `Traceback` | the IndexError that ended the load leaves the script (status 1) or `convert_incoming_rules` |
| `WritePackage` | `output_ips_signature_package`: written, `open` fails, or cut short after truncation; a failure ends the script |
| `WriteErrors` | `output_errors`, with the same three outcomes; then the script ends |
| `Reply` | `return signatures.get_payload_data()` |

The fault model is the one the code meets without handling it: a missing
input file, an output file that cannot be opened (nothing written), and a
write that fails after `open('w')` has truncated the file (`Corrupt`).
Path joining and JSON layout are left out.

### `MC_LocalConverter.tla`: instantiation

EXTENDS `MC_Signatures` for its rule lines. It adds `priority:0` and a
`msg` holding a `:`, both internal errors of the keyword parser.

## 4. Runs

| Run | Checks | Shows |
|---|---|---|
| `rule_families` | `TypeOK`, `DetectionPartsFollowPrecedingClauses`, `SeverityLastWriteWins`, `MetadataInSourceOrder`, `FastPatternExclusive`, `ContentModifiersAsSpec`, `BufferlenAsSpec`, `ImplementsRuleOutcome` | Over every body of up to 4 clauses of one of three alphabets (context, metadata, detection). Context: a content, pcre or bufferlen is rendered in the part that the sticky buffer, header field and flow direction *before* it select, and the signature context is exactly the parts of its detections, cookie/field collisions and a `flow` after a content included. Metadata: severity is the last classtype/priority's, or Critical when there is none; cves and tags are first-seen deduplicated; sid/rev keep order. Detection: a signature has an SSM iff it has exactly one literal `fast_pattern` content, and that literal is the SSM; every data keyword carries the flags spec section 4.5 derives from its modifiers (zero `distance`/`offset` dropped, `within` as depth + relative), and `UnsupportedModifier` comes only from a modifier the spec does not name; every bufferlen form the spec names gives the spec's length fragments or a rule error. No body is stuck before its outcome (the deadlock check). `SnortRule` implements `RuleOutcome`: a parse error anywhere in the body wins over a conversion error earlier in it, the first conversion error stops the rule, and the two validations run in order. |
| `rule_error_channel` (violation) | `RecoverableErrorsOnRuleChannel` | A rule without msg is reported as an internal error. The alphabet also holds a bare `nocase` (unknown keyword) and an unknown classtype, which take the same internal path; TLC reports the shortest counterexample, the empty body. |
| `rule_relative_modifier` (violation) | `ContentModifiersAsSpec` | `content:A,relative` fails `UnsupportedModifier`: `get_ips_modifiers_from_rule` has no `relative` branch, while the spec passes it through as a flag. |
| `rule_bufferlen_operand` (violation) | `BufferlenAsSpec` | `bufferlen:5<10` converts to a max-10 fragment with the left operand ignored, where the spec refuses every form but a sole `<N`. |
| `rule_spec_uri_example` (violation) | `SpecUriExample` | The spec's worked example converts with context `HTTP_RAW`: `http_uri` after the content does not apply to it. |
| `utils_reference` | `LogMatchesReference`, `TokenizerMatchesSpec` | `prepare_warnings_log` equals its reference: no SnortRule warning is lost or counted twice, grouping keeps the per-asset order, the switch falls between ten and eleven warnings of any type, and the ids and the singular/plural closing entry are as the loops leave them. `parse_snort_rules_line` gives exactly the spec's segmentation of every line of up to five body lexemes of clauses, separators, backslashes and blanks. |
| `batch_accounting` | `TypeOK`, `SpecAccounting` | Over two calls with resets between them, the lines read since the last reset equal signatures + rule errors + internal errors + skipped lines, and a call returns only after its last line. The inputs mix valid, comment, blank, non-HTTP, header-error, no-detection, continued and blank-piece lines. |
| `caller_outputs` | `ExitStatusMatchesFiles` | Over two invocations of the script or `convert_incoming_rules` against the same files, with every fault of the fault model and a load that aborts, the script exits 0 exactly when both files hold this invocation's signatures and rule errors. A failure between the two writes leaves a fresh package beside an old error file, and a failure before them leaves both old files; each ends with status 1. |
| `caller_silent_internal` (violation) | `ScriptAccountsEveryLine` | A rule that fails on the internal channel (no msg, `priority:0`, a `:` in msg) appears in neither file of a script run that exits 0: `output_errors` writes `error_rules` only, and nothing prints `error_internal`. |
| `batch_reset_internal` (violation) | `SpecAccounting` | `reset` leaves `error_internal`: after a load with a missing msg, a reset and another load, an old internal error is still reported. |
| `batch_abort` (violation) | `NoBatchAbort` | `msg:t; ; content:A;` raises IndexError outside the `try`, and the load ends without its remaining lines. |
| `batch_gate` (violation) | `HttpGateBySubstring` | `alert tcp` with `service:http,ssl` is dropped, although the spec's substring test keeps it. |

The channel violation is a spec/code divergence. The spec lists these
errors as recoverable rule errors, but the code raises KeyError or a plain
`Exception`, which `load_snort_signatures` files under `error_internal`.

The silent-internal violation is a spec gap. Spec section 6 leaves
internal errors out of the error document as a channel "for the caller to
log/alert on", and the local script is a caller that does neither. With
the channel divergence above, a rule lacking `msg` converted by the script
leaves no trace at all.

Each property of a passing run has a mutant in `PROJECT.json`: a fault
variant defined just before the definition it replaces, which TLC shows to
break the property.

- `GetIpsContextIgnoringFlow` drops the flow direction.
- `SSMNeverConflicts` drops the duplicate-SSM check.
- `BufferlenKwsSingleFirst` tests `<` and `>` before `<>`.
- `IpsModifiersKeepingZeroDistance` sets an offset for `distance:0`.
- `SetDefaultAlways` overwrites severity.
- `AppendAlways` drops deduplication.
- `FailWithoutStop` keeps converting after an exception.
- `NextLineStoppingEarly` returns from the load one line early.
- `ResetKeepingRuleErrors` keeps `error_rules` on reset.
- `AddKeywordSkippingErrors` drops a clause the parser refuses and goes on
  parsing, which breaks the refinement.
- `TallyRestarting` restarts the count of a repeated error.
- `WritePackageIgnoringFailure` swallows a failed package write and goes
  on to the error file.
- `SegmentStepKeepingHeld` does not clear the held continuation text after
  a flush.

## 5. Bounds

- Bodies of up to 4 clauses. Every context change needs
  at most two clauses (e.g. a sticky buffer then a field, or a flow then a
  content) to reach a rendered keyword, so 4 lets a context be set, read,
  changed and read again.
- Two fast_pattern contents and a hex one, within 4 clauses, reach every
  SSM case. One of the two holds an escaped pipe `\|`, which the code's
  count difference and the spec's "not preceded by `\`" must both treat
  as literal text.
- The modifier alphabet holds a zero `distance`, a `within`, a
  non-numeric `offset`, a non-zero `offset` and `rawbytes`, so every branch
  of `get_ips_modifiers_from_rule` occurs. The `relative` violation needs
  two clauses (msg and the content).
- Two classtypes and three priorities (including one above 4 and 0) within 4
  clauses reach every last-write order.

- The batch runs use one or two lines per input and up to two calls. Every
  branch of the loop body occurs, and resets fall between calls. The
  `reset` bug needs only one internal error before a reset.
- The segmentation check takes every body of up to five lexemes from four
  lexemes. This covers a continuation followed by a flush, two continuations
  in a row, a continuation at the end, and blank and empty pieces next to
  each of them.
- The warning-log check needs eleven warnings to reach the grouping
  branch. Lists of ten and eleven test the switch from both sides. Two
  assets, two errors of one asset and a warning of another type are
  enough to tell the nested per-asset order from a flat first-seen order,
  and to make `tmp_id` differ between the grouped entries and the closing
  entry.

- The callers run twice, so the second invocation finds the first one's
  files, which is what a stale or mismatched pair needs. Each write has
  three outcomes, and the inputs hold lines that convert, fail, are
  skipped or abort the load. The silent-internal run needs one invocation
  and one line.

The passing runs take 7 to 85 seconds and reach 24k to 877k distinct
states.

## 6. Fairness

`SnortRule`'s `Spec` has weak fairness on `Next`. `SnortRule.convert` and
`parse_body` are plain `for` loops in one thread, with no waits, so once
started the loop takes its next step.

Termination is not stated as `<>Done`: a liveness check over the context
alphabet took minutes, too long for a run. The rule runs check deadlock
instead. `Terminating` lets a finished rule repeat its final state, so a
state without a successor is a rule stuck before its outcome. That each
step moves the loops on is not a separate property: every action sets
`pc` past the current clause or moves to a later stage by construction,
as a Python `for` loop does, so such a property would hold whatever the
code did.

`Signatures` states no liveness and has no fairness. Its cfgs set
`CHECK_DEADLOCK FALSE`: after the last call, or after an aborted call, the
batch has nothing more to do. Weak fairness on the loop body of
`load_snort_signatures` would be justified, because a started call runs
in one thread without waits. We tried it with the property that every
started call returns or aborts, but TLC did not get past the initial state
within five minutes, even on the 10-state abort instance. The cost is in
TLC evaluating the fairness of actions whose guards segment and parse the
line. Termination of a call is therefore not a checked property. Every
step of the loop other than a rule step advances `ln` (`NextLine`), and
rule steps terminate by the rule runs above.

`LocalConverter` states no liveness either. Its cfgs set
`CHECK_DEADLOCK FALSE` because the callers stop after the last invocation.

`WarningsLog` and `MC_Utils` model one call of a function that returns.
Their cfg sets `CHECK_DEADLOCK FALSE` for that reason.

## 7. Not modelled (yet)

- The helpers are not modelled. Base64 decoding/verification and the
  version hash have no state and no caller in this repository. The
  callers' file I/O is modelled only by which invocation last wrote a
  file; the JSON text is not.
- The build script `build_version_vars_h.py` only prints a C header from the
  environment.
- Text rendering: keyword strings are records of their pieces. The
  parsers' splitting of a clause string on `:` and `,` is reduced to fields
  of the clause record (`MCClauseOf` for the batch). The `|` hex test is
  kept: a content carries its text as characters of `a`, `|` and `\`, and
  `IsHexSegmentInStr` computes `is_hex_segment_in_str` on it.
- Not judged: a bufferlen length keyword renders its part into the
  keywords text but adds no context entry (`IpsKW.py:64`), so a
  bufferlen-only rule fails `NoDetectionRule`. `ImplementsRuleOutcome`
  fixes this behaviour so that a change to it is noticed. The spec does not
  say whether a length keyword's part belongs to the context, so no run
  judges it.
- Modifier values: content-modifier flags are modelled by name. Which of a
  `distance` and an `offset` value survives under their shared key is not
  compared.
