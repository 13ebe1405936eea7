---------------------------- MODULE IpsSignature ----------------------------
(***************************************************************************)
(* The signature assembler: IpsKW.construct() renders one intermediate     *)
(* IPS keyword into a list of (json_key, json_value) constructs, and       *)
(* IpsSignature.parse_data() folds each construct into the metadata or     *)
(* the detection-rules section.  output_signature() validates once and     *)
(* then fills defaults.                                                    *)
(*                                                                         *)
(* Data abstraction: a rendered keyword string such as                     *)
(* "data: <lit>, nocase, part HTTP_RAW;" is kept as a record holding the   *)
(* pieces it is printed from (kind, literal, modifier names, part) plus    *)
(* the index of the source clause it came from (src), an observation      *)
(* field the properties use.  Literals and names are model values.         *)
(***************************************************************************)
EXTENDS Integers, Sequences, SequencesExt, TLC

CONSTANT NoSSM            \* the empty SSM string "" of a fresh signature

\* ProtectionMetadata.__init__, restricted to the fields a construct writes;
\* the constant fields (confidenceLevel, performanceImpact, lastUpdate,
\* silent) are only ever defaulted.  maintrainId, a string the code joins
\* with spaces, is kept as the sequence of its pieces.
EmptyMetadata ==
  [protectionName |-> "", severity |-> "", maintrainId |-> <<>>,
   tags |-> <<"Snort">>, cveList |-> <<>>]

\* DetectionRules.__init__ (type "simple" is never written); the keywords
\* string, joined with spaces, is kept as the sequence of its keywords.
EmptyDetection == [SSM |-> NoSSM, keywords |-> <<>>, context |-> <<>>]

\* IpsSignature.__init__: both sections, fresh.
EmptySignature == EmptyMetadata @@ EmptyDetection

\* ProtectionMetadata.is_key_valid and DetectionRules.is_key_valid: the keys
\* of each section's data dict.
MetadataKeys ==
  {"protectionName", "severity", "confidenceLevel", "performanceImpact",
   "lastUpdate", "maintrainId", "tags", "cveList", "silent"}

DetectionKeys == {"type", "SSM", "keywords", "context"}

\* parse_tags / parse_cvelist / parse_context_data: append only if absent.
\* Fault variant of AppendIfAbsent: the membership test dropped.
AppendAlways(s, v) == Append(s, v)

AppendIfAbsent(s, v) == IF Contains(s, v) THEN s ELSE Append(s, v)

\* A (json_key, json_value) pair, as every construct_* method returns it
\* and parse_data unpacks it.
Construct(key, val) == [key |-> key, val |-> val]

(***************************************************************************)
(* IpsKW.construct: the construct list of one intermediate keyword.  An    *)
(* IPS keyword is [keyword, value, mods, src].  For 'keywords' and 'pcre'  *)
(* the 'part' modifier adds a context construct before the rendered       *)
(* keyword; 'length' renders its part into the text only.                 *)
(***************************************************************************)
Constructs(k) ==
  CASE k.keyword = "protectionName" -> <<Construct("protectionName", k.value)>>
    [] k.keyword \in {"keywords", "pcre"} ->
         <<Construct("context", k.mods.part),
           Construct("keywords",
                     [kind |-> IF k.keyword = "pcre" THEN "pcre" ELSE "data",
                      lit |-> k.value, mods |-> k.mods.flags,
                      part |-> k.mods.part, src |-> k.src])>>
    [] k.keyword = "SSM" ->
         <<Construct("context", k.mods.part), Construct("SSM", k.value)>>
    [] k.keyword = "length" ->
         <<Construct("keywords",
                     [kind |-> "length", lit |-> ToString(k.mods.var), mods |-> {k.value},
                      part |-> k.mods.part, src |-> k.src])>>
    [] k.keyword \in {"cveList", "severity"} -> <<Construct(k.keyword, k.value)>>
    [] k.keyword = "tags" -> <<Construct("tags", "Vul_Type_" \o k.value)>>
    [] k.keyword \in {"sid", "rev"} ->
         <<Construct("maintrainId", <<k.keyword, k.value>>)>>

\* ProtectionMetadata.parse_data through its parse_func_map: the name and
\* the severity are overwritten, tags and CVEs appended once, ids appended;
\* the keys of the constant fields only print.
ApplyMetadata(sig, c) ==
  CASE c.key \in {"protectionName", "severity"} -> [sig EXCEPT ![c.key] = c.val]
    [] c.key \in {"tags", "cveList"} -> [sig EXCEPT ![c.key] = AppendIfAbsent(@, c.val)]
    [] c.key = "maintrainId" -> [sig EXCEPT !.maintrainId = Append(@, c.val)]
    [] OTHER -> sig

\* DetectionRules.parse_data through its parse_func_map, for a key that does
\* not raise (type always raises; a second SSM raises, see SSMConflict).
ApplyDetection(sig, c) ==
  CASE c.key = "keywords" -> [sig EXCEPT !.keywords = Append(@, c.val)]
    [] c.key = "context" -> [sig EXCEPT !.context = AppendIfAbsent(@, c.val)]
    [] c.key = "SSM" -> [sig EXCEPT !.SSM = c.val]

\* parse_ssm_data refuses a second fast-pattern literal.
\* Fault variant of SSMConflict: a second SSM is not refused.
SSMNeverConflicts(sig, c) == FALSE

SSMConflict(sig, c) == c.key = "SSM" /\ sig.SSM # NoSSM

\* The SnortHookException a construct raises, or "none": an unknown key,
\* DetectionRules.parse_type_data, or a second fast-pattern literal.
ConstructError(sig, c) ==
  CASE c.key \notin MetadataKeys \cup DetectionKeys -> "NotValidKeyword"
    [] c.key \in MetadataKeys -> "none"
    [] c.key = "type" -> "TypeNotImplemented"
    [] SSMConflict(sig, c) -> "DuplicateFastPattern"
    [] OTHER -> "none"

\* The section a valid key is dispatched to, metadata first.
Apply(sig, c) ==
  IF c.key \in MetadataKeys THEN ApplyMetadata(sig, c) ELSE ApplyDetection(sig, c)

(***************************************************************************)
(* IpsSignature.parse_data over the constructs of a list of IPS keywords,  *)
(* in order; the first failing construct aborts with a rule error.        *)
(***************************************************************************)
ParseData(sig, ipsKws) ==
  LET cs == FlattenSeq([i \in DOMAIN ipsKws |-> Constructs(ipsKws[i])])
      step(acc, c) ==
        IF acc.err # "none" THEN acc
        ELSE IF ConstructError(acc.sig, c) # "none"
             THEN [acc EXCEPT !.err = ConstructError(acc.sig, c)]
             ELSE [acc EXCEPT !.sig = Apply(acc.sig, c)]
  IN FoldLeft(step, [sig |-> sig, err |-> "none"], cs)

(***************************************************************************)
(* output_signature: ProtectionMetadata.validate raises a plain Exception  *)
(* (internal channel), DetectionRules.validate a SnortHookException (rule  *)
(* channel); then set_default_if_needed fills an empty severity.          *)
(***************************************************************************)
\* Fault variant of SetDefaultIfNeeded: the default overwrites the severity.
SetDefaultAlways(sig) == [sig EXCEPT !.severity = "Critical"]

SetDefaultIfNeeded(sig) ==
  [sig EXCEPT !.severity = IF @ = "" THEN "Critical" ELSE @]

\* ProtectionMetadata.validate and DetectionRules.validate.
MetadataValid(sig) == sig.protectionName # ""

DetectionValid(sig) == sig.context # <<>> /\ (sig.keywords # <<>> \/ sig.SSM # NoSSM)

OutputSignature(sig) ==
  CASE ~MetadataValid(sig) ->
         [ch |-> "internal", cause |-> "MissingProtectionName", sig |-> sig]
    [] ~DetectionValid(sig) ->
         [ch |-> "rule", cause |-> "NoDetectionRule", sig |-> sig]
    [] OTHER -> [ch |-> "sig", cause |-> "none", sig |-> SetDefaultIfNeeded(sig)]
=============================================================================
