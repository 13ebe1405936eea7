------------------------------ MODULE SnortRule ------------------------------
(***************************************************************************)
(* One rule's conversion (SnortRule.parse_body, then SnortRule.convert):   *)
(* every body clause is parsed first (SnortKWParser), then the parsed      *)
(* keywords are converted in source order (SnortKW.convert_func_map); a    *)
(* conversion reads and may change the rule's context (sticky_buffer,      *)
(* dynamic_buffer, flow) and folds its IPS keywords into the signature     *)
(* (IpsSignature.parse_data).  output_signature validates and defaults.   *)
(* The first exception ends the rule on the "rule" channel                 *)
(* (SnortHookException) or the "internal" channel (any other exception).   *)
(***************************************************************************)
EXTENDS Integers, Sequences, SequencesExt, FiniteSets, TLC, IpsSignature, SnortKWParser

CONSTANTS Clauses,        \* the body clauses a rule may contain
          MinLen,         \* the shortest body considered
          MaxLen,         \* the longest body considered
          FieldUpper,     \* str.upper() on the header field names used
          NoField         \* dynamic_buffer = {} (no 'field' entry)

ASSUME MinLen \in Nat /\ MaxLen \in Nat

VARIABLES body,           \* the rule's clauses, as split by the line segmenter
          stage,          \* "parse" | "convert" | "done"
          pc,             \* index of the clause / keyword being handled
          keywords,       \* SnortRule.keywords: the parsed SnortKW list
          sticky_buffer,  \* SnortRule.sticky_buffer
          dynamic_buffer, \* SnortRule.dynamic_buffer['field'], or NoField
          flow,           \* SnortRule.flow
          signature,      \* the IpsSignature being assembled
          outcome         \* [ch, cause]: ch is "none" until the rule ends

vars == <<body, stage, pc, keywords, sticky_buffer, dynamic_buffer, flow,
          signature, outcome>>

ToServerTokens == {"to_server", "from_client"}
ToClientTokens == {"to_client", "from_server"}
NoOpFlowTokens == {"established", "not_established", "stateless",
                   "no_stream", "only_stream", "no_frag", "only_frag"}
KnownRefSystems == {"bugtraq", "cve", "nessus", "arachnids", "mcafee",
                    "osvdb", "msb", "url"}

\* A detection part "HTTP_..._<FIELD>" as its base and its upper-cased suffix.
Part(base, f) == [base |-> base, field |-> f]

(***************************************************************************)
(* get_ips_context: convert_http_map[sticky_buffer] under the current flow *)
(* and dynamic field.  The cookie parts are the request/response header    *)
(* part with suffix COOKIE, the same string http_header:field cookie makes.*)
(***************************************************************************)
ContextOf(sb, fl, fd) ==
  LET dir(req, resp) == IF fl = "client_to_server" THEN req ELSE resp
      ok(p) == [ok |-> TRUE, part |-> p]
      bad == [ok |-> FALSE, cause |-> "UnsupportedContext"]
  IN CASE sb = "Default" -> ok(Part("HTTP_RAW", NoField))
       [] sb = "http_uri" -> ok(Part("HTTP_COMPLETE_URL_DECODED", NoField))
       [] sb = "http_raw_uri" -> ok(Part("HTTP_COMPLETE_URL_ENCODED", NoField))
       [] sb = "http_header" ->
            ok(Part(dir("HTTP_REQUEST_HEADER", "HTTP_RESPONSE_HEADER"),
                    IF fd = NoField THEN NoField ELSE FieldUpper[fd]))
       [] sb = "http_raw_header" ->
            ok(Part(dir("HTTP_REQUEST_HEADER", "HTTP_RESPONSE_HEADER"), NoField))
       [] sb = "http_method" -> ok(Part("HTTP_METHOD", NoField))
       [] sb = "http_client_body" -> ok(Part("HTTP_REQUEST_BODY", NoField))
       [] sb \in {"http_cookie", "http_raw_cookie"} ->
            ok(Part(dir("HTTP_REQUEST_HEADER", "HTTP_RESPONSE_HEADER"), "COOKIE"))
       [] sb = "http_stat_code" ->
            IF fl = "server_to_client" THEN ok(Part("HTTP_RESPONSE_CODE", NoField))
            ELSE bad
       [] sb \in {"pkt_data", "http_stat_msg", "http_encode"} -> bad

\* Fault variant of GetIpsContext: the rule's flow direction is ignored.
GetIpsContextIgnoringFlow == ContextOf(sticky_buffer, "client_to_server", dynamic_buffer)

GetIpsContext == ContextOf(sticky_buffer, flow, dynamic_buffer)

IpsKW(kw, value, mods) == [keyword |-> kw, value |-> value, mods |-> mods, src |-> pc]

(***************************************************************************)
(* get_ips_modifiers_from_rule: the content modifiers, in insertion order, *)
(* into target flags; int() of a non-number raises ValueError.  parse_    *)
(* content keeps them in a dict, so a clause names each modifier once.    *)
(***************************************************************************)
\* Fault variant of IpsModifiers: a distance of 0 still sets an offset.
IpsModifiersKeepingZeroDistance(mods) ==
  LET step(acc, md) ==
        CASE acc.err # "none" -> acc
          [] md.m \in {"distance", "offset"} /\ md.n = NaN ->
               [acc EXCEPT !.err = "Malformed", !.ch = "internal"]
          [] md.m = "nocase" -> [acc EXCEPT !.flags = @ \cup {"nocase"}]
          [] md.m = "depth" -> [acc EXCEPT !.flags = @ \cup {"depth"}]
          [] md.m = "distance" -> [acc EXCEPT !.flags = @ \cup {"relative", "offset"}]
          [] md.m = "offset" ->
               [acc EXCEPT !.flags = @ \cup (IF md.n # 0 THEN {"offset"} ELSE {})]
          [] md.m = "within" -> [acc EXCEPT !.flags = @ \cup {"depth", "relative"}]
          [] md.m = "fast_pattern" -> [acc EXCEPT !.fp = TRUE]
          [] OTHER -> [acc EXCEPT !.err = "UnsupportedModifier", !.ch = "rule"]
  IN FoldLeft(step, [err |-> "none", ch |-> "none", flags |-> {}, fp |-> FALSE], mods)

IpsModifiers(mods) ==
  LET step(acc, md) ==
        CASE acc.err # "none" -> acc
          [] md.m \in {"distance", "offset"} /\ md.n = NaN ->
               [acc EXCEPT !.err = "Malformed", !.ch = "internal"]
          [] md.m = "nocase" -> [acc EXCEPT !.flags = @ \cup {"nocase"}]
          [] md.m = "depth" -> [acc EXCEPT !.flags = @ \cup {"depth"}]
          [] md.m = "distance" ->
               [acc EXCEPT !.flags = @ \cup {"relative"}
                                      \cup (IF md.n # 0 THEN {"offset"} ELSE {})]
          [] md.m = "offset" ->
               [acc EXCEPT !.flags = @ \cup (IF md.n # 0 THEN {"offset"} ELSE {})]
          [] md.m = "within" -> [acc EXCEPT !.flags = @ \cup {"depth", "relative"}]
          [] md.m = "fast_pattern" -> [acc EXCEPT !.fp = TRUE]
          [] OTHER -> [acc EXCEPT !.err = "UnsupportedModifier", !.ch = "rule"]
  IN FoldLeft(step, [err |-> "none", ch |-> "none", flags |-> {}, fp |-> FALSE], mods)

(***************************************************************************)
(* convert_snort_bufferlen_kw.  The value is a sequence of the characters  *)
(* "<", "=" and ">" and of operands: a string of digits, or NaN for a word *)
(* that holds a non-digit.  The operators are looked for as substrings,   *)
(* '<=>' and '<>' first; the two-sided forms unpack value.split(op) into  *)
(* two names                                                               *)
(* (ValueError when the operator occurs twice), the one-sided ones take    *)
(* element [1] of the split whatever precedes the operator.               *)
(***************************************************************************)
\* str.split(sep) for a separator of one or more characters.
RECURSIVE SplitOn(_, _)
SplitOn(v, sep) ==
  LET at == {i \in 1..Len(v) - Len(sep) + 1 : SubSeq(v, i, i + Len(sep) - 1) = sep}
  IN IF at = {} THEN <<v>>
     ELSE <<SubSeq(v, 1, Min(at) - 1)>> \o SplitOn(SubSeq(v, Min(at) + Len(sep), Len(v)), sep)

\* str.isnumeric()
IsNumeric(p) == p # <<>> /\ \A i \in DOMAIN p : p[i] \notin {"<", "=", ">", NaN}

HasOp(v, sep) == Len(SplitOn(v, sep)) > 1

\* One length fragment: its bound ("min", "max" or "exact") and operand.
LengthFrag(bound, p) == [bound |-> bound, var |-> p]

LengthKw(f, part) == IpsKW("length", f.bound, [var |-> f.var, part |-> part])

BufferlenErr(ch, cause) == [ok |-> FALSE, ch |-> ch, cause |-> cause]

\* left_var, right_var = value.split(sep): a min and a max fragment.
TwoSided(v, sep) ==
  LET ps == SplitOn(v, sep) IN
  CASE Len(ps) # 2 -> BufferlenErr("internal", "Malformed")
    [] IsNumeric(ps[1]) /\ IsNumeric(ps[2]) ->
         [ok |-> TRUE, kws |-> <<LengthFrag("min", ps[1]), LengthFrag("max", ps[2])>>]
    [] OTHER -> BufferlenErr("rule", "IllegalNumericValue")

\* value.split(sep)[1]: one fragment.
OneSided(v, sep, bound) ==
  IF IsNumeric(SplitOn(v, sep)[2])
  THEN [ok |-> TRUE, kws |-> <<LengthFrag(bound, SplitOn(v, sep)[2])>>]
  ELSE BufferlenErr("rule", "IllegalNumericValue")

\* Fault variant of BufferlenKws: '<' and '>' are tried before '<>'.
BufferlenKwsSingleFirst(k) ==
  CASE HasOp(k.v, <<"<", "=", ">">>) -> TwoSided(k.v, <<"<", "=", ">">>)
    [] HasOp(k.v, <<"<">>) -> OneSided(k.v, <<"<">>, "max")
    [] HasOp(k.v, <<">">>) -> OneSided(k.v, <<">">>, "min")
    [] HasOp(k.v, <<"<", ">">>) -> TwoSided(k.v, <<"<", ">">>)
    [] IsNumeric(k.v) -> [ok |-> TRUE, kws |-> <<LengthFrag("exact", k.v)>>]
    [] OTHER -> BufferlenErr("rule", "IllegalBufferlenOperator")

BufferlenKws(k) ==
  CASE HasOp(k.v, <<"<", "=", ">">>) -> TwoSided(k.v, <<"<", "=", ">">>)
    [] HasOp(k.v, <<"<", ">">>) -> TwoSided(k.v, <<"<", ">">>)
    [] HasOp(k.v, <<"<">>) -> OneSided(k.v, <<"<">>, "max")
    [] HasOp(k.v, <<">">>) -> OneSided(k.v, <<">">>, "min")
    [] IsNumeric(k.v) -> [ok |-> TRUE, kws |-> <<LengthFrag("exact", k.v)>>]
    [] OTHER -> BufferlenErr("rule", "IllegalBufferlenOperator")

\* utils.is_hex_segment_in_str on a content value: value.count("|") minus
\* value.count("\\|"), where str.count is the number of split pieces less one.
IsHexSegmentInStr(v) == (Len(SplitOn(v, <<"|">>)) - 1) - (Len(SplitOn(v, <<"\\", "|">>)) - 1) > 0

-----------------------------------------------------------------------------

\* SnortRule.__init__ (the header aside) and the start of parse_body on
\* body; an empty body goes straight to convert.
Fresh ==
  /\ stage = IF body = <<>> THEN "convert" ELSE "parse"
  /\ pc = 1
  /\ keywords = <<>>
  /\ sticky_buffer = "Default"
  /\ dynamic_buffer = NoField
  /\ flow = "client_to_server"
  /\ signature = EmptySignature
  /\ outcome = [ch |-> "none", cause |-> "none"]

Init ==
  /\ body \in {b \in BoundedSeq(Clauses, MaxLen) : Len(b) >= MinLen}
  /\ Fresh

\* The same, as the step of Signatures.load_snort_signatures that makes a
\* new SnortRule and hands it the body b.
Start(b) ==
  /\ body' = b
  /\ stage' = IF b = <<>> THEN "convert" ELSE "parse"
  /\ pc' = 1
  /\ keywords' = <<>>
  /\ sticky_buffer' = "Default"
  /\ dynamic_buffer' = NoField
  /\ flow' = "client_to_server"
  /\ signature' = EmptySignature
  /\ outcome' = [ch |-> "none", cause |-> "none"]

\* Fault variant of Fail: the error is recorded but the rule goes on.
FailWithoutStop(ch, cause) == outcome' = [ch |-> ch, cause |-> cause] /\ UNCHANGED stage

Fail(ch, cause) == outcome' = [ch |-> ch, cause |-> cause] /\ stage' = "done"

\* Fault variant of AddKeyword: a clause the parser refuses is dropped and
\* parse_body goes on with the next one.
AddKeywordSkippingErrors ==
  /\ stage = "parse"
  /\ LET r == ParseKw(body[pc]) IN
       /\ keywords' = IF r.ok THEN Append(keywords, r.kw) ELSE keywords
       /\ stage' = IF pc = Len(body) THEN "convert" ELSE "parse"
       /\ pc' = IF pc = Len(body) THEN 1 ELSE pc + 1
       /\ UNCHANGED outcome
  /\ UNCHANGED <<body, sticky_buffer, dynamic_buffer, flow, signature>>

\* SnortRule.add_keyword for body[pc]; parse_body ends after the last one.
AddKeyword ==
  /\ stage = "parse"
  /\ LET r == ParseKw(body[pc]) IN
       \/ /\ r.ok
          /\ keywords' = Append(keywords, r.kw)
          /\ stage' = IF pc = Len(body) THEN "convert" ELSE "parse"
          /\ pc' = IF pc = Len(body) THEN 1 ELSE pc + 1
          /\ UNCHANGED outcome
       \/ /\ ~r.ok
          /\ Fail(r.ch, r.cause)
          /\ UNCHANGED <<keywords, pc>>
  /\ UNCHANGED <<body, sticky_buffer, dynamic_buffer, flow, signature>>

Current == keywords[pc]

Converting(kws) == stage = "convert" /\ pc <= Len(keywords) /\ Current.kw \in kws

\* signature.parse_data(converted_keyword.construct()) for every IPS keyword
\* the conversion returned, then the next keyword.
Emit(ipsKws) ==
  LET r == ParseData(signature, ipsKws) IN
    \/ r.err = "none" /\ signature' = r.sig /\ pc' = pc + 1 /\ UNCHANGED <<stage, outcome>>
    \/ r.err # "none" /\ Fail("rule", r.err) /\ UNCHANGED <<signature, pc>>

\* A conversion that needs get_ips_context before it builds its keywords.
EmitInContext(Build(_)) ==
  IF GetIpsContext.ok THEN Emit(Build(GetIpsContext.part))
  ELSE Fail("rule", GetIpsContext.cause) /\ UNCHANGED <<signature, pc>>

Skip == pc' = pc + 1 /\ UNCHANGED <<stage, outcome, signature>>

(***************************************************************************)
(* SnortKW.convert_snort_content_kw: modifiers, then the context; a        *)
(* fast_pattern literal without a hex segment becomes the SSM.            *)
(***************************************************************************)
ConvertContent ==
  /\ Converting({"content"})
  /\ LET m == IpsModifiers(Current.mods)
         kind == IF m.fp /\ ~IsHexSegmentInStr(Current.text) THEN "SSM" ELSE "keywords"
     IN IF m.err # "none" THEN Fail(m.ch, m.err) /\ UNCHANGED <<signature, pc>>
        ELSE EmitInContext(LAMBDA p :
               <<IpsKW(kind, IF kind = "SSM" THEN [lit |-> Current.lit, src |-> pc]
                             ELSE Current.lit, [flags |-> m.flags, part |-> p])>>)
  /\ UNCHANGED <<body, keywords, sticky_buffer, dynamic_buffer, flow>>

\* convert_snort_pcre_kw
ConvertPcre ==
  /\ Converting({"pcre"})
  /\ EmitInContext(LAMBDA p : <<IpsKW("pcre", Current.lit, [flags |-> {}, part |-> p])>>)
  /\ UNCHANGED <<body, keywords, sticky_buffer, dynamic_buffer, flow>>

\* convert_snort_bufferlen_kw: the context is resolved before the operator.
ConvertBufferlen ==
  /\ Converting({"bufferlen"})
  /\ IF ~GetIpsContext.ok
     THEN Fail("rule", GetIpsContext.cause) /\ UNCHANGED <<signature, pc>>
     ELSE LET b == BufferlenKws(Current) IN
            IF b.ok THEN Emit([i \in DOMAIN b.kws |-> LengthKw(b.kws[i], GetIpsContext.part)]) ELSE Fail(b.ch, b.cause) /\ UNCHANGED <<signature, pc>>
  /\ UNCHANGED <<body, keywords, sticky_buffer, dynamic_buffer, flow>>

\* convert_snort_flow_kw: the last direction token wins; an unknown token fails.
ConvertFlow ==
  /\ Converting({"flow"})
  /\ LET ts == Current.tokens
         known == ToServerTokens \cup ToClientTokens \cup NoOpFlowTokens
         d == SelectLastInSeq(ts, LAMBDA t : t \in ToServerTokens \cup ToClientTokens)
     IN IF \E i \in DOMAIN ts : ts[i] \notin known
        THEN Fail("rule", "UnknownFlow") /\ UNCHANGED <<flow, pc>>
        ELSE /\ flow' = IF d = 0 THEN flow
                        ELSE IF ts[d] \in ToServerTokens THEN "client_to_server"
                        ELSE "server_to_client"
             /\ pc' = pc + 1
             /\ UNCHANGED <<stage, outcome>>
  /\ UNCHANGED <<body, keywords, sticky_buffer, dynamic_buffer, signature>>

\* convert_snort_sticky_buffer: only http_header takes an argument, 'field'.
ConvertStickyBuffer ==
  /\ Converting(StickyKws \cup {"http_encode"})
  /\ sticky_buffer' = Current.kw
  /\ \/ Current.arg = NoArg /\ Skip /\ UNCHANGED dynamic_buffer
     \/ /\ Current.arg # NoArg
        /\ IF Current.kw = "http_header" /\ Current.arg.name = "field"
           THEN dynamic_buffer' = Current.arg.val /\ Skip
           ELSE Fail("rule", "StickyArgument") /\ UNCHANGED <<signature, pc, dynamic_buffer>>
  /\ UNCHANGED <<body, keywords, flow>>

\* convert_snort_msg_kw, convert_snort_reference, convert_snort_classtype,
\* convert_snort_priority, convert_sid_kw / convert_rev_kw
ConvertMsg ==
  /\ Converting({"msg"})
  /\ Emit(<<IpsKW("protectionName", Current.name, "")>>)
  /\ UNCHANGED <<body, keywords, sticky_buffer, dynamic_buffer, flow>>

ConvertReference ==
  /\ Converting({"reference"})
  /\ IF Current.sys \in KnownRefSystems
     THEN Emit(<<IpsKW("cveList", [sys |-> Current.sys, id |-> Current.id], "")>>)
     ELSE Fail("rule", "UnknownReference") /\ UNCHANGED <<signature, pc>>
  /\ UNCHANGED <<body, keywords, sticky_buffer, dynamic_buffer, flow>>

ConvertClasstype ==
  /\ Converting({"classtype"})
  /\ Emit(<<IpsKW("severity", Current.sev, ""), IpsKW("tags", ClassTitle[Current.cls], "")>>)
  /\ UNCHANGED <<body, keywords, sticky_buffer, dynamic_buffer, flow>>

ConvertPriority ==
  /\ Converting({"priority"})
  /\ Emit(<<IpsKW("severity", Current.value, "")>>)
  /\ UNCHANGED <<body, keywords, sticky_buffer, dynamic_buffer, flow>>

ConvertSidRev ==
  /\ Converting({"sid", "rev"})
  /\ Emit(<<IpsKW(Current.kw, Current.v, "")>>)
  /\ UNCHANGED <<body, keywords, sticky_buffer, dynamic_buffer, flow>>

\* gid, metadata and service map to SnortKW.not_implemented, which returns [].
ConvertNothing ==
  /\ Converting({"gid", "metadata", "service"})
  /\ Skip
  /\ UNCHANGED <<body, keywords, sticky_buffer, dynamic_buffer, flow>>

\* A parsed keyword name convert_func_map lacks: KeyError.
ConvertUnknown ==
  /\ stage = "convert" /\ pc <= Len(keywords)
  /\ ~Converting(StickyKws \cup {"http_encode", "content", "pcre", "bufferlen",
                 "flow", "msg", "reference", "classtype", "priority", "sid",
                 "rev", "gid", "metadata", "service"})
  /\ Fail("internal", "UnknownKeyword")
  /\ UNCHANGED <<body, keywords, pc, sticky_buffer, dynamic_buffer, flow, signature>>

\* signature.output_signature(): validate, then set defaults.
Output ==
  /\ stage = "convert" /\ pc > Len(keywords)
  /\ LET r == OutputSignature(signature) IN
       /\ outcome' = [ch |-> r.ch, cause |-> r.cause]
       /\ signature' = r.sig
  /\ stage' = "done"
  /\ UNCHANGED <<body, keywords, pc, sticky_buffer, dynamic_buffer, flow>>

Done == stage = "done"

\* The rule has its outcome: the only step left repeats the final state, so
\* a state without a successor is a rule stuck before its outcome.
Terminating == Done /\ UNCHANGED vars

Next ==
  \/ AddKeyword
  \/ ConvertContent \/ ConvertPcre \/ ConvertBufferlen \/ ConvertFlow
  \/ ConvertStickyBuffer \/ ConvertMsg \/ ConvertReference \/ ConvertClasstype
  \/ ConvertPriority \/ ConvertSidRev \/ ConvertNothing \/ ConvertUnknown
  \/ Output
  \/ Terminating

\* The conversion is a plain loop over a finite list: nothing else runs.
Spec == Init /\ [][Next]_vars /\ WF_vars(Next)

-----------------------------------------------------------------------------
(***************************************************************************)
(* Reference definitions, computed from the body alone.                   *)
(***************************************************************************)

\* The context a clause j should be converted in: the last sticky buffer,
\* the last http_header 'field' argument and the last flow direction token
\* among the clauses before j.
RefContext(b, j) ==
  LET pre == SubSeq(b, 1, j - 1)
      sb == SelectLastInSeq(pre, LAMBDA c : c.kw \in StickyKws)
      fd == SelectLastInSeq(pre, LAMBDA c : c.kw = "http_header" /\ c.arg # NoArg
                                            /\ c.arg.name = "field")
      ts == FlattenSeq([i \in DOMAIN pre |-> IF pre[i].kw = "flow" THEN pre[i].tokens
                                                                  ELSE <<>>])
      d == SelectLastInSeq(ts, LAMBDA t : t \in ToServerTokens \cup ToClientTokens)
  IN ContextOf(IF sb = 0 THEN "Default" ELSE pre[sb].kw,
               IF d = 0 \/ ts[d] \in ToServerTokens THEN "client_to_server"
               ELSE "server_to_client",
               IF fd = 0 THEN NoField ELSE pre[fd].arg.val)

\* Spec section 4.5: a hex-segment delimiter is a '|' not preceded by '\'.
UnescapedPipe(t) == \E i \in DOMAIN t : t[i] = "|" /\ (i = 1 \/ t[i - 1] # "\\")

\* The literal-matching content clauses marked fast_pattern.
FastPatternContents(b) ==
  {i \in DOMAIN b : /\ b[i].kw = "content" /\ ~UnescapedPipe(b[i].text)
                    /\ \E j \in DOMAIN b[i].mods : b[i].mods[j].m = "fast_pattern"}

\* The severity a clause sets, looked up as the parser does.
SeverityOf(c) ==
  IF c.kw = "classtype" THEN ClassSeverity(c.cls)
  ELSE PriorityMap[IF c.n > 4 THEN 4 ELSE c.n]

\* s without repetitions, each element kept at its first position.
RECURSIVE FirstOccurrences(_)
FirstOccurrences(s) ==
  IF s = <<>> THEN <<>>
  ELSE <<Head(s)>> \o Remove(FirstOccurrences(Tail(s)), Head(s))

ClausesOf(kws) == SelectSeq(body, LAMBDA c : c.kw \in kws)

Detections == {f \in Range(signature.keywords) : f.kind \in {"data", "pcre"}}

\* The verdicts of the rule's outcome, from the body alone: the parser's on
\* one clause; a converter's on clause i, in the context RefContext(b, i) of
\* the clauses before it; output_signature's once all have converted.
VerdictOk == [ok |-> TRUE, ch |-> "sig", cause |-> "none"]
VerdictErr(ch, cause) == [ok |-> FALSE, ch |-> ch, cause |-> cause]

ParseVerdictOf(c) ==
  IF ParseKw(c).ok THEN VerdictOk ELSE VerdictErr(ParseKw(c).ch, ParseKw(c).cause)

ConvertVerdictOf(b, i) ==
  LET k == ParseKw(b[i]).kw
      ctx == RefContext(b, i)
      noCtx == VerdictErr("rule", ctx.cause)
  IN CASE k.kw = "content" /\ IpsModifiers(k.mods).err # "none" ->
            VerdictErr(IpsModifiers(k.mods).ch, IpsModifiers(k.mods).err)
       [] k.kw \in {"content", "pcre", "bufferlen"} /\ ~ctx.ok -> noCtx
       [] k.kw = "content" /\ i \in FastPatternContents(b)
                           /\ \E j \in FastPatternContents(b) : j < i ->
            VerdictErr("rule", "DuplicateFastPattern")
       [] k.kw = "bufferlen" /\ ~BufferlenKws(k).ok ->
            VerdictErr(BufferlenKws(k).ch, BufferlenKws(k).cause)
       [] k.kw = "flow" /\ \E t \in Range(k.tokens) :
                             t \notin ToServerTokens \cup ToClientTokens \cup NoOpFlowTokens ->
            VerdictErr("rule", "UnknownFlow")
       [] k.kw \in StickyKws /\ k.arg # NoArg
                            /\ ~(k.kw = "http_header" /\ k.arg.name = "field") ->
            VerdictErr("rule", "StickyArgument")
       [] k.kw = "reference" /\ k.sys \notin KnownRefSystems ->
            VerdictErr("rule", "UnknownReference")
       [] k.kw \notin StickyKws \cup {"content", "pcre", "bufferlen", "flow", "msg",
                     "reference", "classtype", "priority", "sid", "rev", "gid",
                     "metadata", "service"} ->
            VerdictErr("internal", "UnknownKeyword")
       [] OTHER -> VerdictOk

\* The protection name is the last msg's; only content and pcre clauses
\* give the signature a context (a bufferlen fragment carries its part in
\* its text only).
OutputVerdictOf(b) ==
  LET m == SelectLastInSeq(b, LAMBDA c : c.kw = "msg") IN
  CASE m = 0 \/ b[m].name = "" -> VerdictErr("internal", "MissingProtectionName")
    [] \A i \in DOMAIN b : b[i].kw \notin {"content", "pcre"} ->
         VerdictErr("rule", "NoDetectionRule")
    [] OTHER -> VerdictOk

-----------------------------------------------------------------------------
(***************************************************************************)
(* Properties                                                              *)
(***************************************************************************)

Parts == {Part(b, f) : b \in {"HTTP_RAW", "HTTP_COMPLETE_URL_DECODED",
            "HTTP_COMPLETE_URL_ENCODED", "HTTP_REQUEST_HEADER",
            "HTTP_RESPONSE_HEADER", "HTTP_METHOD", "HTTP_REQUEST_BODY",
            "HTTP_RESPONSE_CODE"},
                       f \in {NoField, "COOKIE"} \cup Range(FieldUpper)}

TypeOK ==
  /\ stage \in {"parse", "convert", "done"}
  /\ pc \in 1..MaxLen + 1
  /\ sticky_buffer \in StickyKws \cup {"Default"}
  /\ dynamic_buffer \in DOMAIN FieldUpper \cup {NoField}
  /\ flow \in {"client_to_server", "server_to_client"}
  /\ Len(keywords) <= Len(body)
  /\ Range(signature.context) \subseteq Parts
  /\ outcome.ch \in {"none", "sig", "rule", "internal"}
  /\ (outcome.ch = "none") = (stage # "done")

\* Cross-keyword state (SnortKW.convert_snort_flow_kw,
\* convert_snort_sticky_buffer, SnortRule.get_ips_context): every rendered
\* content, pcre or bufferlen keyword and the SSM carry the part that the
\* sticky buffer, field and flow set by the clauses before them select,
\* and the signature's context is exactly the parts of its content, pcre and
\* SSM keywords.
DetectionPartsFollowPrecedingClauses ==
  /\ \A f \in Range(signature.keywords) : RefContext(body, f.src) = [ok |-> TRUE, part |-> f.part]
  /\ Range(signature.context) =
       {f.part : f \in Detections}
       \cup (IF signature.SSM = NoSSM THEN {} ELSE {RefContext(body, signature.SSM.src).part})

\* DetectionRules.parse_ssm_data and the hex-segment test of
\* convert_snort_content_kw: a converted signature has an SSM exactly when
\* the rule has a fast_pattern content without a hex segment, it is that
\* content's literal, and two such contents never convert.
FastPatternExclusive ==
  outcome.ch = "sig" =>
    /\ Cardinality(FastPatternContents(body)) <= 1
    /\ IF FastPatternContents(body) = {} THEN signature.SSM = NoSSM
       ELSE /\ signature.SSM # NoSSM
            /\ signature.SSM.src \in FastPatternContents(body)
            /\ signature.SSM.lit = body[signature.SSM.src].lit

\* ProtectionMetadata.parse_severity and set_default_if_needed: the severity
\* of a converted signature is the one of the last classtype or priority
\* clause, and Critical when the rule has neither.
SeverityLastWriteWins ==
  outcome.ch = "sig" =>
    LET i == SelectLastInSeq(body, LAMBDA c : c.kw \in {"classtype", "priority"})
    IN signature.severity = IF i = 0 THEN "Critical" ELSE SeverityOf(body[i])

\* parse_cvelist, parse_tags and parse_main_train_id: a converted signature
\* lists each reference and classtype tag once, in first-seen order after
\* the seeded Snort tag, and every sid and rev in source order.
MetadataInSourceOrder ==
  outcome.ch = "sig" =>
    /\ signature.cveList =
         FirstOccurrences([i \in DOMAIN ClausesOf({"reference"}) |->
           [sys |-> ClausesOf({"reference"})[i].sys, id |-> ClausesOf({"reference"})[i].id]])
    /\ signature.tags =
         FirstOccurrences(<<"Snort">> \o [i \in DOMAIN ClausesOf({"classtype"}) |->
                                          "Vul_Type_" \o ClassTitle[ClausesOf({"classtype"})[i].cls]])
    /\ signature.maintrainId =
         [i \in DOMAIN ClausesOf({"sid", "rev"}) |->
           <<ClausesOf({"sid", "rev"})[i].kw, ClausesOf({"sid", "rev"})[i].v>>]

\* The causes the spec (section 7) lists as recoverable rule errors.
SpecRecoverableCauses ==
  {"UnknownKeyword", "UnsupportedKeyword", "UnsupportedModifier",
   "IllegalBufferlenOperator", "IllegalNumericValue", "DuplicateFastPattern",
   "MissingProtectionName", "NoDetectionRule", "UnknownFlow",
   "UnknownClasstype", "UnknownReference"}

\* Spec section 7: an unknown keyword, a missing protection name or an
\* unknown classtype is a recoverable rule error, reported on the rule
\* channel (Signatures.load_snort_signatures' SnortHookException branch),
\* not on the internal channel.
RecoverableErrorsOnRuleChannel ==
  outcome.cause \in SpecRecoverableCauses => outcome.ch = "rule"

\* The content modifiers spec section 4.5 names; any other one fails.
SpecContentModifiers ==
  {"nocase", "relative", "depth", "distance", "offset", "within", "fast_pattern"}

\* Spec section 4.5: the target flags of a content's modifiers.
SpecModifierFlags(mods) ==
  LET ms == {mods[j].m : j \in DOMAIN mods} IN
  (ms \cap {"nocase", "relative", "depth"})
  \cup (IF "within" \in ms THEN {"depth", "relative"} ELSE {})
  \cup (IF "distance" \in ms THEN {"relative"} ELSE {})
  \cup (IF \E j \in DOMAIN mods : mods[j].m \in {"distance", "offset"} /\ mods[j].n # 0
        THEN {"offset"} ELSE {})

\* Spec section 4.5 against get_ips_modifiers_from_rule and
\* IpsKW.construct_detection_keyword: every data keyword of a converted
\* signature carries exactly the flags the spec derives from its content's
\* modifiers, and a rule fails UnsupportedModifier only when one of its
\* contents has a modifier the spec does not name (or a pcre has flags the
\* parser refuses).
ContentModifiersAsSpec ==
  /\ outcome.ch = "sig" =>
       \A f \in Range(signature.keywords) :
         f.kind = "data" => f.mods = SpecModifierFlags(body[f.src].mods)
  /\ outcome.cause = "UnsupportedModifier" =>
       \E i \in DOMAIN body :
         \/ body[i].kw = "pcre" /\ body[i].flags # "ok"
         \/ body[i].kw = "content" /\
              \E j \in DOMAIN body[i].mods : body[i].mods[j].m \notin SpecContentModifiers

\* Spec section 4.5, bufferlen: the operator is the run of "<", "=", ">"
\* in the value; L<=>R and L<>R give a min and a max fragment, a sole <N a
\* max, a sole >N a min, a bare number an exact one; every operand must be
\* numeric, and any other form is refused.
SpecBufferlen(v) ==
  LET ops == {i \in DOMAIN v : v[i] \in {"<", "=", ">"}}
      op == IF ops = {} THEN <<>> ELSE SubSeq(v, Min(ops), Max(ops))
      l == IF ops = {} THEN v ELSE SubSeq(v, 1, Min(ops) - 1)
      r == IF ops = {} THEN <<>> ELSE SubSeq(v, Max(ops) + 1, Len(v))
      frags(fs) == IF \A f \in fs : IsNumeric(f[2]) THEN [ok |-> TRUE, frags |-> fs]
                   ELSE [ok |-> FALSE]
  IN CASE op \in {<<"<", "=", ">">>, <<"<", ">">>} -> frags({<<"min", l>>, <<"max", r>>})
       [] op = <<"<">> /\ l = <<>> -> frags({<<"max", r>>})
       [] op = <<">">> /\ l = <<>> -> frags({<<"min", r>>})
       [] op = <<>> -> frags({<<"exact", v>>})
       [] OTHER -> [ok |-> FALSE]

\* Spec section 4.5 against convert_snort_bufferlen_kw: the length
\* fragments a bufferlen clause adds to the signature are exactly the ones
\* the spec reads from its value, and when a bufferlen clause stops the
\* conversion with an operator or operand error, the spec refuses its value
\* too and the error is a rule error (spec section 7).
BufferlenAsSpec ==
  /\ \A i \in DOMAIN body :
       LET frags == {f \in Range(signature.keywords) : f.kind = "length" /\ f.src = i}
       IN (body[i].kw = "bufferlen" /\ frags # {}) =>
            /\ SpecBufferlen(body[i].v).ok
            /\ {<<f.mods, f.lit>> : f \in frags} =
                 {<<{g[1]}, ToString(g[2])>> : g \in SpecBufferlen(body[i].v).frags}
  /\ (Done /\ pc <= Len(keywords) /\ Current.kw = "bufferlen"
      /\ outcome.cause \in {"IllegalNumericValue", "IllegalBufferlenOperator", "Malformed"}) =>
       ~SpecBufferlen(Current.v).ok /\ outcome.ch = "rule"

\* Spec section 8: header "alert http" with body
\* content:"GET"; http_uri; msg:"t"; sid:1; converts with the context
\* [HTTP_COMPLETE_URL_DECODED].
SpecUriExample ==
  (/\ outcome.ch = "sig" /\ Len(body) = 4
   /\ body[1].kw = "content" /\ body[2].kw = "http_uri"
   /\ body[3].kw = "msg" /\ body[4].kw = "sid") =>
    signature.context = <<Part("HTTP_COMPLETE_URL_DECODED", NoField)>>

\* SnortRule.parse_body then SnortRule.convert implement RuleOutcome: the
\* staged loops, their mutable context (sticky_buffer, dynamic_buffer,
\* flow) and the signature being folded together end every rule with the
\* outcome of the abstract fold, in which every clause is parsed before any
\* converts, so a parse error anywhere takes precedence over a conversion
\* error earlier in the body, and the first conversion error stops the rule.
Abs == INSTANCE RuleOutcome WITH Clause <- Clauses, result <- outcome,
         ParseVerdict <- ParseVerdictOf, ConvertVerdict <- ConvertVerdictOf,
         OutputVerdict <- OutputVerdictOf

ImplementsRuleOutcome == Abs!Safety
=============================================================================
