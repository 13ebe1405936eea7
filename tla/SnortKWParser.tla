---------------------------- MODULE SnortKWParser ----------------------------
(***************************************************************************)
(* The keyword parser: SnortKWParser.parse_kw_parameters dispatches a raw  *)
(* body clause on the text before its first ':' through parse_func_map.   *)
(*                                                                         *)
(* A clause is abstracted to a record whose fields are what the parser     *)
(* and converter tell apart (e.g. a content literal is a model value plus  *)
(* whether it holds an unescaped '|'; a msg records whether its text holds *)
(* a second ':').  Parsing yields either the parsed keyword (the clause,   *)
(* with priority and classtype looked up) or an error on one of the two   *)
(* channels: "rule" for a SnortHookException, "internal" for any other     *)
(* Python exception (KeyError, ValueError, IndexError).                   *)
(***************************************************************************)
EXTENDS Integers

CONSTANTS NoArg,          \* a sticky-buffer clause without ':' argument
          NoValue,        \* an argument or reference without its second part
          NaN,            \* a numeric field whose text is not a number
          ClassTitle      \* value.replace("-", " ").title().replace(" ", "_")

\* Sticky-buffer keywords of parse_func_map (parse_sticky_buffer or, for
\* pkt_data, simple_rule).  http_encode is in SnortKW.convert_func_map only.
StickyKws == {"pkt_data", "http_uri", "http_raw_uri", "http_header",
              "http_raw_header", "http_method", "http_client_body",
              "http_cookie", "http_stat_code", "http_stat_msg",
              "http_raw_cookie"}

\* The keywords parse_func_map maps to not_implemented (a sample of them).
NotImplementedKws ==
  {"byte_test", "file_data", "byte_jump", "isdataat", "dsize", "icode",
   "flowbits", "itype", "dce_iface", "cmp_id", "detection_filter", "flags",
   "sip_stat_code", "ack", "ip_proto", "sip_method", "asn1", "ssl_version",
   "base64_decode", "ssl_state", "sip_header", "fragbits"}

ParseFuncMapKeys ==
  {"content", "pcre", "flow", "bufferlen", "msg", "reference", "gid", "sid",
   "rev", "classtype", "priority", "metadata", "service"}
  \cup StickyKws \cup NotImplementedKws

\* priority_map
PriorityMap == [i \in 1..4 |-> CASE i = 1 -> "High" [] i = 2 -> "Medium"
                                 [] i = 3 -> "Low"  [] i = 4 -> "Very Low"]

\* snort_default_classifications, grouped by severity.
ClassesOf(sev) ==
  CASE sev = "High" ->
         {"attempted-admin", "attempted-user", "inappropriate-content",
          "policy-violation", "shellcode-detect", "successful-admin",
          "successful-user", "trojan-activity", "unsuccessful-user",
          "web-application-attack"}
    [] sev = "Medium" ->
         {"attempted-dos", "attempted-recon", "bad-unknown",
          "default-login-attempt", "denial-of-service", "misc-attack",
          "non-standard-protocol", "rpc-portmap-decode", "successful-dos",
          "successful-recon-largescale", "successful-recon-limited",
          "suspicious-filename-detect", "suspicious-login",
          "system-call-detect", "unusual-client-port-connection",
          "web-application-activity"}
    [] sev = "Low" ->
         {"icmp-event", "misc-activity", "network-scan", "not-suspicious",
          "protocol-command-decode", "string-detect", "unknown"}
    [] sev = "Very Low" -> {"tcp-connection"}

Severities == {"High", "Medium", "Low", "Very Low"}
KnownClasses == UNION {ClassesOf(s) : s \in Severities}
ClassSeverity(c) == CHOOSE s \in Severities : c \in ClassesOf(s)

ParseErr(ch, cause) == [ok |-> FALSE, ch |-> ch, cause |-> cause]
Parsed(kw) == [ok |-> TRUE, kw |-> kw]

(***************************************************************************)
(* parse_kw_parameters(clause): the per-keyword grammar and its failures. *)
(***************************************************************************)
ParseKw(c) ==
  CASE c.kw \notin ParseFuncMapKeys -> ParseErr("internal", "UnknownKeyword")
    [] c.kw \in NotImplementedKws -> ParseErr("rule", "UnsupportedKeyword")
    \* simple_binary_rule: keyword, value = split(":") needs exactly one ':'
    [] c.kw = "msg" /\ c.colon -> ParseErr("internal", "Malformed")
    \* parse_pcre: trailing modifier characters must lie in 'ismxGARE'
    [] c.kw = "pcre" /\ c.flags # "ok" -> ParseErr("rule", "UnsupportedModifier")
    \* parse_reference: split(",")[1] needs a comma
    [] c.kw = "reference" /\ c.id = NoValue -> ParseErr("internal", "Malformed")
    \* parse_classtype: snort_default_classifications[value]
    [] c.kw = "classtype" /\ c.cls \notin KnownClasses ->
         ParseErr("internal", "UnknownClasstype")
    \* parse_priority: int(...) then priority_map[min(value, 4)]
    [] c.kw = "priority" /\ c.n = NaN -> ParseErr("internal", "Malformed")
    [] c.kw = "priority" /\ c.n < 1 -> ParseErr("internal", "Malformed")
    \* parse_metadata: every item must be 'key value'
    [] c.kw = "metadata" /\ ~c.ok -> ParseErr("internal", "Malformed")
    \* parse_sticky_buffer: arguments_split[1] needs a second word
    [] c.kw \in StickyKws \ {"pkt_data"} /\ c.arg # NoArg /\ c.arg.val = NoValue ->
         ParseErr("internal", "Malformed")
    \* simple_rule keeps the whole clause as the keyword name, which
    \* SnortKW.convert_func_map does not know
    [] c.kw = "pkt_data" /\ c.arg # NoArg -> Parsed([kw |-> "pkt_data:arg"])
    [] c.kw = "priority" ->
         Parsed([kw |-> "priority", value |-> PriorityMap[IF c.n > 4 THEN 4 ELSE c.n]])
    [] c.kw = "classtype" ->
         Parsed([kw |-> "classtype", cls |-> c.cls, sev |-> ClassSeverity(c.cls)])
    [] OTHER -> Parsed(c)
=============================================================================
