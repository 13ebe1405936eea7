---------------------------- MODULE MC_SnortRule ----------------------------
(***************************************************************************)
(* Instantiates SnortRule for TLC: small alphabets of body clauses, each   *)
(* aimed at one question, and the rule bodies built from them up to        *)
(* MaxLen clauses.                                                         *)
(***************************************************************************)
EXTENDS SnortRule

\* Clause constructors, one per keyword family.
\* A content literal is a model value, with its text as characters of {"a", "|", "\\"}.
Content(lit, text, mods) == [kw |-> "content", lit |-> lit, text |-> text, mods |-> mods]
Mod(m, n) == [m |-> m, n |-> n]
Pcre(lit, flags) == [kw |-> "pcre", lit |-> lit, flags |-> flags]
Flow(ts) == [kw |-> "flow", tokens |-> ts]
Sticky(kw, arg) == [kw |-> kw, arg |-> arg]
Field(f) == [name |-> "field", val |-> f]
Bufferlen(v) == [kw |-> "bufferlen", v |-> v]
Msg(name, colon) == [kw |-> "msg", name |-> name, colon |-> colon]
Reference(sys, id) == [kw |-> "reference", sys |-> sys, id |-> id]
Classtype(cls) == [kw |-> "classtype", cls |-> cls]
Priority(n) == [kw |-> "priority", n |-> n]
SidRev(kw, v) == [kw |-> kw, v |-> v]
Bare(kw) == [kw |-> kw]

MCClassTitle == [c \in {"web-application-attack", "attempted-dos"} |->
                   IF c = "attempted-dos" THEN "Attempted_Dos" ELSE "Web_Application_Attack"]

MCFieldUpper == [f \in {"host", "Host", "cookie"} |->
                   CASE f = "cookie" -> "COOKIE" [] OTHER -> "HOST"]

\* Cross-keyword context: sticky buffers, header fields, flow direction.
ContextClauses ==
  { Content("GET", <<"a">>, <<>>), Pcre("P", "ok"), Bufferlen(<<"5">>),
    Flow(<<"to_client">>), Flow(<<"established", "from_client">>),
    Sticky("http_header", NoArg), Sticky("http_header", Field("host")),
    Sticky("http_header", Field("cookie")),
    Sticky("http_raw_cookie", NoArg), Sticky("http_stat_code", NoArg),
    Sticky("pkt_data", NoArg) }

\* A content with the spec's 'relative' modifier.
RelativeClauses ==
  { Msg("t", FALSE), Content("A", <<"a">>, <<Mod("relative", "")>>),
    Content("B", <<"\\", "|">>, <<Mod("distance", 2), Mod("nocase", "")>>) }

\* fast_pattern, hex segments and the content modifiers.
FastPatternClauses ==
  { Content("A", <<"a">>, <<Mod("fast_pattern", "")>>),
    Content("B", <<"\\", "|">>, <<Mod("nocase", ""), Mod("fast_pattern", "")>>),
    Content("H", <<"|", "a", "|">>, <<Mod("fast_pattern", "")>>),
    Content("C", <<"a">>, <<Mod("distance", 0), Mod("within", 4)>>),
    Content("D", <<"a">>, <<Mod("offset", NaN), Mod("rawbytes", "")>>),
    Content("E", <<"a">>, <<Mod("rawbytes", ""), Mod("offset", 3)>>),
    Pcre("P", "O"), Msg("t", FALSE) }

\* Metadata: references, classtype, priority, sid and rev, no-ops.
MetadataClauses ==
  { Msg("t", FALSE), Msg("", FALSE), Content("A", <<"a">>, <<>>),
    Reference("cve", 1), Reference("bugtraq", 1), Reference("foo", 1),
    Reference("url", NoValue), Classtype("web-application-attack"),
    Classtype("attempted-dos"), Priority(3), Priority(7), Priority(0),
    SidRev("sid", 1), SidRev("rev", 2), [kw |-> "metadata", ok |-> TRUE],
    [kw |-> "service", v |-> "http"] }

\* The spec's worked example: content:"GET"; http_uri; msg:"t"; sid:1;
UriExampleClauses ==
  { Content("GET", <<"a">>, <<>>), Sticky("http_uri", NoArg), Msg("t", FALSE),
    SidRev("sid", 1) }

\* bufferlen values of every form the spec names, each operator in turn.
BufferlenClauses ==
  { Bufferlen(<<"5", "<", ">", "10">>), Bufferlen(<<"<", ">", "3">>), Bufferlen(<<">", NaN>>),
    Bufferlen(<<"<", "4">>), Bufferlen(<<"=", "2">>) }

\* Every detection keyword: the fast_pattern and modifier contents, the
\* bufferlen forms, and pkt_data with an argument, which simple_rule keeps
\* whole as a keyword name no converter knows.
DetectionClauses ==
  FastPatternClauses \cup BufferlenClauses \cup {Sticky("pkt_data", Field("x"))}

\* A bufferlen value the spec refuses: an operand before a one-sided
\* operator.
BufferlenOperandClauses == { Bufferlen(<<"5", "<", "10">>) }

\* Rules with and without msg, with an unparsed keyword and an unknown
\* classtype.
ErrorChannelClauses ==
  { Msg("t", FALSE), Content("A", <<"a">>, <<>>), SidRev("sid", 1), Bare("nocase"),
    Classtype("not-a-class") }

\* The bodies of one clause family at a time (context, metadata, detection),
\* so that the three families share one run without the bodies mixing them.
FamilyClauses == ContextClauses \cup MetadataClauses \cup DetectionClauses

FamilyBodies ==
  UNION {BoundedSeq(F, MaxLen) : F \in {ContextClauses, MetadataClauses, DetectionClauses}}

FamilyInit == body \in FamilyBodies /\ Fresh

FamilySpec == FamilyInit /\ [][Next]_vars /\ WF_vars(Next)

=============================================================================
