---------------------------- MODULE MC_Signatures ----------------------------
(***************************************************************************)
(* Instantiates Signatures for TLC: rule lines written as lexeme           *)
(* sequences, the clause records their clause strings parse to, and       *)
(* rules_input texts of one or two lines.                                  *)
(***************************************************************************)
EXTENDS Signatures

\* A line "header (clause; clause; ...)" with single spaces.
RuleText(hdr, clauses) ==
  hdr \o <<" ", "(">> \o FlattenSeq([i \in DOMAIN clauses |-> <<clauses[i], ";", " ">>]) \o <<")">>

AlertHttp == <<"alert", " ", "http">>
AlertTcp == <<"alert", " ", "tcp">>
AlertTcpToHttpPorts ==
  <<"alert", " ", "tcp", " ", "$HOME_NET", " ", "any", " ", "->", " ",
    "$EXTERNAL_NET", " ", "$HTTP_PORTS">>

HttpRule == RuleText(AlertHttp, <<"msg:t", "content:A">>)
TcpRule == RuleText(AlertTcp, <<"msg:t", "content:A">>)
TcpServiceHttp == RuleText(AlertTcp, <<"msg:t", "service:http", "content:A">>)
TcpServiceHttpSsl == RuleText(AlertTcp, <<"msg:t", "service:http,ssl", "content:A">>)
TcpToHttpPorts == RuleText(AlertTcpToHttpPorts, <<"msg:t", "content:A">>)
Comment == <<"#", " ", "alert">>
Blank == <<" ">>
OneTokenHeader == RuleText(<<"alert">>, <<"msg:t", "content:A">>)
NoDetection == RuleText(AlertHttp, <<"msg:t">>)
NoMsg == RuleText(AlertHttp, <<"content:A">>)
\* alert http (msg:t; pcre:A\; B; content:A;): a continued clause
Continued == AlertHttp \o <<" ", "(", "msg:t", ";", "pcre:A", "\\", ";", " ", "B", ";",
                              "content:A", ";", ")">>
\* alert http (msg:t; ; content:A;): a piece that is blank after stripping
BlankPiece == AlertHttp \o <<" ", "(", "msg:t", ";", " ", ";", "content:A", ";", ")">>

\* The clause records the parser makes of these clause strings; any other
\* string names a keyword parse_func_map lacks.
MCClauseOf(s) ==
  CASE s = "msg:t" -> [kw |-> "msg", name |-> "t", colon |-> FALSE]
    [] s = "content:A" -> [kw |-> "content", lit |-> "A", text |-> <<"a">>, mods |-> <<>>]
    [] s = "pcre:A;B" -> [kw |-> "pcre", lit |-> "A;B", flags |-> "ok"]
    [] s = "service:http" -> [kw |-> "service", v |-> "http"]
    [] s = "service:http,ssl" -> [kw |-> "service", v |-> "http,ssl"]
    [] OTHER -> [kw |-> s]

\* w[:-1] for every lexeme used.
MCChop(w) ==
  CASE w \in {" ", "(", ")", ";", "\\", "#", "A", "B"} -> ""
    [] w = "alert" -> "aler" [] w = "http" -> "htt" [] w = "tcp" -> "tc"
    [] OTHER -> "?"

MCServiceHttpText == {"service:http", "service:http,ssl"}

MCClassTitle == [c \in {} |-> ""]
MCFieldUpper == [f \in {} |-> ""]

\* Inputs of one or two lines over a set of lines.
InputsOver(lines) == {<<l>> : l \in lines} \cup {<<l, m>> : l, m \in lines}

AccountingInputs ==
  InputsOver({HttpRule, TcpRule, TcpServiceHttp, TcpToHttpPorts, Comment, Blank,
              OneTokenHeader, NoDetection, Continued, BlankPiece})

ResetInputs == InputsOver({HttpRule, NoMsg})
AbortInputs == InputsOver({HttpRule, BlankPiece})
GateInputs == InputsOver({HttpRule, TcpServiceHttpSsl})

=============================================================================
