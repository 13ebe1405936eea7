-------------------------- MODULE MC_LocalConverter --------------------------
(***************************************************************************)
(* Instantiates LocalConverter for TLC over the rule lines of             *)
(* MC_Signatures: rules files of one or two lines, each line converting,  *)
(* refused, skipped, dropped, aborting the load or failing internally.    *)
(***************************************************************************)
EXTENDS MC_Signatures, LocalConverter

\* alert http (msg:t; priority:0; content:A;): priority_map has no 0.
PriorityZero == RuleText(AlertHttp, <<"msg:t", "priority:0", "content:A">>)

\* alert http (msg:a:b; content:A;): a ':' inside the msg text.
ColonInMsg == RuleText(AlertHttp, <<"msg:a:b", "content:A">>)

\* The clause records of MC_Signatures and those of the two lines above.
CallerClauseOf(s) ==
  CASE s = "priority:0" -> [kw |-> "priority", n |-> 0]
    [] s = "msg:a:b" -> [kw |-> "msg", name |-> "a", colon |-> TRUE]
    [] OTHER -> MCClauseOf(s)

CallerInputs ==
  InputsOver({HttpRule, NoMsg, TcpRule, Comment, OneTokenHeader, BlankPiece})

SilentInputs == InputsOver({HttpRule, NoMsg, PriorityZero, ColonInMsg})
=============================================================================
