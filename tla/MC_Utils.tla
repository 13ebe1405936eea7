------------------------------ MODULE MC_Utils ------------------------------
(***************************************************************************)
(* The two algorithms of utils.py checked against their references:       *)
(* prepare_warnings_log (WarningsLog) over warning lists on both sides of *)
(* its ten-warning switch, and parse_snort_rules_line (RuleLine) over     *)
(* every short rule line.  A behaviour checks one of the two: either a    *)
(* warning list is prepared, or a line is segmented.                      *)
(***************************************************************************)
EXTENDS WarningsLog

VARIABLE line          \* the rule line segmented, <<>> when a list is checked

\* w[:-1] for every lexeme of the lines below.
MCChop(w) ==
  CASE w \in {" ", "(", ")", ";", "\\"} -> ""
    [] w = "alert" -> "aler" [] w = "http" -> "htt"
    [] OTHER -> "?"

Seg == INSTANCE RuleLine WITH Chop <- MCChop

W(type, asset, err, id, ln) ==
  [errorType |-> type, assetName |-> asset, Error |-> err, id |-> id, Line |-> ln]

\* SnortRule warnings of asset a1 with errors e1 and e2 and of asset a2
\* with error e1, and one warning of another type.
A == W("SnortRule", "a1", "e1", "i1", 1)
B == W("SnortRule", "a2", "e1", "i2", 2)
D == W("SnortRule", "a1", "e2", "i1", 3)
O == W("Asset", "a2", "e3", "i2", 0)

\* Lists up to five use all four; lists of ten and eleven, on both sides
\* of the switch, are seven SnortRule warnings of a1 and a2 in any order
\* followed by three or four of the four.
MCInputs ==
  BoundedSeq({A, B, D, O}, 5)
    \cup {p \o t : p \in [1..7 -> {A, B}],
                   t \in [1..3 -> {A, B, D, O}] \cup [1..4 -> {A, B, D, O}]}

\* "alert http (...)" with up to five body lexemes, and lines that lack
\* one or both parentheses.
Lines ==
  {<<"alert", " ", "http", " ", "(">> \o mid \o <<")">> :
      mid \in BoundedSeq({"msg:t", ";", "\\", " "}, 5)}
  \cup {<<"alert", " ", "http", " ", "(", "msg:t">>, <<"alert", " ", "http", " ", "msg:t", ")">>,
        <<"alert", " ", "http", " ", "msg:t">>, <<"alert", ")", "(", "msg:t">>}

UtilsInit ==
  \/ Init /\ line = <<>>
  \/ warnings = <<>> /\ log = <<>> /\ returned = TRUE /\ line \in Lines

UtilsSpec == UtilsInit /\ [][Next /\ UNCHANGED line]_<<vars, line>>

\* Spec section 4.1 against parse_snort_rules_line as load_snort_signatures
\* calls it on the stripped line: when the line has both parentheses and
\* the loop does not raise, its clauses are the spec's segmentation, the
\* backslash-continued pieces joined and the empty ones dropped.
TokenizerMatchesSpec ==
  LET rule == Seg!Strip(line) IN
  (line # <<>> /\ Contains(rule, "(") /\ Contains(rule, ")")
     /\ ~Seg!ParseSnortRulesLine(rule).err)
    => Seg!ParseSnortRulesLine(rule).body = Seg!RefBody(rule)
=============================================================================
