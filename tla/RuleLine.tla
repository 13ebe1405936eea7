------------------------------ MODULE RuleLine ------------------------------
(***************************************************************************)
(* The line segmenter and body tokenizer: utils.is_invalid_line and        *)
(* utils.parse_snort_rules_line.                                           *)
(*                                                                         *)
(* A line is a sequence of lexemes: the one-character lexemes " ", "(",    *)
(* ")", ";", "\\" and "#", and words (keyword clauses, header tokens) that *)
(* hold none of these characters.  Every index the code computes (find,   *)
(* rfind) points at a one-character lexeme, so slicing a lexeme sequence  *)
(* at those indices is slicing the text.  A clause is returned as the     *)
(* string the code builds, the concatenation of its lexemes.  Lines come  *)
(* from rules_input.split("\n"), so they hold no newline and the code's   *)
(* replace("\n", "") changes nothing.                                      *)
(***************************************************************************)
EXTENDS Integers, Sequences, SequencesExt

CONSTANT Chop(_)          \* w[:-1] for a lexeme w: "" for a one-character one

Space == " "

\* The text of a lexeme sequence.
RECURSIVE Text(_)
Text(s) == IF s = <<>> THEN "" ELSE Head(s) \o Text(Tail(s))

\* str.strip(): leading and trailing blanks removed.
Strip(s) ==
  LET kept == {i \in DOMAIN s : s[i] # Space}
  IN IF kept = {} THEN <<>> ELSE SubSeq(s, Min(kept), Max(kept))

\* str.split(sep): the pieces between separators, always one more than
\* there are separators.
Split(s, sep) ==
  LET cuts == <<0>> \o SetToSortSeq({i \in DOMAIN s : s[i] = sep}, <) \o <<Len(s) + 1>>
  IN [k \in 1..Len(cuts) - 1 |-> SubSeq(s, cuts[k] + 1, cuts[k + 1] - 1)]

\* s[:-1] on the text: the last character goes, which cuts the last lexeme.
DropLastChar(s) ==
  IF s = <<>> THEN <<>>
  ELSE IF Chop(Last(s)) = "" THEN Front(s) ELSE Front(s) \o <<Chop(Last(s))>>

\* s[a:b] for the indices find/rfind give: a >= 0, and b = -1 when the
\* character is missing.
Slice(s, a, b) ==
  LET t == IF b = -1 THEN DropLastChar(s) ELSE s
  IN SubSeq(t, a + 1, IF b = -1 THEN Len(t) ELSE b)

\* is_invalid_line: blank, or a comment after stripping.
IsInvalidLine(line) == Strip(line) = <<>> \/ IsPrefix(<<"#">>, Strip(line))

(***************************************************************************)
(* One pass of the loop of parse_snort_rules_line over the ';'-pieces:    *)
(* an empty piece is skipped; the last character of the stripped piece is *)
(* indexed (IndexError when stripping left nothing, recorded in err, which *)
(* leaves the loop); a piece ending in a backslash is joined to the next  *)
(* one; the others are flushed together with what was held.              *)
(***************************************************************************)
\* Fault variant of SegmentStep: the held text is not reset after a flush.
SegmentStepKeepingHeld(acc, piece) ==
  LET rule == Strip(piece) IN
  CASE acc.err \/ piece = <<>> -> acc
    [] rule = <<>> -> [acc EXCEPT !.err = TRUE]
    [] Last(rule) = "\\" -> [acc EXCEPT !.tmp = @ \o Text(Front(rule)) \o ";"]
    [] OTHER -> [acc EXCEPT !.body = Append(@, acc.tmp \o Text(rule))]

SegmentStep(acc, piece) ==
  LET rule == Strip(piece) IN
  CASE acc.err \/ piece = <<>> -> acc
    [] rule = <<>> -> [acc EXCEPT !.err = TRUE]
    [] Last(rule) = "\\" -> [acc EXCEPT !.tmp = @ \o Text(Front(rule)) \o ";"]
    [] OTHER -> [acc EXCEPT !.body = Append(@, acc.tmp \o Text(rule)), !.tmp = ""]

\* parse_snort_rules_line(line): the header before the first '(' and the
\* clauses between it and the last ')'.
ParseSnortRulesLine(line) ==
  LET find == SelectInSeq(line, LAMBDA x : x = "(") - 1
      rfind == SelectLastInSeq(line, LAMBDA x : x = ")") - 1
      loop == FoldLeft(SegmentStep, [err |-> FALSE, tmp |-> "", body |-> <<>>],
                       Split(Strip(Slice(line, find + 1, rfind)), ";"))
  IN [err |-> loop.err, header |-> Strip(Slice(line, 0, find)), body |-> loop.body]

-----------------------------------------------------------------------------
(***************************************************************************)
(* Reference: the body segmentation of spec section 4.1, for a line with   *)
(* '(' and ')'.  The trimmed ';'-pieces are consumed one by one; a piece   *)
(* ending in a backslash is held back, without it and with a ';', until a *)
(* piece that does not end in one flushes the held text with it; pieces   *)
(* that are empty after trimming are dropped.                              *)
(***************************************************************************)
RECURSIVE RefClauses(_, _)
RefClauses(pieces, held) ==
  IF pieces = <<>> THEN <<>>
  ELSE LET p == Head(pieces) IN
       IF p = <<>> THEN RefClauses(Tail(pieces), held)
       ELSE IF Last(p) = "\\" THEN RefClauses(Tail(pieces), held \o Front(p) \o <<";">>)
       ELSE <<Text(held \o p)>> \o RefClauses(Tail(pieces), <<>>)

RefBody(line) ==
  LET first == SelectInSeq(line, LAMBDA x : x = "(")
      last == SelectLastInSeq(line, LAMBDA x : x = ")")
      pieces == Split(SubSeq(line, first + 1, last - 1), ";")
  IN RefClauses([i \in DOMAIN pieces |-> Strip(pieces[i])], <<>>)
=============================================================================
