---------------------------- MODULE RuleOutcome ----------------------------
(***************************************************************************)
(* What converting one rule body promises, as one atomic step: the rule   *)
(* ends with the error of the first clause the parser refuses; if every   *)
(* clause parses, with the error of the first clause whose conversion     *)
(* fails in the context its preceding clauses set; otherwise with what    *)
(* validating the assembled signature decides.  This is the fold over the *)
(* clauses that SnortRule.parse_body followed by SnortRule.convert        *)
(* performs, with the per-clause verdicts left as parameters.             *)
(***************************************************************************)
EXTENDS Sequences, SequencesExt

CONSTANTS Clause,              \* the clauses a body may hold
          ParseVerdict(_),     \* parse_kw_parameters on one clause
          ConvertVerdict(_, _),\* keyword i of body b, converted after b[1..i-1]
          OutputVerdict(_)     \* output_signature after every keyword of b

VARIABLES body, result

Pending == [ch |-> "none", cause |-> "none"]

\* A verdict is [ok, ch, cause]; the outcome keeps its channel and cause.
AsOutcome(v) == [ch |-> v.ch, cause |-> v.cause]

\* parse_body runs to its first failure before convert starts, and convert
\* stops at its first failure.
Verdict(b) ==
  LET pv == [i \in DOMAIN b |-> ParseVerdict(b[i])]
      cv == [i \in DOMAIN b |-> ConvertVerdict(b, i)]
      failed(v) == ~v.ok
  IN CASE SelectInSeq(pv, failed) # 0 -> AsOutcome(pv[SelectInSeq(pv, failed)])
       [] SelectInSeq(cv, failed) # 0 -> AsOutcome(cv[SelectInSeq(cv, failed)])
       [] OTHER -> AsOutcome(OutputVerdict(b))

Init == body \in Seq(Clause) /\ result = Pending

\* The rule's conversion: from no outcome to its verdict, once.
Convert == result = Pending /\ result' = Verdict(body) /\ UNCHANGED body

Next == Convert

Safety == Init /\ [][Next]_<<body, result>>

Spec == Safety /\ WF_<<body, result>>(Next)
=============================================================================
