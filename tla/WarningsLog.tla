---------------------------- MODULE WarningsLog ----------------------------
(***************************************************************************)
(* utils.prepare_warnings_log: the conversion warnings of several assets  *)
(* turned into the list of warning entries a caller displays.  Up to ten  *)
(* warnings, every SnortRule warning is listed with its line; above ten,  *)
(* they are grouped per asset and per error with a count.  Other          *)
(* warnings follow one by one, and a closing entry ends the list.         *)
(*                                                                         *)
(* Data abstraction: a message is kept as a record of the pieces it is    *)
(* formatted from, with the singular/plural choice as its kind; the       *)
(* constant name, type and sub_type fields are left out.                  *)
(***************************************************************************)
EXTENDS Integers, Sequences, SequencesExt, FiniteSets, FiniteSetsExt

CONSTANT Inputs       \* the warning lists a caller may pass

VARIABLES warnings,   \* the argument
          log,        \* ret_warnings
          returned    \* the call has returned

vars == <<warnings, log, returned>>

IsSnortRule(w) == w.errorType = "SnortRule"

Entry(id, msg) == [id |-> id, msg |-> msg]

\* "Asset {}, skipped line {}: {}"
LineEntry(w) ==
  Entry(w.id, [kind |-> "line", asset |-> w.assetName, line |-> w.Line, err |-> w.Error])

\* A warning that is not a SnortRule one: its Error is the message.
PlainEntry(w) == Entry(w.id, [kind |-> "plain", err |-> w.Error])

\* Fault variant of Tally: a repeated error restarts its count.
TallyRestarting(acc, w) ==
  LET a == SelectInSeq(acc, LAMBDA g : g.asset = w.assetName) IN
  IF a = 0 THEN Append(acc, [asset |-> w.assetName, errs |-> <<[err |-> w.Error, n |-> 1]>>])
  ELSE LET e == SelectInSeq(acc[a].errs, LAMBDA x : x.err = w.Error) IN
       IF e = 0 THEN [acc EXCEPT ![a].errs = Append(@, [err |-> w.Error, n |-> 1])]
       ELSE [acc EXCEPT ![a].errs[e].n = 1]

\* One SnortRule warning into assets_errors, a dict of dicts: the assets in
\* the order they are first seen, each with its errors in the order they
\* are first seen and how often each occurred.
Tally(acc, w) ==
  LET a == SelectInSeq(acc, LAMBDA g : g.asset = w.assetName) IN
  IF a = 0 THEN Append(acc, [asset |-> w.assetName, errs |-> <<[err |-> w.Error, n |-> 1]>>])
  ELSE LET e == SelectInSeq(acc[a].errs, LAMBDA x : x.err = w.Error) IN
       IF e = 0 THEN [acc EXCEPT ![a].errs = Append(@, [err |-> w.Error, n |-> 1])]
       ELSE [acc EXCEPT ![a].errs[e].n = @ + 1]

\* "Asset {}: skipped {} {} time(s)" for every asset and error, all under
\* tmp_id, the id of the last SnortRule warning the first loop visited.
Grouped(srs) ==
  LET t == FoldLeft(Tally, <<>>, srs)
      g(i, j) == Entry(Last(srs).id,
                       [kind |-> IF t[i].errs[j].n = 1 THEN "time" ELSE "times",
                        asset |-> t[i].asset, err |-> t[i].errs[j].err,
                        count |-> t[i].errs[j].n])
  IN FlattenSeq([i \in DOMAIN t |-> [j \in DOMAIN t[i].errs |-> g(i, j)]])

\* prepare_warnings_log(warnings).  The closing entry carries tmp_id as the
\* loops left it: the id of the last non-SnortRule warning if there is
\* one, else that of the last SnortRule warning.
PrepareWarningsLog(ws) ==
  IF ws = <<>> THEN <<>>
  ELSE LET srs == SelectSeq(ws, IsSnortRule)
           others == SelectSeq(ws, LAMBDA w : ~IsSnortRule(w))
           first == IF Len(ws) <= 10 THEN [i \in DOMAIN srs |-> LineEntry(srs[i])]
                    ELSE IF srs = <<>> THEN <<>> ELSE Grouped(srs)
           body == first \o [i \in DOMAIN others |-> PlainEntry(others[i])]
           tmp_id == IF others # <<>> THEN Last(others).id ELSE Last(srs).id
       IN Append(body, Entry(tmp_id, [kind |-> IF Len(body) = 1 THEN "warning"
                                                                ELSE "warnings"]))

Init == warnings \in Inputs /\ log = <<>> /\ returned = FALSE

\* One call of prepare_warnings_log.
PrepareLog ==
  /\ ~returned
  /\ log' = PrepareWarningsLog(warnings) /\ returned' = TRUE
  /\ UNCHANGED warnings

Next == PrepareLog

Spec == Init /\ [][Next]_vars

-----------------------------------------------------------------------------
(***************************************************************************)
(* Properties                                                              *)
(***************************************************************************)

\* What the list says, stated over the positions of the warnings: up to
\* ten warnings, one line entry per SnortRule warning in input order;
\* above ten, one entry per (asset, error) pair holding how many SnortRule
\* warnings have it, the assets in first-seen order and each asset's
\* errors in first-seen order; then every other warning in input order;
\* then the closing entry, singular exactly when one entry precedes it.
RefLog(ws) ==
  LET sr == {i \in DOMAIN ws : IsSnortRule(ws[i])}
      ot == DOMAIN ws \ sr
      key(i) == <<ws[i].assetName, ws[i].Error>>
      count(p) == Cardinality({i \in sr : key(i) = p})
      firstOf(p) == Min({i \in sr : key(i) = p})
      assetFirst(a) == Min({i \in sr : ws[i].assetName = a})
      before(p, q) == \/ assetFirst(p[1]) < assetFirst(q[1])
                      \/ p[1] = q[1] /\ firstOf(p) < firstOf(q)
      pairs == SetToSortSeq({key(i) : i \in sr}, before)
      inOrder(S) == [k \in 1..Cardinality(S) |->
                       CHOOSE i \in S : Cardinality({j \in S : j <= i}) = k]
      lined == [k \in DOMAIN inOrder(sr) |-> LineEntry(ws[inOrder(sr)[k]])]
      grouped == [k \in DOMAIN pairs |->
                    Entry(ws[Max(sr)].id,
                          [kind |-> IF count(pairs[k]) = 1 THEN "time" ELSE "times",
                           asset |-> pairs[k][1], err |-> pairs[k][2],
                           count |-> count(pairs[k])])]
      listed == (IF Len(ws) <= 10 THEN lined ELSE grouped)
                  \o [k \in DOMAIN inOrder(ot) |-> PlainEntry(ws[inOrder(ot)[k]])]
      closer == Entry(ws[Max(IF ot # {} THEN ot ELSE sr)].id,
                      [kind |-> IF Len(listed) = 1 THEN "warning" ELSE "warnings"])
  IN IF ws = <<>> THEN <<>> ELSE Append(listed, closer)

\* prepare_warnings_log's two nested dict loops and its ten-warning switch
\* agree with the reference: no SnortRule warning is lost or counted twice,
\* grouping keeps the per-asset order, and the switch happens above ten.
LogMatchesReference == returned => log = RefLog(warnings)
=============================================================================
