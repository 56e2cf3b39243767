---------------------------- MODULE MCPolicyStage -----------------------------
(***************************************************************************)
(* PolicyStage for TLC: rules that use every kind of node, an event that   *)
(* they match, and settings that build() accepts and refuses.              *)
(***************************************************************************)
EXTENDS PolicyStage

Amount == [text |-> "12", parts |-> {"1", "2", "12"}, prefixes |-> {"1", "12"}, number |-> {12}]
Name == [text |-> "bob", parts |-> {"bo", "bob"}, prefixes |-> {"b", "bob"}, number |-> {}]

EvalResults ==
  <<[evaluator |-> "geo", score |-> {}, skipped |-> TRUE, reason |-> {"fail_open"}],
    [evaluator |-> "geo", score |-> {7}, skipped |-> FALSE, reason |-> {}]>>

IngestOutput ==
  [stage |-> "ingest", verdict |-> 0, degraded |-> FALSE, results |-> <<>>]
EvalOutput ==
  [stage |-> "eval", verdict |-> 1, degraded |-> TRUE, results |-> EvalResults]

\* An event that matches every rule while it is new.
SomeContexts ==
  {[tags |-> <<[key |-> "user", value |-> Name], [key |-> "amount", value |-> Amount],
               [key |-> "user", value |-> Amount]>>,
    type |-> "login", tenant |-> "acme", outputs |-> <<IngestOutput, EvalOutput>>]}

\* And, Or and Not over leaves of every group.
Strings ==
  <<[op |-> "And", left |-> 2, right |-> 3],
    [op |-> "TagContains", key |-> "user", text |-> "bo"],
    [op |-> "Or", left |-> 4, right |-> 5],
    [op |-> "TagEquals", key |-> "user", text |-> "12"],
    [op |-> "TagStartsWith", key |-> "user", text |-> "1"]>>
Numbers ==
  <<[op |-> "And", left |-> 2, right |-> 3],
    [op |-> "TagValueGreaterThan", key |-> "amount", threshold |-> 10],
    [op |-> "And", left |-> 4, right |-> 5],
    [op |-> "TagValueBetween", key |-> "amount", lo |-> 12, hi |-> 13],
    [op |-> "Not", expr |-> 6],
    [op |-> "TagValueLessThan", key |-> "user", threshold |-> 100]>>
Health ==
  <<[op |-> "And", left |-> 2, right |-> 5],
    [op |-> "Or", left |-> 3, right |-> 4],
    [op |-> "StageIsDegraded", stage |-> "eval"],
    [op |-> "EvaluatorReasonIs", evaluator |-> "geo", reason |-> "fail_open"],
    [op |-> "And", left |-> 6, right |-> 7],
    [op |-> "EvaluatorWasSkipped", evaluator |-> "geo"],
    [op |-> "And", left |-> 8, right |-> 9],
    [op |-> "EvaluatorScoreAbove", evaluator |-> "geo", threshold |-> 7],
    [op |-> "EvaluatorScoreBetween", evaluator |-> "geo", lo |-> 5, hi |-> 8]>>
Fields ==
  <<[op |-> "And", left |-> 2, right |-> 5],
    [op |-> "Or", left |-> 3, right |-> 4],
    [op |-> "EventTypeIs", type |-> "signup"],
    [op |-> "EventTypeIn", types |-> {"login", "signup"}],
    [op |-> "And", left |-> 6, right |-> 7],
    [op |-> "TagExists", key |-> "user"],
    [op |-> "TagIn", key |-> "user", texts |-> {"bob"}]>>
Window ==
  <<[op |-> "And", left |-> 2, right |-> 3],
    [op |-> "EventNewerThan", duration |-> 1],
    [op |-> "And", left |-> 4, right |-> 5],
    [op |-> "TenantIs", tenant |-> "acme"],
    [op |-> "Not", expr |-> 6],
    [op |-> "EventOlderThan", duration |-> 0]>>
StageRef ==
  <<[op |-> "Not", expr |-> 2],
    [op |-> "StageVerdictIs", stage |-> "eval", verdict |-> 2]>>

Rule(condition, priority, acts, type) ==
  [condition |-> condition, priority |-> priority, verdict |-> acts, type |-> type]

SomeRules ==
  {Rule(Strings, 2, 2, {"A"}), Rule(Numbers, 1, 1, {"A"}), Rule(Health, 1, 2, {"B"}),
   Rule(Fields, 2, 1, {"C"}), Rule(Window, 1, 2, {}), Rule(StageRef, 2, 1, {})}

Accepted ==
  [targets |-> 1, timeouts |-> 245, budget |-> 300, numCells |-> 16, cellsPerTenant |-> 4,
   stages |-> {"eval"}, registry |-> TRUE, failClosed |-> FALSE]

SomeSettings ==
  {Accepted,
   [Accepted EXCEPT !.registry = FALSE, !.stages = {}, !.failClosed = TRUE],
   [Accepted EXCEPT !.targets = 0, !.timeouts = 301, !.cellsPerTenant = 16]}
===============================================================================
