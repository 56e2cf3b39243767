------------------------------ MODULE RuleEngine ------------------------------
(***************************************************************************)
(* The policy rules: their abstract syntax, RuleEngine::evaluate(), and the*)
(* walk over a rule that Builder::validate() makes.                        *)
(*                                                                         *)
(* A rule is the sequence of its nodes, the root first and every child     *)
(* after its parent; And, Or and Not name their children by position, and  *)
(* 0 is a null pointer.  A leaf is a record with an operator and that      *)
(* operator's parameters.                                                  *)
(*                                                                         *)
(* A tag's value is what the operators can tell of it: its text, the texts *)
(* it contains and begins with, and the number it parses to, if any.  An   *)
(* optional value is a set with at most one member.                        *)
(***************************************************************************)
EXTENDS Integers, Sequences, FiniteSetsExt

\* The first element that passes the test, if any.
First(s, Test(_)) ==
  LET hits == {k \in DOMAIN s : Test(s[k])}
  IN  IF hits = {} THEN {} ELSE {s[Min(hits)]}

TagOps == {"TagContains", "TagStartsWith", "TagIn", "TagExists", "TagValueLessThan",
           "TagValueGreaterThan", "TagValueBetween"}

\* The operators that look at the first tag with the key.
TagMatches(ctx, n) ==
  \E tag \in First(ctx.tags, LAMBDA t : t.key = n.key) :
    CASE n.op = "TagContains"         -> n.text \in tag.value.parts
      [] n.op = "TagStartsWith"       -> n.text \in tag.value.prefixes
      [] n.op = "TagIn"               -> tag.value.text \in n.texts
      [] n.op = "TagExists"           -> TRUE
      [] n.op = "TagValueLessThan"    -> \E v \in tag.value.number : v < n.threshold
      [] n.op = "TagValueGreaterThan" -> \E v \in tag.value.number : v > n.threshold
      [] n.op = "TagValueBetween"     -> /\ n.lo < n.hi
                                         /\ \E v \in tag.value.number : n.lo <= v /\ v < n.hi

\* TagEquals looks at every tag with the key.
TagEquals(ctx, n) ==
  \E k \in DOMAIN ctx.tags : ctx.tags[k].key = n.key /\ ctx.tags[k].value.text = n.text

EventOps == {"EventTypeIs", "EventTypeIn", "TenantIs", "EventOlderThan", "EventNewerThan"}

\* The event's own fields; its age is the clock's reading for this node.
EventMatches(ctx, age, n) ==
  CASE n.op = "EventTypeIs"    -> ctx.type = n.type
    [] n.op = "EventTypeIn"    -> ctx.type \in n.types
    [] n.op = "TenantIs"       -> ctx.tenant = n.tenant
    [] n.op = "EventOlderThan" -> age > 0 /\ age > n.duration
    [] n.op = "EventNewerThan" -> age >= 0 /\ age < n.duration

StageOps == {"StageVerdictIs", "StageIsDegraded"}

\* The output of a stage that has run.
StageMatches(ctx, n) ==
  \E so \in First(ctx.outputs, LAMBDA s : s.stage = n.stage) :
    IF n.op = "StageVerdictIs" THEN so.verdict = n.verdict ELSE so.degraded

EvaluatorOps == {"EvaluatorScoreAbove", "EvaluatorScoreBetween", "EvaluatorWasSkipped",
                 "EvaluatorReasonIs"}

\* The results of all the stages, in order.
AllResults(ctx) ==
  LET upTo[k \in 0..Len(ctx.outputs)] ==
        IF k = 0 THEN <<>> ELSE upTo[k - 1] \o ctx.outputs[k].results
  IN  upTo[Len(ctx.outputs)]

\* ScoreAbove takes any result of the evaluator, the others the first one.
EvaluatorMatches(ctx, n) ==
  LET rs == AllResults(ctx)
      own(r) == r.evaluator = n.evaluator
      scored(r) == own(r) /\ r.score # {}
  IN  CASE n.op = "EvaluatorScoreAbove" ->
             \E k \in DOMAIN rs : own(rs[k]) /\ \E s \in rs[k].score : s >= n.threshold
        [] n.op = "EvaluatorScoreBetween" ->
             /\ n.lo < n.hi
             /\ \E r \in First(rs, scored) : \E s \in r.score : n.lo <= s /\ s < n.hi
        [] n.op = "EvaluatorWasSkipped" -> \E r \in First(rs, own) : r.skipped
        [] n.op = "EvaluatorReasonIs"   -> \E r \in First(rs, own) : n.reason \in r.reason

\* RuleEngine::evaluate(); ages[k] is the event's age when node k reads the clock.
Evaluate(ctx, ages, rule) ==
  LET holds[k \in DOMAIN rule] ==
        LET n == rule[k] IN
        CASE n.op = "And" ->
               n.left # 0 /\ n.right # 0 /\ holds[n.left] /\ holds[n.right]
          [] n.op = "Or" ->
               n.left # 0 /\ n.right # 0 /\ (holds[n.left] \/ holds[n.right])
          [] n.op = "Not"            -> n.expr = 0 \/ ~holds[n.expr]
          [] n.op = "TagEquals"      -> TagEquals(ctx, n)
          [] n.op \in TagOps         -> TagMatches(ctx, n)
          [] n.op \in EventOps       -> EventMatches(ctx, ages[k], n)
          [] n.op \in StageOps       -> StageMatches(ctx, n)
          [] n.op \in EvaluatorOps   -> EvaluatorMatches(ctx, n)
  IN  holds[1]

\* A node's children, by position; a null pointer is none.
Children(n) ==
  CASE n.op \in {"And", "Or"} -> {n.left, n.right} \ {0}
    [] n.op = "Not"           -> {n.expr} \ {0}
    [] OTHER                  -> {}

\* Mutant: the walk does not enter a Not.
ReachedOutsideNot(rule) ==
  {k \in DOMAIN rule :
     \A S \in SUBSET DOMAIN rule :
       (1 \in S /\ \A j \in S : rule[j].op # "Not" => Children(rule[j]) \subseteq S) => k \in S}

\* The nodes a walk from the root reaches: those in every set of nodes that has
\* the root and, with a node, its children.
Reached(rule) ==
  {k \in DOMAIN rule :
     \A S \in SUBSET DOMAIN rule :
       (1 \in S /\ \A j \in S : Children(rule[j]) \subseteq S) => k \in S}

\* collect_stage_refs(): the stages that StageVerdictIs nodes name.
CollectStageRefs(rule) ==
  {rule[k].stage : k \in {j \in Reached(rule) : rule[j].op = "StageVerdictIs"}}
===============================================================================
