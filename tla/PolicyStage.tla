----------------------------- MODULE PolicyStage ------------------------------
(***************************************************************************)
(* The policy stage from its configuration to the active decisions: the    *)
(* decision types and rules are registered, Builder::build() validates     *)
(* them, PolicyStage::process() evaluates the rules on an event, and       *)
(* compute_active_decisions() lists what survived.                         *)
(*                                                                         *)
(* A rule is a record: its condition (see RuleEngine), its priority, the   *)
(* verdict it acts with and its decision type, a set with at most one      *)
(* member.  Rules, settings and events are drawn from constant sets.       *)
(***************************************************************************)
EXTENDS RuleEngine, FiniteSets

CONSTANTS
  Types,       \* ids of decision types
  Priorities,  \* priorities a type may have
  RulesToAdd,  \* rules that may be added
  Settings,    \* the rest of the pipeline's configuration
  Contexts,    \* events, with the outputs of the stages that ran before
  MaxAge,      \* bound on an event's age
  MaxRules,    \* bound on the number of rules
  MaxPairs     \* bound on the number of incompatible pairs

ASSUME PolicyAssumption ==
  /\ Priorities \subseteq Nat
  /\ \A r \in RulesToAdd :
       /\ r.priority \in Nat
       /\ r.verdict \in {0, 1, 2}
       /\ \A t, u \in r.type : t = u
       /\ DOMAIN r.condition = 1..Len(r.condition) /\ Len(r.condition) \in Nat \ {0}
       /\ \A k \in DOMAIN r.condition :
            /\ Children(r.condition[k]) \subseteq (k + 1)..Len(r.condition)
            /\ k # 1 => \E j \in 1..k - 1 : k \in Children(r.condition[j])
  /\ MaxAge \in Nat
  /\ MaxRules \in Nat
  /\ MaxPairs \in Nat

VARIABLES
  phase,     \* registering, built, rejected, evaluating, decided, done
  types,     \* DecisionTypeRegistry: priority of each registered type
  pairs,     \* DecisionTypeRegistry: incompatible pairs
  rules,     \* PolicyStageConfig::rules
  settings,  \* what build() was given besides
  ctx,       \* PolicyContext
  age,       \* the event's age, as the clock has it
  next,      \* the rule process() evaluates next
  results,   \* StageOutput::evaluator_results
  matches,   \* matched rules with a decision type
  verdict,   \* StageOutput::verdict
  degraded,  \* StageOutput::degraded_reason
  active,    \* Decision::active_decisions
  matched    \* history: every rule that matched, in order

configVars == <<types, pairs, rules, settings>>
outVars == <<results, matches, verdict, degraded>>
vars == <<phase, configVars, ctx, age, next, outVars, active, matched>>

Pass == 0
Block == 2

Reordered(s) ==
  {[k \in DOMAIN s |-> s[p[k]]] :
     p \in {q \in [DOMAIN s -> DOMAIN s] : \A i, j \in DOMAIN s : q[i] = q[j] => i = j}}

\* All the orders std::sort may leave a sequence in, for a key.
SortedBy(s, Key(_)) ==
  {t \in Reordered(s) : \A i, j \in DOMAIN s : i < j => Key(t[i]) <= Key(t[j])}

\* What is left of a sequence, in order, when only the positions in D are kept.
Kept(s, D) ==
  [n \in 1..Cardinality(D) |-> s[CHOOSE i \in D : Cardinality({j \in D : j < i}) = n - 1]]

Init ==
  /\ phase = "registering"
  /\ types = [t \in {} |-> 0]
  /\ pairs = {}
  /\ rules = <<>>
  /\ settings \in Settings
  /\ ctx \in Contexts
  /\ age = 0
  /\ next = 1
  /\ results = <<>>
  /\ matches = <<>>
  /\ verdict = Pass
  /\ degraded = FALSE
  /\ active = <<>>
  /\ matched = <<>>

-------------------------------------------------------------------------------
(* Configuration. *)

\* add_type() (a known id is refused and changes nothing).
AddType(t, p) ==
  /\ phase = "registering"
  /\ t \notin DOMAIN types
  /\ types' = [u \in DOMAIN types \cup {t} |-> IF u = t THEN p ELSE types[u]]
  /\ UNCHANGED <<phase, pairs, rules, settings, ctx, age, next, outVars, active, matched>>

\* add_incompatible(): both types are known.
AddIncompatible(a, b) ==
  /\ phase = "registering"
  /\ Cardinality(pairs) < MaxPairs
  /\ a \in DOMAIN types
  /\ b \in DOMAIN types
  /\ pairs' = pairs \cup {<<a, b>>}
  /\ UNCHANGED <<phase, types, rules, settings, ctx, age, next, outVars, active, matched>>

\* Mutant: the rules stay in the order they were added.
AppendRule(r) ==
  /\ phase = "registering"
  /\ Len(rules) < MaxRules
  /\ \A k \in DOMAIN rules : rules[k] # r
  /\ rules' = Append(rules, r)
  /\ UNCHANGED <<phase, types, pairs, settings, ctx, age, next, outVars, active, matched>>

\* add_rule(): the rules are sorted again, in no particular order within a
\* priority.  (A rule is added once.)
AddRule(r) ==
  /\ phase = "registering"
  /\ Len(rules) < MaxRules
  /\ \A k \in DOMAIN rules : rules[k] # r
  /\ rules' \in SortedBy(Append(rules, r), LAMBDA x : x.priority)
  /\ UNCHANGED <<phase, types, pairs, settings, ctx, age, next, outVars, active, matched>>

\* The stages validate() takes to be running.
ActiveStages == {"ingest", "emit"} \cup settings.stages

RuleError(r) ==
  \/ ~(CollectStageRefs(r.condition) \subseteq ActiveStages)
  \/ r.type # {} /\ ~(settings.registry /\ r.type \subseteq DOMAIN types)

\* Builder::validate(), without the choice of the error's text.
Valid ==
  /\ settings.targets > 0
  /\ settings.timeouts <= settings.budget
  /\ settings.cellsPerTenant < settings.numCells
  /\ \A k \in DOMAIN rules : ~RuleError(rules[k])

Build ==
  /\ phase = "registering"
  /\ phase' = IF Valid THEN "built" ELSE "rejected"
  /\ UNCHANGED <<configVars, ctx, age, next, outVars, active, matched>>

-------------------------------------------------------------------------------
(* PolicyStage::process(). *)

Process ==
  /\ phase = "built"
  /\ phase' = "evaluating"
  /\ UNCHANGED <<configVars, ctx, age, next, outVars, active, matched>>

UseMulti == settings.registry /\ \E k \in DOMAIN rules : rules[k].type # {}

\* What the rule says of the event now; the clock may move on before any node.
Matching(r) ==
  {[matches |-> Evaluate(ctx, [k \in DOMAIN r.condition |-> IF k < c THEN age ELSE later],
                         r.condition),
    age |-> later] : c \in DOMAIN r.condition, later \in age..MaxAge}

\* evaluate() throws: a result that counts as skipped, and the next rule.
RuleThrows ==
  /\ phase = "evaluating"
  /\ next <= Len(rules)
  /\ results' = Append(results,
                  [rule |-> rules[next], skipped |-> TRUE,
                   verdict |-> IF settings.failClosed THEN Block ELSE Pass])
  /\ degraded' = TRUE
  /\ next' = next + 1
  /\ UNCHANGED <<phase, configVars, ctx, age, matches, verdict, active, matched>>

RuleDoesNotMatch ==
  /\ phase = "evaluating"
  /\ next <= Len(rules)
  /\ \E m \in Matching(rules[next]) : ~m.matches /\ age' = m.age
  /\ next' = next + 1
  /\ UNCHANGED <<phase, configVars, ctx, outVars, active, matched>>

ResultOf(r) == [rule |-> r, skipped |-> FALSE, verdict |-> r.verdict]

\* A rule without a type: its verdict counts, and without multi-decisions it is
\* the last one evaluated.
LegacyRuleMatches ==
  LET r == rules[next] IN
  /\ phase = "evaluating"
  /\ next <= Len(rules)
  /\ ~UseMulti \/ r.type = {}
  /\ \E m \in Matching(r) : m.matches /\ age' = m.age
  /\ results' = Append(results, ResultOf(r))
  /\ verdict' = Max({verdict, r.verdict})
  /\ matched' = Append(matched, r)
  /\ next' = IF UseMulti THEN next + 1 ELSE Len(rules) + 1
  /\ UNCHANGED <<phase, configVars, ctx, matches, degraded, active>>

TypedRuleMatches ==
  LET r == rules[next] IN
  /\ phase = "evaluating"
  /\ next <= Len(rules)
  /\ UseMulti
  /\ r.type # {}
  /\ \E m \in Matching(r) : m.matches /\ age' = m.age
  /\ matches' = Append(matches, r)
  /\ matched' = Append(matched, r)
  /\ next' = next + 1
  /\ UNCHANGED <<phase, configVars, ctx, results, verdict, degraded, active>>

\* The positions of the first match of each decision type.
Deduped == {k \in DOMAIN matches : \A j \in 1..k - 1 : matches[j].type # matches[k].type}

Fired == UNION {matches[k].type : k \in DOMAIN matches}

\* Mutant: a tie has no loser.
StrictLosers ==
  {IF types[p[1]] < types[p[2]] THEN p[2] ELSE p[1] :
     p \in {q \in pairs : q[1] \in Fired /\ q[2] \in Fired /\ types[q[1]] # types[q[2]]}}

\* Mutant: the type with the higher number survives.
WrongLosers ==
  {IF types[p[1]] <= types[p[2]] THEN p[1] ELSE p[2] :
     p \in {q \in pairs : q[1] \in Fired /\ q[2] \in Fired}}

\* Of each incompatible pair that fired, the type with the higher number, or the
\* second on a tie.
Losers ==
  {IF types[p[1]] <= types[p[2]] THEN p[2] ELSE p[1] :
     p \in {q \in pairs : q[1] \in Fired /\ q[2] \in Fired}}

Surviving == {k \in Deduped : matches[k].type \cap Losers = {}}

Survivors == Kept(matches, Surviving)

\* Mutant: the verdict is raised before the losers are removed.
ResolveEarly ==
  /\ phase = "evaluating"
  /\ next > Len(rules)
  /\ results' = results \o [k \in DOMAIN Survivors |-> ResultOf(Survivors[k])]
  /\ verdict' = Max({verdict} \cup {matches[k].verdict : k \in Deduped})
  /\ phase' = "decided"
  /\ UNCHANGED <<configVars, ctx, age, next, matches, degraded, active, matched>>

\* After the last rule: one result for each surviving decision type.
Resolve ==
  /\ phase = "evaluating"
  /\ next > Len(rules)
  /\ results' = results \o [k \in DOMAIN Survivors |-> ResultOf(Survivors[k])]
  /\ verdict' = Max({verdict} \cup {Survivors[k].verdict : k \in DOMAIN Survivors})
  /\ phase' = "decided"
  /\ UNCHANGED <<configVars, ctx, age, next, matches, degraded, active, matched>>

PriorityOf(r) == types[CHOOSE t \in r.type : TRUE]

\* The positions of the results with a decision type.  (A skipped result has none.)
Typed == {k \in DOMAIN results : UseMulti /\ results[k].rule.type # {} /\ ~results[k].skipped}

\* compute_active_decisions(): sorted by the type's priority.
ComputeActiveDecisions ==
  LET typed == Kept(results, Typed) IN
  /\ phase = "decided"
  /\ active' \in SortedBy([k \in DOMAIN typed |-> typed[k].rule], PriorityOf)
  /\ phase' = "done"
  /\ UNCHANGED <<configVars, ctx, age, next, outVars, matched>>

-------------------------------------------------------------------------------
Next ==
  \/ \E t \in Types, p \in Priorities : AddType(t, p)
  \/ \E a, b \in Types : AddIncompatible(a, b)
  \/ \E r \in RulesToAdd : AddRule(r)
  \/ Build
  \/ Process
  \/ RuleThrows
  \/ RuleDoesNotMatch
  \/ LegacyRuleMatches
  \/ TypedRuleMatches
  \/ Resolve
  \/ ComputeActiveDecisions

Spec == Init /\ [][Next]_vars

-------------------------------------------------------------------------------
(* Properties. *)

ActiveTypes == UNION {active[k].type : k \in DOMAIN active}

Incompatible(a, b) == <<a, b>> \in pairs \/ <<b, a>> \in pairs

\* "Declares that two decision types cannot coexist on the same event": the
\* active decisions are compatible with each other, and each is of a different
\* type, also when one rule loses against another that loses itself.
ActiveAreCompatible ==
  /\ \A a, b \in ActiveTypes : a # b => ~Incompatible(a, b)
  /\ \A i, j \in DOMAIN active : active[i].type = active[j].type => i = j

\* A decision type that fired is missing from the active decisions only because
\* of a type that fired too, is incompatible with it and has at least its
\* precedence: no decision is lost otherwise, also when a rule threw.
SuppressedForAReason ==
  phase = "done" =>
    \A t \in Fired \ ActiveTypes : \E u \in Fired : Incompatible(t, u) /\ types[u] <= types[t]

\* The fired type with the highest precedence is never suppressed if no other
\* type shares its priority and it is not declared incompatible with itself; it
\* comes first, and a decision is attributed to a rule with the lowest priority
\* number among the matched rules of its type.
TopDecisionFirst ==
  phase = "done" =>
    /\ \A t \in Fired :
         (/\ <<t, t>> \notin pairs
          /\ \A u \in Fired \ {t} : types[t] < types[u])
            => active # <<>> /\ active[1].type = {t}
    /\ \A k \in DOMAIN active : \A j \in DOMAIN matched :
         matched[j].type = active[k].type => active[k].priority <= matched[j].priority

\* The stage's verdict is the strictest among what it reports: a suppressed
\* decision does not raise it, and without multi-decisions at most one rule acts.
\* Nothing is said of a rule that threw under FailClosed: its Block is reported and
\* does not raise the verdict, which is not what FailureMode promises.
VerdictOfReported ==
  phase = "done" =>
    /\ \/ settings.failClosed /\ degraded
       \/ verdict = Max({Pass} \cup {results[k].verdict : k \in DOMAIN results})
    /\ ~UseMulti => Len(matched) <= 1

\* A configuration that was built has no StageVerdictIs about a stage the pipeline
\* does not have, however deep in a rule, and no rule with an unknown decision type.
\* (collect_stage_refs() does not collect the stage of a StageIsDegraded: one about
\* a stage that is not there is built.)
BuiltIsResolved ==
  phase \notin {"registering", "rejected"} =>
    \A k \in DOMAIN rules :
      /\ \A n \in DOMAIN rules[k].condition :
           rules[k].condition[n].op = "StageVerdictIs" =>
             rules[k].condition[n].stage \in {"ingest", "emit"} \cup settings.stages
      /\ rules[k].type \subseteq DOMAIN types
===============================================================================
