-------------------------- MODULE PolicyStageProofs ---------------------------
(***************************************************************************)
(* Proofs about PolicyStage, for any types, rules, settings and events:    *)
(* what the active decisions are, why a decision is missing from them,     *)
(* what the stage's verdict is, and that a configuration that was built    *)
(* refers to nothing that is not there.                                    *)
(***************************************************************************)
EXTENDS PolicyStage, FiniteSetTheorems, WellFoundedInduction, TLAPS

-------------------------------------------------------------------------------
(* Sequences that are filtered and sorted. *)

\* A nonempty set of numbers has a least member.
LEMMA Least ==
  ASSUME NEW T, T \subseteq Nat, T # {}
  PROVE  \E x \in T : \A y \in T : x <= y
<1>1. \E x \in T : \A y \in T : ~(<<y, x>> \in OpToRel(<, Nat))
    BY NatLessThanWellFounded, WFMin, Zenon
<1>2. \E x \in T : \A y \in T : ~(y < x)
    BY <1>1, Zenon DEF OpToRel
<1> QED BY <1>2

\* The n elements of t are those of s at the positions in D, each once.
Lists(t, n, s, D) ==
  /\ n \in Nat
  /\ DOMAIN t = 1..n
  /\ \E at \in [1..n -> D] :
       /\ \A k \in 1..n : t[k] = s[at[k]]
       /\ \A j, k \in 1..n : at[j] = at[k] => j = k
       /\ \A i \in D : \E k \in 1..n : at[k] = i

\* A filtered sequence has exactly the elements at the positions kept, each once.
LEMMA KeptElements ==
  ASSUME NEW s, NEW n \in Nat, NEW D, D \subseteq 1..n
  PROVE  Lists(Kept(s, D), Cardinality(D), s, D)
<1> DEFINE Before(i) == {j \in D : j < i}
           c == Cardinality(D)
           rank == [i \in D |-> Cardinality(Before(i))]
           at == [k \in 1..c |-> CHOOSE i \in D : Cardinality(Before(i)) = k - 1]
<1>1. IsFiniteSet(D) /\ c \in Nat
  <2>1. IsFiniteSet(1..n)
      BY FS_Interval
  <2>2. IsFiniteSet(D)
      BY <2>1, FS_Subset
  <2> QED BY <2>2, FS_CardinalityType
<1>2. ASSUME NEW i \in D
      PROVE  IsFiniteSet(Before(i)) /\ Cardinality(Before(i)) \in 0..c - 1
  <2>1. Before(i) \subseteq D /\ i \notin Before(i)
      OBVIOUS
  <2>2. IsFiniteSet(Before(i)) /\ Cardinality(Before(i)) <= c /\ Cardinality(Before(i)) # c
      BY <1>1, <2>1, FS_Subset
  <2>3. Cardinality(Before(i)) \in Nat
      BY <2>2, FS_CardinalityType
  <2> QED BY <1>1, <2>2, <2>3
<1>3. ASSUME NEW i \in D, NEW j \in D, i < j
      PROVE  Cardinality(Before(i)) # Cardinality(Before(j))
  <2>0. \A k \in D : k \in Int
      OBVIOUS
  <2>1. ASSUME NEW k \in Before(i) PROVE k \in Before(j)
    <3>1. k \in D /\ k < i /\ k \in Int /\ i \in Int /\ j \in Int
        BY <2>0
    <3>2. k < j
        BY <1>3, <3>1
    <3> QED BY <3>1, <3>2
  <2>2. i \in Before(j) /\ i \notin Before(i)
      BY <1>3, <2>0
  <2>3. Before(i) \subseteq Before(j) /\ Before(i) # Before(j)
      BY <2>1, <2>2
  <2> QED BY <1>2, <2>3, FS_Subset
<1>4. \A i, j \in D : rank[i] = rank[j] => i = j
    BY <1>3
<1>5. \A i \in D : rank[i] \in 0..c - 1
    BY <1>2
<1>6. rank \in Injection(D, 0..c - 1)
  <2>1. rank \in [D -> 0..c - 1]
      BY <1>5
  <2> QED BY <1>4, <2>1 DEF Injection, IsInjective
<1>7. IsFiniteSet(0..c - 1) /\ Cardinality(0..c - 1) = c
    BY <1>1, FS_Interval
<1>8. rank \in Surjection(D, 0..c - 1)
    BY <1>6, <1>7, FS_Injection
<1>9. ASSUME NEW k \in 1..c PROVE at[k] \in D /\ rank[at[k]] = k - 1
  <2>1. k - 1 \in 0..c - 1
      BY <1>1
  <2>2. \E i \in D : rank[i] = k - 1
      BY <1>8, <2>1 DEF Surjection
  <2>3. at[k] = CHOOSE i \in D : rank[i] = k - 1
      OBVIOUS
  <2> HIDE DEF rank, at
  <2> QED BY <2>2, <2>3
<1>10. \A j, k \in 1..c : at[j] = at[k] => j = k
  <2> HIDE DEF at, rank, c
  <2> QED BY <1>1, <1>9
<1>11. \A i \in D : \E k \in 1..c : at[k] = i
  <2> HIDE DEF at, rank, c
  <2> SUFFICES ASSUME NEW i \in D PROVE \E k \in 1..c : at[k] = i
      OBVIOUS
  <2>1. rank[i] + 1 \in 1..c
      BY <1>1, <1>5
  <2>2. at[rank[i] + 1] \in D /\ rank[at[rank[i] + 1]] = rank[i]
      BY <1>1, <1>5, <1>9, <2>1
  <2> QED BY <1>4, <2>1, <2>2
<1>12. at \in [1..c -> D]
    BY <1>9
<1>13. DOMAIN Kept(s, D) = 1..c /\ \A k \in 1..c : Kept(s, D)[k] = s[at[k]]
    BY DEF Kept
<1> HIDE DEF at, rank, c
<1>14. Lists(Kept(s, D), c, s, D)
    BY <1>1, <1>10, <1>11, <1>12, <1>13 DEF Lists
<1> QED BY <1>14 DEF c

\* A sorted sequence has the elements it had, each as often.
LEMMA ReorderedElements ==
  ASSUME NEW s, NEW n \in Nat, DOMAIN s = 1..n, NEW t \in Reordered(s)
  PROVE  Lists(t, n, s, 1..n)
<1>1. PICK p \in [1..n -> 1..n] :
        /\ \A i, j \in 1..n : p[i] = p[j] => i = j
        /\ t = [k \in 1..n |-> s[p[k]]]
    BY DEF Reordered
<1>2. p \in Injection(1..n, 1..n)
    BY <1>1 DEF Injection, IsInjective
<1>3. IsFiniteSet(1..n)
    BY FS_Interval
<1>4. p \in Surjection(1..n, 1..n)
    BY <1>2, <1>3, FS_Injection
<1>5. \A i \in 1..n : \E k \in 1..n : p[k] = i
    BY <1>4 DEF Surjection
<1> QED BY <1>1, <1>5 DEF Lists

\* The nodes of a rule are all reached from its root, because each but the root
\* has a parent before it.
LEMMA AllReached ==
  ASSUME NEW r \in RulesToAdd
  PROVE  Reached(r.condition) = DOMAIN r.condition
<1> DEFINE rule == r.condition
<1>1. /\ DOMAIN rule = 1..Len(rule) /\ Len(rule) \in Nat \ {0}
      /\ \A k \in DOMAIN rule : k # 1 => \E j \in 1..k - 1 : k \in Children(rule[j])
    BY PolicyAssumption
<1> HIDE DEF rule
<1> SUFFICES ASSUME NEW S \in SUBSET DOMAIN rule, 1 \in S,
                    \A j \in S : Children(rule[j]) \subseteq S
             PROVE  S = DOMAIN rule
    BY DEF Reached, rule
<1>2. SUFFICES ASSUME DOMAIN rule \ S # {} PROVE FALSE
    OBVIOUS
<1>3. PICK k \in DOMAIN rule \ S : \A y \in DOMAIN rule \ S : k <= y
  <2>1. DOMAIN rule \ S \subseteq Nat
      BY <1>1
  <2> QED BY <1>2, <2>1, Least, Zenon
<1>4. PICK j \in 1..k - 1 : k \in Children(rule[j])
    BY <1>1, <1>3
<1>5. j \in S
    BY <1>1, <1>3, <1>4
<1> QED BY <1>3, <1>4, <1>5
-------------------------------------------------------------------------------
(* The shape of the state. *)

\* Verdicts are the numbers of the enum.
Acts == {0, 1, 2}

\* The elements of StageOutput::evaluator_results.
PolicyResult == [rule : RulesToAdd, skipped : BOOLEAN, verdict : Acts]

\* Sequences of rules and results, numbers, a registry that knows the types of its
\* pairs, and nothing found before the evaluation.
Shape ==
  /\ phase \in {"registering", "built", "rejected", "evaluating", "decided", "done"}
  /\ \A t \in DOMAIN types : types[t] \in Nat
  /\ pairs \subseteq (DOMAIN types) \X (DOMAIN types)
  /\ rules \in Seq(RulesToAdd)
  /\ next \in Nat \ {0}
  /\ results \in Seq(PolicyResult)
  /\ matches \in Seq(RulesToAdd)
  /\ matched \in Seq(RulesToAdd)
  /\ verdict \in Acts
  /\ active \in Seq(RulesToAdd)
  /\ phase \in {"registering", "built", "rejected"} =>
       /\ results = <<>> /\ matches = <<>> /\ matched = <<>>
       /\ next = 1 /\ verdict = Pass
  /\ phase # "done" => active = <<>>

LEMMA ResultOfType ==
  ASSUME NEW r \in RulesToAdd
  PROVE  /\ ResultOf(r) \in PolicyResult
         /\ ResultOf(r).rule = r /\ ResultOf(r).verdict = r.verdict /\ ~ResultOf(r).skipped
BY PolicyAssumption DEF ResultOf, PolicyResult, Acts

LEMMA ResultFields ==
  ASSUME NEW s \in Seq(PolicyResult), NEW k \in DOMAIN s
  PROVE  s[k].rule \in RulesToAdd /\ s[k].verdict \in Acts
<1>1. s[k] \in PolicyResult
    OBVIOUS
<1> QED BY <1>1 DEF PolicyResult

\* The greatest of some verdicts is one of them.
LEMMA MaxOfActs ==
  ASSUME NEW S, S \subseteq Acts, S # {}
  PROVE  Max(S) \in S /\ \A v \in S : Max(S) >= v
<1>1. \E x \in S : \A y \in S : x >= y
  <2>1. CASE 2 \in S
      BY <2>1 DEF Acts
  <2>2. CASE 2 \notin S /\ 1 \in S
      BY <2>2 DEF Acts
  <2>3. CASE 2 \notin S /\ 1 \notin S
    <3>1. PICK z \in S : TRUE
        OBVIOUS
    <3>2. \A y \in S : y = 0
        BY <2>3 DEF Acts
    <3> QED BY <3>1, <3>2
  <2> QED BY <2>1, <2>2, <2>3
<1> QED BY <1>1 DEF Max

\* The surviving matches.
LEMMA SurvivorsShape ==
  ASSUME Shape
  PROVE  /\ Survivors \in Seq(RulesToAdd)
         /\ Lists(Survivors, Len(Survivors), matches, Surviving)
<1> DEFINE c == Cardinality(Surviving)
<1>1. Len(matches) \in Nat /\ Surviving \subseteq 1..Len(matches)
    BY DEF Shape, Surviving, Deduped
<1>2. Lists(Survivors, c, matches, Surviving)
    BY <1>1, KeptElements DEF Survivors
<1>3. \A i \in Surviving : matches[i] \in RulesToAdd
    BY <1>1 DEF Shape
<1>4. Survivors = [k \in 1..c |-> Survivors[k]]
    BY DEF Survivors, Kept
<1> HIDE DEF c
<1>5. \A k \in 1..c : Survivors[k] \in RulesToAdd
    BY <1>2, <1>3 DEF Lists
<1>6. Survivors \in Seq(RulesToAdd) /\ Len(Survivors) = c
    BY <1>2, <1>4, <1>5 DEF Lists
<1> QED BY <1>2, <1>6

LEMMA InitShape == Init => Shape
BY DEF Init, Shape, Acts, Pass

\* The rules stay rules when they are sorted.
LEMMA AddRuleShape ==
  ASSUME Shape, NEW r \in RulesToAdd, AddRule(r)
  PROVE  /\ rules' \in Seq(RulesToAdd)
         /\ \A i, j \in DOMAIN rules' : i < j => rules'[i].priority <= rules'[j].priority
<1> DEFINE s == Append(rules, r)
<1>1. s \in Seq(RulesToAdd) /\ Len(s) \in Nat /\ DOMAIN s = 1..Len(s)
    BY DEF Shape
<1>2. /\ rules' \in Reordered(s)
      /\ \A i, j \in DOMAIN s : i < j => rules'[i].priority <= rules'[j].priority
    BY DEF AddRule, SortedBy
<1>3. rules' = [k \in DOMAIN s |-> rules'[k]]
    BY <1>2 DEF Reordered
<1> HIDE DEF s
<1>4. /\ DOMAIN rules' = 1..Len(s)
      /\ \A k \in 1..Len(s) : \E i \in 1..Len(s) : rules'[k] = s[i]
  <2>1. Lists(rules', Len(s), s, 1..Len(s))
      BY <1>1, <1>2, ReorderedElements
  <2> QED BY <2>1 DEF Lists
<1>5. \A k \in 1..Len(s) : rules'[k] \in RulesToAdd
    BY <1>1, <1>4
<1>6. rules' \in Seq(RulesToAdd)
    BY <1>1, <1>3, <1>5
<1> QED BY <1>1, <1>2, <1>4, <1>6

\* The active decisions are the rules of the typed results, sorted.
LEMMA ActiveShape ==
  ASSUME Shape, ComputeActiveDecisions
  PROVE  /\ active' \in Seq(RulesToAdd)
         /\ Lists(active', Len(active'), [j \in Typed |-> results[j].rule], Typed)
         /\ \A j, k \in DOMAIN active' : j < k => PriorityOf(active'[j]) <= PriorityOf(active'[k])
<1> DEFINE typed == Kept(results, Typed)
           c == Cardinality(Typed)
           ts == [k \in DOMAIN typed |-> typed[k].rule]
           rs == [j \in Typed |-> results[j].rule]
<1>1. Len(results) \in Nat /\ Typed \subseteq 1..Len(results)
    BY DEF Shape, Typed
<1>2. Lists(typed, c, results, Typed)
    BY <1>1, KeptElements
<1>3. /\ active' \in Reordered(ts)
      /\ \A j, k \in DOMAIN ts : j < k => PriorityOf(active'[j]) <= PriorityOf(active'[k])
    BY DEF ComputeActiveDecisions, SortedBy
<1>4. active' = [k \in DOMAIN ts |-> active'[k]]
  <2> HIDE DEF ts
  <2> QED BY <1>3 DEF Reordered
<1>5. c \in Nat /\ DOMAIN ts = 1..c
    BY <1>2 DEF Lists
<1>6. Lists(active', c, ts, 1..c)
  <2> HIDE DEF ts, c
  <2> QED BY <1>3, <1>5, ReorderedElements
<1>7. PICK at \in [1..c -> Typed] :
        /\ \A k \in 1..c : typed[k] = results[at[k]]
        /\ \A j, k \in 1..c : at[j] = at[k] => j = k
        /\ \A i \in Typed : \E k \in 1..c : at[k] = i
  <2> HIDE DEF typed, c
  <2> QED BY <1>2 DEF Lists
<1>8. PICK p \in [1..c -> 1..c] :
        /\ \A k \in 1..c : active'[k] = ts[p[k]]
        /\ \A j, k \in 1..c : p[j] = p[k] => j = k
        /\ \A i \in 1..c : \E k \in 1..c : p[k] = i
  <2> HIDE DEF ts, c
  <2> QED BY <1>6 DEF Lists
<1>9. \A k \in 1..c : ts[k] = rs[at[k]]
    BY <1>2, <1>7 DEF Lists
<1>10. \A j \in Typed : rs[j] \in RulesToAdd
    BY <1>1, ResultFields DEF Shape
<1> HIDE DEF typed, c, ts, rs
<1>11. Lists(active', c, rs, Typed)
  <2> DEFINE q == [k \in 1..c |-> at[p[k]]]
  <2>1. q \in [1..c -> Typed]
      BY <1>7, <1>8
  <2>2. \A k \in 1..c : active'[k] = rs[q[k]]
      BY <1>8, <1>9
  <2>3. \A j, k \in 1..c : q[j] = q[k] => j = k
      BY <1>7, <1>8
  <2>4. \A i \in Typed : \E k \in 1..c : q[k] = i
      BY <1>7, <1>8
  <2>5. DOMAIN active' = 1..c
      BY <1>6 DEF Lists
  <2> HIDE DEF q
  <2> QED BY <1>5, <2>1, <2>2, <2>3, <2>4, <2>5 DEF Lists
<1>12. \A k \in 1..c : active'[k] \in RulesToAdd
    BY <1>8, <1>9, <1>10
<1>13. active' \in Seq(RulesToAdd) /\ Len(active') = c
    BY <1>4, <1>5, <1>12
<1> QED BY <1>3, <1>5, <1>11, <1>13 DEF rs

LEMMA NextShape == Shape /\ [Next]_vars => Shape'
<1> SUFFICES ASSUME Shape, [Next]_vars PROVE Shape'
    OBVIOUS
<1> USE PolicyAssumption
<1> USE DEF configVars, outVars
<1>1. ASSUME NEW t \in Types, NEW p \in Priorities, AddType(t, p) PROVE Shape'
    BY <1>1 DEF AddType, Shape
<1>2. ASSUME NEW a \in Types, NEW b \in Types, AddIncompatible(a, b) PROVE Shape'
    BY <1>2 DEF AddIncompatible, Shape
<1>3. ASSUME NEW r \in RulesToAdd, AddRule(r) PROVE Shape'
  <2>1. rules' \in Seq(RulesToAdd)
      BY <1>3, AddRuleShape
  <2> QED BY <1>3, <2>1 DEF AddRule, Shape
<1>4. CASE Build \/ Process
    BY <1>4 DEF Build, Process, Shape
<1>5. CASE RuleThrows
  <2>1. [rule |-> rules[next], skipped |-> TRUE,
         verdict |-> IF settings.failClosed THEN Block ELSE Pass] \in PolicyResult
      BY <1>5 DEF RuleThrows, Shape, PolicyResult, Acts, Block, Pass
  <2>2. results' \in Seq(PolicyResult) /\ next' \in Nat \ {0}
      BY <1>5, <2>1 DEF RuleThrows, Shape
  <2> QED BY <1>5, <2>2 DEF RuleThrows, Shape
<1>6. CASE RuleDoesNotMatch
    BY <1>6 DEF RuleDoesNotMatch, Shape
<1>7. CASE LegacyRuleMatches
  <2>1. rules[next] \in RulesToAdd /\ rules[next].verdict \in Acts
      BY <1>7 DEF LegacyRuleMatches, Shape, Acts
  <2>2. results' \in Seq(PolicyResult) /\ matched' \in Seq(RulesToAdd)
      BY <1>7, <2>1, ResultOfType DEF LegacyRuleMatches, Shape
  <2>3. verdict' \in Acts
    <3>1. {verdict, rules[next].verdict} \subseteq Acts
        BY <2>1 DEF Shape
    <3>2. Max({verdict, rules[next].verdict}) \in Acts
        BY <3>1, MaxOfActs
    <3> QED BY <1>7, <3>2 DEF LegacyRuleMatches
  <2>4. next' \in Nat \ {0}
      BY <1>7 DEF LegacyRuleMatches, Shape
  <2> QED BY <1>7, <2>2, <2>3, <2>4 DEF LegacyRuleMatches, Shape
<1>8. CASE TypedRuleMatches
  <2>1. rules[next] \in RulesToAdd
      BY <1>8 DEF TypedRuleMatches, Shape
  <2> QED BY <1>8, <2>1 DEF TypedRuleMatches, Shape
<1>9. CASE Resolve
  <2>1. Survivors \in Seq(RulesToAdd)
      BY SurvivorsShape
  <2> DEFINE new == [k \in DOMAIN Survivors |-> ResultOf(Survivors[k])]
  <2>2. new \in Seq(PolicyResult)
      BY <2>1, ResultOfType
  <2>3. results' \in Seq(PolicyResult)
      BY <1>9, <2>2 DEF Resolve, Shape
  <2>4. verdict' \in Acts
    <3>1. {verdict} \cup {Survivors[k].verdict : k \in DOMAIN Survivors} \subseteq Acts
      <4>1. \A k \in DOMAIN Survivors : Survivors[k].verdict \in Acts
          BY <2>1 DEF Acts
      <4> QED BY <4>1 DEF Shape
    <3> QED BY <1>9, <3>1, MaxOfActs DEF Resolve
  <2> QED BY <1>9, <2>3, <2>4 DEF Resolve, Shape
<1>10. CASE ComputeActiveDecisions
  <2>1. active' \in Seq(RulesToAdd)
      BY <1>10, ActiveShape
  <2> QED BY <1>10, <2>1 DEF ComputeActiveDecisions, Shape
<1>11. CASE UNCHANGED vars
    BY <1>11 DEF vars, Shape
<1> QED BY <1>1, <1>2, <1>3, <1>4, <1>5, <1>6, <1>7, <1>8, <1>9, <1>10, <1>11 DEF Next

-------------------------------------------------------------------------------
(* Builder::build() and what the evaluation relies on. *)

\* The properties of the configuration that build() accepted are kept: nothing
\* changes it afterwards.
LEMMA NextResolved == Shape /\ BuiltIsResolved /\ [Next]_vars => BuiltIsResolved'
<1> SUFFICES ASSUME Shape, BuiltIsResolved, [Next]_vars PROVE BuiltIsResolved'
    OBVIOUS
<1> USE DEF configVars, outVars
<1>1. CASE Build
  <2> SUFFICES ASSUME Valid, NEW k \in DOMAIN rules
               PROVE  /\ \A n \in DOMAIN rules[k].condition :
                           rules[k].condition[n].op = "StageVerdictIs" =>
                             rules[k].condition[n].stage \in ActiveStages
                      /\ rules[k].type \subseteq DOMAIN types
      BY <1>1 DEF Build, BuiltIsResolved, ActiveStages
  <2>1. rules[k] \in RulesToAdd
      BY DEF Shape
  <2>2. /\ CollectStageRefs(rules[k].condition) \subseteq ActiveStages
        /\ rules[k].type \subseteq DOMAIN types
      BY DEF Valid, RuleError
  <2>3. Reached(rules[k].condition) = DOMAIN rules[k].condition
      BY <2>1, AllReached
  <2> QED BY <2>2, <2>3 DEF CollectStageRefs
<1>2. CASE UNCHANGED <<types, rules, settings>>
            /\ (phase' = phase \/ phase \notin {"registering", "rejected"})
    BY <1>2 DEF BuiltIsResolved
<1>3. CASE phase = "registering" /\ phase' = phase
    BY <1>3 DEF BuiltIsResolved
<1> QED BY <1>1, <1>2, <1>3 DEF Next, vars, AddType, AddIncompatible, AddRule, Process, RuleThrows,
                                RuleDoesNotMatch, LegacyRuleMatches, TypedRuleMatches, Resolve,
                                ComputeActiveDecisions

\* The rules are sorted by priority, and so are the matches, which come from rules
\* before the next one.
Ordered ==
  /\ \A i, j \in DOMAIN rules : i < j => rules[i].priority <= rules[j].priority
  /\ \A i, j \in DOMAIN matches : i < j => matches[i].priority <= matches[j].priority
  /\ \A i \in DOMAIN matches : \A n \in DOMAIN rules :
       n >= next => matches[i].priority <= rules[n].priority

LEMMA NextOrdered == Shape /\ Ordered /\ [Next]_vars => Ordered'
<1> SUFFICES ASSUME Shape, Ordered, [Next]_vars PROVE Ordered'
    OBVIOUS
<1> USE DEF configVars, outVars
<1>1. ASSUME NEW r \in RulesToAdd, AddRule(r) PROVE Ordered'
  <2>1. matches' = <<>>
      BY <1>1 DEF AddRule, Shape
  <2> QED BY <1>1, <2>1, AddRuleShape DEF Ordered
<1>2. CASE TypedRuleMatches
  <2> DEFINE r == rules[next]
  <2>1. /\ next \in DOMAIN rules /\ r \in RulesToAdd /\ r.priority \in Nat
        /\ matches' = Append(matches, r) /\ rules' = rules /\ next' = next + 1
      BY <1>2, PolicyAssumption DEF TypedRuleMatches, Shape
  <2>2. \A i \in DOMAIN matches : matches[i].priority <= r.priority
    <3>1. next >= next
        BY DEF Shape
    <3> QED BY <2>1, <3>1 DEF Ordered
  <2>3. \A n \in DOMAIN rules : n >= next => r.priority <= rules[n].priority
      BY <2>1 DEF Ordered, Shape
  <2>4. \A n \in DOMAIN rules : n >= next + 1 => n >= next
      BY DEF Shape
  <2>5. /\ DOMAIN matches' = 1..Len(matches) + 1 /\ DOMAIN matches = 1..Len(matches)
        /\ Len(matches) \in Nat /\ matches'[Len(matches) + 1] = r
        /\ \A i \in DOMAIN matches : matches'[i] = matches[i]
      BY <2>1 DEF Shape
  <2> HIDE DEF r
  <2>6. ASSUME NEW i \in DOMAIN matches', NEW j \in DOMAIN matches', i < j
        PROVE  matches'[i].priority <= matches'[j].priority
    <3>1. i \in DOMAIN matches
        BY <2>5, <2>6
    <3>2. CASE j \in DOMAIN matches
        BY <2>5, <2>6, <3>1, <3>2 DEF Ordered
    <3>3. CASE j = Len(matches) + 1
        BY <2>2, <2>5, <3>1, <3>3
    <3> QED BY <2>5, <3>2, <3>3
  <2>7. ASSUME NEW i \in DOMAIN matches', NEW n \in DOMAIN rules, n >= next + 1
        PROVE  matches'[i].priority <= rules[n].priority
    <3>1. CASE i \in DOMAIN matches
        BY <2>4, <2>5, <2>7, <3>1 DEF Ordered
    <3>2. CASE i = Len(matches) + 1
        BY <2>3, <2>4, <2>5, <2>7, <3>2
    <3> QED BY <2>5, <3>1, <3>2
  <2>8. \A i, j \in DOMAIN rules : i < j => rules[i].priority <= rules[j].priority
      BY DEF Ordered
  <2> QED BY <2>1, <2>6, <2>7, <2>8 DEF Ordered
<1>3. CASE rules' = rules /\ matches' = matches
            /\ (next' = next \/ next' = next + 1 \/ next' = Len(rules) + 1)
    BY <1>3 DEF Ordered, Shape
<1> QED BY <1>1, <1>2, <1>3 DEF Next, vars, AddType, AddIncompatible, Build, Process, RuleThrows,
                                RuleDoesNotMatch, LegacyRuleMatches, Resolve,
                                ComputeActiveDecisions

\* The matches are the matched rules with a known type, which there are only with
\* multi-decisions; without them the first match ends the evaluation.
MatchesInv ==
  /\ \A k \in DOMAIN matches : /\ matches[k].type # {} /\ UseMulti
                               /\ matches[k].type \subseteq DOMAIN types
  /\ UseMulti => \A j \in DOMAIN matched : matched[j].type # {} =>
       \E i \in DOMAIN matches : matches[i] = matched[j]
  /\ ~UseMulti => matched = <<>> \/ (Len(matched) = 1 /\ next > Len(rules))

LEMMA NextMatches == Shape /\ BuiltIsResolved /\ MatchesInv /\ [Next]_vars => MatchesInv'
<1> SUFFICES ASSUME Shape, BuiltIsResolved, MatchesInv, [Next]_vars PROVE MatchesInv'
    OBVIOUS
<1> USE DEF configVars, outVars
<1>1. CASE phase = "registering" /\ UNCHANGED <<matches, matched>>
    BY <1>1 DEF MatchesInv, Shape
<1>2. CASE /\ UNCHANGED <<types, rules, settings, matches, matched>>
           /\ next' = next \/ next' = next + 1
  <2>1. UseMulti' <=> UseMulti
      BY <1>2 DEF UseMulti
  <2>2. next' > Len(rules) \/ ~(next > Len(rules))
      BY <1>2 DEF Shape
  <2> QED BY <1>2, <2>1, <2>2 DEF MatchesInv
<1>3. CASE LegacyRuleMatches
  <2> DEFINE r == rules[next]
  <2>1. /\ next \in DOMAIN rules /\ r \in RulesToAdd /\ next <= Len(rules)
        /\ ~UseMulti \/ r.type = {}
        /\ matched' = Append(matched, r) /\ UNCHANGED <<types, rules, settings, matches>>
        /\ next' = IF UseMulti THEN next + 1 ELSE Len(rules) + 1
      BY <1>3 DEF LegacyRuleMatches, Shape
  <2>2. UseMulti' <=> UseMulti
      BY <2>1 DEF UseMulti
  <2> HIDE DEF r
  <2>3. CASE UseMulti
    <3>1. /\ DOMAIN matched' = DOMAIN matched \cup {Len(matched) + 1}
          /\ matched'[Len(matched) + 1].type = {}
          /\ \A j \in DOMAIN matched : matched'[j] = matched[j]
        BY <2>1, <2>3 DEF Shape
    <3> QED BY <2>1, <2>2, <2>3, <3>1 DEF MatchesInv
  <2>4. CASE ~UseMulti
    <3>1. matched = <<>>
        BY <2>1, <2>4 DEF MatchesInv, Shape
    <3> QED BY <2>1, <2>2, <2>4, <3>1 DEF MatchesInv, Shape
  <2> QED BY <2>3, <2>4
<1>4. CASE TypedRuleMatches
  <2> DEFINE r == rules[next]
  <2>1. /\ next \in DOMAIN rules /\ r \in RulesToAdd /\ UseMulti /\ r.type # {}
        /\ matched' = Append(matched, r) /\ matches' = Append(matches, r)
        /\ UNCHANGED <<types, rules, settings>>
      BY <1>4 DEF TypedRuleMatches, Shape
  <2>2. UseMulti'
      BY <2>1 DEF UseMulti
  <2>3. r.type \subseteq DOMAIN types
      BY <1>4, <2>1 DEF BuiltIsResolved, TypedRuleMatches
  <2> HIDE DEF r
  <2>4. /\ DOMAIN matches' = 1..Len(matches) + 1 /\ DOMAIN matches = 1..Len(matches)
        /\ Len(matches) \in Nat /\ matches'[Len(matches) + 1] = r
        /\ \A i \in DOMAIN matches : matches'[i] = matches[i]
      BY <2>1 DEF Shape
  <2>5. /\ DOMAIN matched' = 1..Len(matched) + 1 /\ DOMAIN matched = 1..Len(matched)
        /\ Len(matched) \in Nat /\ matched'[Len(matched) + 1] = r
        /\ \A j \in DOMAIN matched : matched'[j] = matched[j]
      BY <2>1 DEF Shape
  <2>6. \A k \in DOMAIN matches' : /\ matches'[k].type # {} /\ UseMulti'
                                   /\ matches'[k].type \subseteq DOMAIN types
      BY <2>1, <2>2, <2>3, <2>4 DEF MatchesInv
  <2>7. ASSUME NEW j \in DOMAIN matched', matched'[j].type # {}
        PROVE  \E i \in DOMAIN matches' : matches'[i] = matched'[j]
    <3>1. CASE j = Len(matched) + 1
        BY <2>4, <2>5, <3>1
    <3>2. CASE j \in DOMAIN matched
      <4>1. PICK i \in DOMAIN matches : matches[i] = matched[j]
          BY <2>1, <2>5, <2>7, <3>2 DEF MatchesInv
      <4> QED BY <2>4, <2>5, <3>2, <4>1
    <3> QED BY <2>5, <3>1, <3>2
  <2> QED BY <2>1, <2>2, <2>6, <2>7 DEF MatchesInv
<1> QED BY <1>1, <1>2, <1>3, <1>4 DEF Next, vars, AddType, AddIncompatible, AddRule, Build, Process,
                                RuleThrows, RuleDoesNotMatch, Resolve, ComputeActiveDecisions

-------------------------------------------------------------------------------
(* The verdict. *)

\* The verdicts of what is reported as not skipped, and Pass.
Acting == {Pass} \cup {results[k].verdict : k \in {j \in DOMAIN results : ~results[j].skipped}}

\* The verdict is the strictest of them, so far.
VerdictInv == verdict \in Acting /\ \A v \in Acting : verdict >= v

LEMMA ActingVerdicts == Shape => Acting \subseteq Acts
<1> SUFFICES ASSUME Shape PROVE Acting \subseteq Acts
    OBVIOUS
<1>1. \A k \in DOMAIN results : results[k].verdict \in Acts
    BY ResultFields DEF Shape
<1> QED BY <1>1 DEF Acting, Acts, Pass

\* Resolve adds one result for each survivor to the results there are.
LEMMA ResolveResults ==
  ASSUME Shape, Resolve
  PROVE  /\ \A k \in DOMAIN results : k \in DOMAIN results' /\ results'[k] = results[k]
         /\ \A k \in DOMAIN Survivors : /\ Len(results) + k \in DOMAIN results' \ DOMAIN results
                                        /\ results'[Len(results) + k] = ResultOf(Survivors[k])
         /\ \A m \in DOMAIN results' :
              m \in DOMAIN results \/ \E k \in DOMAIN Survivors : m = Len(results) + k
<1> DEFINE new == [k \in DOMAIN Survivors |-> ResultOf(Survivors[k])]
<1>1. Survivors \in Seq(RulesToAdd)
    BY SurvivorsShape
<1>2. new \in Seq(PolicyResult)
    BY <1>1, ResultOfType
<1>3. /\ results' = results \o new /\ DOMAIN new = DOMAIN Survivors
      /\ \A k \in DOMAIN Survivors : new[k] = ResultOf(Survivors[k])
    BY DEF Resolve
<1> HIDE DEF new
<1>4. /\ Len(results) \in Nat /\ Len(new) \in Nat /\ DOMAIN new = 1..Len(new)
      /\ DOMAIN results = 1..Len(results) /\ DOMAIN results' = 1..Len(results) + Len(new)
    BY <1>2, <1>3 DEF Shape
<1>5. \A m \in DOMAIN results' : m \notin DOMAIN results => m - Len(results) \in DOMAIN new
    BY <1>4
<1>6. \A m \in DOMAIN results' : m = Len(results) + (m - Len(results))
    BY <1>4
<1>7. \A k \in DOMAIN results : k \in DOMAIN results' /\ results'[k] = results[k]
    BY <1>2, <1>3, <1>4 DEF Shape
<1>8. \A k \in DOMAIN new : /\ Len(results) + k \in DOMAIN results' \ DOMAIN results
                            /\ results'[Len(results) + k] = new[k]
    BY <1>2, <1>3, <1>4 DEF Shape
<1> QED BY <1>3, <1>5, <1>6, <1>7, <1>8

\* What was skipped is the result of a rule that threw, and a Pass unless the failure
\* mode says otherwise.
SkippedInv ==
  \A k \in DOMAIN results :
    results[k].skipped => degraded /\ (~settings.failClosed => results[k].verdict = Pass)

LEMMA NextSkipped == Shape /\ SkippedInv /\ [Next]_vars => SkippedInv'
<1> SUFFICES ASSUME Shape, SkippedInv, [Next]_vars PROVE SkippedInv'
    OBVIOUS
<1> USE DEF configVars, outVars
<1>1. CASE UNCHANGED <<results, degraded, settings>>
    BY <1>1 DEF SkippedInv
<1>2. CASE RuleThrows
  <2> DEFINE x == [rule |-> rules[next], skipped |-> TRUE,
                   verdict |-> IF settings.failClosed THEN Block ELSE Pass]
  <2>1. /\ results' = Append(results, x) /\ degraded' /\ settings' = settings
        /\ ~settings.failClosed => x.verdict = Pass
      BY <1>2 DEF RuleThrows
  <2> HIDE DEF x
  <2>2. /\ DOMAIN results' = DOMAIN results \cup {Len(results) + 1}
        /\ results'[Len(results) + 1] = x
        /\ \A k \in DOMAIN results : results'[k] = results[k]
      BY <2>1 DEF Shape
  <2> QED BY <2>1, <2>2 DEF SkippedInv
<1>3. CASE LegacyRuleMatches
  <2> DEFINE x == ResultOf(rules[next])
  <2>1. results' = Append(results, x) /\ UNCHANGED <<degraded, settings>>
      BY <1>3 DEF LegacyRuleMatches
  <2>2. ~x.skipped
      BY <1>3, ResultOfType DEF LegacyRuleMatches, Shape
  <2> HIDE DEF x
  <2>3. /\ DOMAIN results' = DOMAIN results \cup {Len(results) + 1}
        /\ results'[Len(results) + 1] = x
        /\ \A k \in DOMAIN results : results'[k] = results[k]
      BY <2>1 DEF Shape
  <2> QED BY <2>1, <2>2, <2>3 DEF SkippedInv
<1>4. CASE Resolve
  <2>1. Survivors \in Seq(RulesToAdd)
      BY SurvivorsShape
  <2>2. \A k \in DOMAIN Survivors : Survivors[k] \in RulesToAdd
      BY <2>1
  <2>3. \A k \in DOMAIN Survivors : ~ResultOf(Survivors[k]).skipped
      BY <2>2, ResultOfType
  <2>4. UNCHANGED <<degraded, settings>>
      BY <1>4 DEF Resolve
  <2>5. ASSUME NEW m \in DOMAIN results'
        PROVE  \/ m \in DOMAIN results /\ results'[m] = results[m]
               \/ ~results'[m].skipped
    <3>1. CASE m \in DOMAIN results
        BY <1>4, <3>1, ResolveResults
    <3>2. CASE m \notin DOMAIN results
      <4>1. PICK k \in DOMAIN Survivors : m = Len(results) + k
          BY <1>4, <3>2, ResolveResults
      <4>2. results'[m] = ResultOf(Survivors[k])
          BY <1>4, <4>1, ResolveResults
      <4> QED BY <2>3, <4>2
    <3> QED BY <3>1, <3>2
  <2> QED BY <2>4, <2>5 DEF SkippedInv
<1>5. CASE \/ Build \/ Process \/ RuleDoesNotMatch \/ TypedRuleMatches
          \/ ComputeActiveDecisions
    BY <1>1, <1>5 DEF Build, Process, RuleDoesNotMatch, TypedRuleMatches, ComputeActiveDecisions
<1>6. ASSUME NEW t \in Types, NEW p \in Priorities, AddType(t, p) PROVE SkippedInv'
    BY <1>1, <1>6 DEF AddType
<1>7. ASSUME NEW a \in Types, NEW b \in Types, AddIncompatible(a, b) PROVE SkippedInv'
    BY <1>1, <1>7 DEF AddIncompatible
<1>8. ASSUME NEW r \in RulesToAdd, AddRule(r) PROVE SkippedInv'
    BY <1>1, <1>8 DEF AddRule
<1>9. CASE UNCHANGED vars
    BY <1>1, <1>9 DEF vars
<1> QED BY <1>2, <1>3, <1>4, <1>5, <1>6, <1>7, <1>8, <1>9 DEF Next

LEMMA NextVerdict == Shape /\ VerdictInv /\ [Next]_vars => VerdictInv'
<1> SUFFICES ASSUME Shape, VerdictInv, [Next]_vars PROVE VerdictInv'
    OBVIOUS
<1> USE DEF configVars, outVars
<1>0. Acting \subseteq Acts /\ Acting # {} /\ verdict \in Acts
    BY ActingVerdicts DEF Acting, Shape
<1>1. CASE UNCHANGED <<results, verdict>>
    BY <1>1 DEF VerdictInv, Acting
<1>2. CASE RuleThrows
  <2> DEFINE x == [rule |-> rules[next], skipped |-> TRUE,
                   verdict |-> IF settings.failClosed THEN Block ELSE Pass]
  <2>1. results' = Append(results, x) /\ verdict' = verdict /\ x.skipped
      BY <1>2 DEF RuleThrows
  <2> HIDE DEF x
  <2>2. /\ DOMAIN results' = DOMAIN results \cup {Len(results) + 1}
        /\ results'[Len(results) + 1].skipped
        /\ \A k \in DOMAIN results : results'[k] = results[k]
      BY <2>1 DEF Shape
  <2>3. Acting' = Acting
      BY <2>2 DEF Acting
  <2> QED BY <2>1, <2>3 DEF VerdictInv
<1>3. CASE LegacyRuleMatches
  <2> DEFINE r == rules[next]
             x == ResultOf(r)
  <2>1. /\ r \in RulesToAdd /\ results' = Append(results, x)
        /\ verdict' = Max({verdict, r.verdict})
      BY <1>3 DEF LegacyRuleMatches, Shape
  <2>2. ~x.skipped /\ x.verdict = r.verdict /\ r.verdict \in Acts
      BY <2>1, ResultOfType, PolicyAssumption DEF Acts
  <2> HIDE DEF x, r
  <2>3. Acting' = Acting \cup {r.verdict}
    <3>1. /\ DOMAIN results' = DOMAIN results \cup {Len(results) + 1}
          /\ results'[Len(results) + 1] = x
          /\ \A k \in DOMAIN results : results'[k] = results[k]
        BY <2>1 DEF Shape
    <3> QED BY <2>2, <3>1 DEF Acting
  <2>4. /\ verdict' \in {verdict, r.verdict}
        /\ \A v \in {verdict, r.verdict} : verdict' >= v
    <3>1. {verdict, r.verdict} \subseteq Acts
        BY <1>0, <2>2
    <3> QED BY <2>1, <3>1, MaxOfActs
  <2>5. verdict' \in Acts
      BY <1>0, <2>2, <2>4
  <2> QED BY <1>0, <2>2, <2>3, <2>4, <2>5 DEF VerdictInv, Acts
<1>4. CASE Resolve
  <2> DEFINE V == {Survivors[k].verdict : k \in DOMAIN Survivors}
  <2>1. Survivors \in Seq(RulesToAdd)
      BY SurvivorsShape
  <2>2. \A k \in DOMAIN Survivors : Survivors[k] \in RulesToAdd
      BY <2>1
  <2>3. V \subseteq Acts
      BY <2>2, PolicyAssumption DEF Acts
  <2>4. \A k \in DOMAIN Survivors : /\ ~ResultOf(Survivors[k]).skipped
                                    /\ ResultOf(Survivors[k]).verdict = Survivors[k].verdict
      BY <2>2, ResultOfType
  <2>5. Acting' = Acting \cup V
    <3>1. ASSUME NEW v \in Acting' PROVE v \in Acting \cup V
        BY <1>4, <2>4, ResolveResults DEF Acting
    <3>2. ASSUME NEW v \in Acting PROVE v \in Acting'
        BY <1>4, ResolveResults DEF Acting
    <3>3. ASSUME NEW v \in V PROVE v \in Acting'
      <4>1. PICK k \in DOMAIN Survivors : v = Survivors[k].verdict
          OBVIOUS
      <4> QED BY <1>4, <2>4, <4>1, ResolveResults DEF Acting
    <3> HIDE DEF V
    <3> QED BY <3>1, <3>2, <3>3
  <2>6. verdict' = Max({verdict} \cup V)
      BY <1>4 DEF Resolve
  <2> HIDE DEF V
  <2>7. /\ verdict' \in {verdict} \cup V
        /\ \A v \in {verdict} \cup V : verdict' >= v
    <3>1. {verdict} \cup V \subseteq Acts
        BY <1>0, <2>3
    <3> QED BY <2>6, <3>1, MaxOfActs
  <2>8. verdict' \in Acts
      BY <1>0, <2>3, <2>7
  <2> QED BY <1>0, <2>3, <2>5, <2>7, <2>8 DEF VerdictInv, Acts
<1> QED BY <1>1, <1>2, <1>3, <1>4 DEF Next, vars, AddType, AddIncompatible, AddRule, Build, Process,
                                RuleDoesNotMatch, TypedRuleMatches, ComputeActiveDecisions

-------------------------------------------------------------------------------
(* The decisions. *)

\* No two surviving matches have the same type: each is the first of its type.
LEMMA SurvivingTypes ==
  ASSUME Shape, NEW i \in Surviving, NEW j \in Surviving, matches[i].type = matches[j].type
  PROVE  i = j
<1>1. i \in Nat \ {0} /\ j \in Nat \ {0}
    BY DEF Shape, Surviving, Deduped
<1>2. ~(i < j) /\ ~(j < i)
    BY <1>1 DEF Surviving, Deduped
<1> QED BY <1>1, <1>2

\* While the rules are evaluated no result has a type; afterwards the typed results
\* are those of the surviving matches, one for each.
TypedInv ==
  /\ phase \in {"built", "evaluating"} => Typed = {}
  /\ phase \in {"decided", "done"} =>
       /\ \A k \in Typed : \E i \in Surviving : results[k].rule = matches[i]
       /\ \A i \in Surviving : \E k \in Typed : results[k].rule = matches[i]
       /\ \A j, k \in Typed : results[j].rule.type = results[k].rule.type => j = k

LEMMA ResolveTyped == ASSUME Shape, MatchesInv, TypedInv, Resolve PROVE TypedInv'
<1>1. /\ phase = "evaluating" /\ phase' = "decided"
      /\ UNCHANGED <<types, pairs, rules, settings, matches>>
    BY DEF Resolve, configVars
<1>2. /\ Surviving' = Surviving
      /\ UseMulti' <=> UseMulti
    BY <1>1 DEF Surviving, Deduped, Losers, Fired, UseMulti
<1>3. PICK at \in [1..Len(Survivors) -> Surviving] :
        /\ \A k \in 1..Len(Survivors) : Survivors[k] = matches[at[k]]
        /\ \A j, k \in 1..Len(Survivors) : at[j] = at[k] => j = k
        /\ \A i \in Surviving : \E k \in 1..Len(Survivors) : at[k] = i
    BY SurvivorsShape DEF Lists
<1>4. DOMAIN Survivors = 1..Len(Survivors) /\ \A k \in DOMAIN Survivors : Survivors[k] \in RulesToAdd
    BY SurvivorsShape
<1>5. ASSUME NEW i \in Surviving
      PROVE  i \in DOMAIN matches /\ matches[i].type # {} /\ UseMulti
    BY DEF Surviving, Deduped, MatchesInv
<1>6. ASSUME NEW m \in Typed'
      PROVE  \E k \in DOMAIN Survivors : m = Len(results) + k
  <2>1. m \in DOMAIN results' /\ UseMulti /\ results'[m].rule.type # {} /\ ~results'[m].skipped
      BY <1>2 DEF Typed
  <2>2. m \notin DOMAIN results
    <3>1. m \in DOMAIN results => results'[m] = results[m]
        BY ResolveResults
    <3> QED BY <1>1, <2>1, <3>1 DEF TypedInv, Typed
  <2> QED BY <2>1, <2>2, ResolveResults
<1>7. ASSUME NEW k \in DOMAIN Survivors
      PROVE  Len(results) + k \in Typed' /\ results'[Len(results) + k].rule = matches[at[k]]
  <2>1. /\ Len(results) + k \in DOMAIN results'
        /\ results'[Len(results) + k] = ResultOf(Survivors[k])
      BY ResolveResults
  <2>2. ResultOf(Survivors[k]).rule = Survivors[k] /\ ~ResultOf(Survivors[k]).skipped
      BY <1>4, ResultOfType
  <2>3. Survivors[k] = matches[at[k]] /\ at[k] \in Surviving
      BY <1>3, <1>4
  <2>4. matches[at[k]].type # {} /\ UseMulti'
      BY <1>2, <1>5, <2>3
  <2> QED BY <2>1, <2>2, <2>3, <2>4 DEF Typed
<1>8. \A m \in Typed' : \E i \in Surviving : results'[m].rule = matches[i]
    BY <1>3, <1>4, <1>6, <1>7
<1>9. \A i \in Surviving : \E m \in Typed' : results'[m].rule = matches[i]
  <2> SUFFICES ASSUME NEW i \in Surviving PROVE \E m \in Typed' : results'[m].rule = matches[i]
      OBVIOUS
  <2>1. PICK k \in DOMAIN Survivors : at[k] = i
      BY <1>3, <1>4
  <2> QED BY <1>7, <2>1
<1>10. ASSUME NEW m \in Typed', NEW n \in Typed', results'[m].rule.type = results'[n].rule.type
       PROVE  m = n
  <2>1. PICK j \in DOMAIN Survivors : m = Len(results) + j
      BY <1>6
  <2>2. PICK k \in DOMAIN Survivors : n = Len(results) + k
      BY <1>6
  <2>3. /\ matches[at[j]].type = matches[at[k]].type
        /\ at[j] \in Surviving /\ at[k] \in Surviving
      BY <1>3, <1>4, <1>7, <1>10, <2>1, <2>2
  <2>4. j = k
      BY <1>3, <1>4, <2>3, SurvivingTypes
  <2> QED BY <2>1, <2>2, <2>4
<1> QED BY <1>1, <1>2, <1>8, <1>9, <1>10 DEF TypedInv

LEMMA NextTyped == Shape /\ MatchesInv /\ TypedInv /\ [Next]_vars => TypedInv'
<1> SUFFICES ASSUME Shape, MatchesInv, TypedInv, [Next]_vars PROVE TypedInv'
    OBVIOUS
<1> USE DEF configVars, outVars
<1>1. CASE phase = "registering"
  <2>1. (phase' \in {"registering", "built", "rejected"} /\ results' = <<>>)
      BY <1>1 DEF Shape, Next, vars, AddType, AddIncompatible, AddRule, Build, Process, RuleThrows,
                  RuleDoesNotMatch, LegacyRuleMatches, TypedRuleMatches, Resolve,
                  ComputeActiveDecisions
  <2> QED BY <2>1 DEF TypedInv, Typed
<1>2. CASE Process
  <2>1. Typed' = Typed
      BY <1>2 DEF Process, Typed, UseMulti
  <2> QED BY <1>2, <2>1 DEF Process, TypedInv
<1>3. CASE RuleThrows \/ LegacyRuleMatches
  <2>1. /\ phase = "evaluating" /\ phase' = phase
        /\ UNCHANGED <<rules, settings>>
      BY <1>3 DEF RuleThrows, LegacyRuleMatches
  <2>2. UseMulti' <=> UseMulti
      BY <2>1 DEF UseMulti
  <2>3. PICK x \in PolicyResult : /\ results' = Append(results, x)
                                  /\ x.skipped \/ ~UseMulti \/ x.rule.type = {}
    <3>1. CASE RuleThrows
      <4> DEFINE x == [rule |-> rules[next], skipped |-> TRUE,
                       verdict |-> IF settings.failClosed THEN Block ELSE Pass]
      <4>1. x \in PolicyResult /\ x.skipped
          BY <3>1 DEF RuleThrows, Shape, PolicyResult, Acts, Block, Pass
      <4>2. results' = Append(results, x)
          BY <3>1 DEF RuleThrows
      <4> HIDE DEF x
      <4> QED BY <4>1, <4>2
    <3>2. CASE LegacyRuleMatches
      <4>1. /\ rules[next] \in RulesToAdd /\ results' = Append(results, ResultOf(rules[next]))
            /\ ~UseMulti \/ rules[next].type = {}
          BY <3>2 DEF LegacyRuleMatches, Shape
      <4> QED BY <4>1, ResultOfType
    <3> QED BY <1>3, <3>1, <3>2
  <2>4. /\ DOMAIN results' = DOMAIN results \cup {Len(results) + 1}
        /\ results'[Len(results) + 1] = x
        /\ \A k \in DOMAIN results : results'[k] = results[k]
      BY <2>3 DEF Shape
  <2>5. Typed' = {}
      BY <2>1, <2>2, <2>3, <2>4 DEF TypedInv, Typed
  <2> QED BY <2>1, <2>5 DEF TypedInv
<1>4. CASE RuleDoesNotMatch \/ TypedRuleMatches
  <2>1. phase = "evaluating" /\ phase' = phase /\ UNCHANGED <<rules, settings, results>>
      BY <1>4 DEF RuleDoesNotMatch, TypedRuleMatches
  <2>2. Typed' = Typed
      BY <2>1 DEF Typed, UseMulti
  <2> QED BY <2>1, <2>2 DEF TypedInv
<1>5. CASE Resolve
    BY <1>5, ResolveTyped
<1>6. CASE ComputeActiveDecisions \/ UNCHANGED vars
  <2>1. /\ phase' = phase \/ (phase = "decided" /\ phase' = "done")
        /\ UNCHANGED <<types, pairs, rules, settings, results, matches>>
      BY <1>6 DEF ComputeActiveDecisions, vars
  <2>2. Typed' = Typed /\ Surviving' = Surviving
      BY <2>1 DEF Typed, UseMulti, Surviving, Deduped, Losers, Fired
  <2> QED BY <2>1, <2>2 DEF TypedInv
<1> QED BY <1>1, <1>2, <1>3, <1>4, <1>5, <1>6 DEF Next, AddType, AddIncompatible, AddRule, Build

\* The active decisions are the surviving matches, one for each, sorted by the
\* priority of their types.
ActiveInv ==
  phase = "done" =>
    /\ \A k \in DOMAIN active : \E i \in Surviving : active[k] = matches[i]
    /\ \A i \in Surviving : \E k \in DOMAIN active : active[k] = matches[i]
    /\ \A j, k \in DOMAIN active : active[j].type = active[k].type => j = k
    /\ \A j, k \in DOMAIN active : j < k => PriorityOf(active[j]) <= PriorityOf(active[k])

LEMMA NextActive == Shape /\ TypedInv /\ ActiveInv /\ [Next]_vars => ActiveInv'
<1> SUFFICES ASSUME Shape, TypedInv, ActiveInv, [Next]_vars PROVE ActiveInv'
    OBVIOUS
<1> USE DEF configVars, outVars
<1>1. CASE ComputeActiveDecisions
  <2> DEFINE rs == [j \in Typed |-> results[j].rule]
  <2>1. phase = "decided" /\ UNCHANGED <<types, pairs, rules, settings, matches>>
      BY <1>1 DEF ComputeActiveDecisions
  <2>2. Surviving' = Surviving /\ \A r : PriorityOf(r)' = PriorityOf(r)
      BY <2>1 DEF Surviving, Deduped, Losers, Fired, PriorityOf
  <2>3. /\ Lists(active', Len(active'), rs, Typed)
        /\ \A j, k \in DOMAIN active' : j < k => PriorityOf(active'[j]) <= PriorityOf(active'[k])
      BY <1>1, ActiveShape
  <2>4. PICK at \in [1..Len(active') -> Typed] :
          /\ \A k \in 1..Len(active') : active'[k] = rs[at[k]]
          /\ \A j, k \in 1..Len(active') : at[j] = at[k] => j = k
          /\ \A i \in Typed : \E k \in 1..Len(active') : at[k] = i
    <3> HIDE DEF rs
    <3> QED BY <2>3 DEF Lists
  <2>5. DOMAIN active' = 1..Len(active')
      BY <2>3 DEF Lists
  <2>6. \A k \in DOMAIN active' : at[k] \in Typed /\ active'[k] = results[at[k]].rule
      BY <2>4, <2>5
  <2>7. \A k \in DOMAIN active' : \E i \in Surviving : active'[k] = matches[i]
      BY <2>1, <2>6 DEF TypedInv
  <2>8. \A i \in Surviving : \E k \in DOMAIN active' : active'[k] = matches[i]
    <3> SUFFICES ASSUME NEW i \in Surviving PROVE \E k \in DOMAIN active' : active'[k] = matches[i]
        OBVIOUS
    <3>1. PICK m \in Typed : results[m].rule = matches[i]
        BY <2>1 DEF TypedInv
    <3>2. PICK k \in DOMAIN active' : at[k] = m
        BY <2>4, <2>5
    <3> QED BY <2>6, <3>1, <3>2
  <2>9. \A j, k \in DOMAIN active' : active'[j].type = active'[k].type => j = k
    <3> SUFFICES ASSUME NEW j \in DOMAIN active', NEW k \in DOMAIN active',
                        active'[j].type = active'[k].type
                 PROVE  j = k
        OBVIOUS
    <3>1. at[j] = at[k]
        BY <2>1, <2>6 DEF TypedInv
    <3> QED BY <2>4, <2>5, <3>1
  <2>10. (\A j, k \in DOMAIN active : j < k => PriorityOf(active[j]) <= PriorityOf(active[k]))'
      BY <2>1, <2>3 DEF PriorityOf
  <2> QED BY <2>1, <2>2, <2>7, <2>8, <2>9, <2>10 DEF ActiveInv
<1>2. CASE phase' # "done"
    BY <1>2 DEF ActiveInv
<1>3. CASE UNCHANGED vars
  <2>1. Surviving' = Surviving /\ \A r : PriorityOf(r)' = PriorityOf(r)
      BY <1>3 DEF vars, Surviving, Deduped, Losers, Fired, PriorityOf
  <2>2. active' = active /\ phase' = phase /\ matches' = matches /\ types' = types
      BY <1>3 DEF vars
  <2> QED BY <2>1, <2>2 DEF ActiveInv, PriorityOf
<1> QED BY <1>1, <1>2, <1>3 DEF Next, AddType, AddIncompatible, AddRule, Build, Process,
                                RuleThrows, RuleDoesNotMatch, LegacyRuleMatches,
                                TypedRuleMatches, Resolve

-------------------------------------------------------------------------------
(* The theorems. *)

\* Everything together.
Inv ==
  /\ Shape /\ BuiltIsResolved /\ Ordered /\ MatchesInv
  /\ SkippedInv /\ VerdictInv /\ TypedInv /\ ActiveInv

\* Every reachable state has the shape the stage's loops rely on, and the relations
\* between rules, matches, results and decisions above hold in it.
THEOREM Invariant == Spec => []Inv
<1>1. Init => Inv
  <2> SUFFICES ASSUME Init PROVE Inv
      OBVIOUS
  <2>1. Shape
      BY InitShape
  <2>2. BuiltIsResolved /\ TypedInv /\ ActiveInv
      BY DEF Init, BuiltIsResolved, TypedInv, ActiveInv
  <2>3. Ordered
      BY DEF Init, Ordered
  <2>4. MatchesInv
      BY DEF Init, MatchesInv
  <2>5. VerdictInv /\ SkippedInv
      BY DEF Init, VerdictInv, SkippedInv, Acting, Pass
  <2> QED BY <2>1, <2>2, <2>3, <2>4, <2>5 DEF Inv
<1>2. Inv /\ [Next]_vars => Inv'
    BY NextShape, NextResolved, NextOrdered, NextMatches, NextSkipped, NextVerdict, NextTyped,
       NextActive DEF Inv
<1> QED BY <1>1, <1>2, PTL DEF Spec

\* A configuration that build() accepted asks with StageVerdictIs only about stages the
\* pipeline has, however deep in a rule, and names no unknown decision type.
THEOREM BuildResolves == Spec => []BuiltIsResolved
<1>1. Inv => BuiltIsResolved
    BY DEF Inv
<1> QED BY <1>1, Invariant, PTL

\* The verdict of process() is the strictest among the results it reports, unless a
\* rule threw under FailClosed, and without multi-decisions at most one rule matches.
THEOREM VerdictIsReported == Spec => []VerdictOfReported
<1>1. Inv => VerdictOfReported
  <2> SUFFICES ASSUME Inv PROVE VerdictOfReported
      OBVIOUS
  <2>1. Acting \subseteq Acts /\ Acting # {}
      BY ActingVerdicts DEF Inv, Acting
  <2>2. Max(Acting) \in Acting /\ \A v \in Acting : Max(Acting) >= v
      BY <2>1, MaxOfActs
  <2>3. verdict = Max(Acting)
    <3>1. /\ verdict \in Acting /\ verdict >= Max(Acting) /\ Max(Acting) >= verdict
          /\ verdict \in Acts /\ Max(Acting) \in Acts
        BY <2>1, <2>2 DEF Inv, VerdictInv
    <3> QED BY <3>1 DEF Acts
  <2>4. ~UseMulti => Len(matched) <= 1
    <3> SUFFICES ASSUME ~UseMulti PROVE Len(matched) <= 1
        OBVIOUS
    <3>1. matched = <<>> \/ Len(matched) = 1
        BY DEF Inv, MatchesInv
    <3>2. Len(matched) \in Nat /\ (matched = <<>> => Len(matched) = 0)
        BY DEF Inv, Shape
    <3> QED BY <3>1, <3>2
  <2>5. ~(settings.failClosed /\ degraded) =>
          Acting = {Pass} \cup {results[k].verdict : k \in DOMAIN results}
      BY DEF Inv, SkippedInv, Acting
  <2> QED BY <2>3, <2>4, <2>5 DEF VerdictOfReported
<1> QED BY <1>1, Invariant, PTL

\* The first match of a decision type is the only surviving candidate for it.
LEMMA FirstOfType ==
  ASSUME Inv, NEW t \in Fired
  PROVE  \E k \in Deduped : matches[k].type = {t}
<1> DEFINE T == {k \in DOMAIN matches : t \in matches[k].type}
<1>1. T \subseteq Nat /\ T # {}
    BY DEF Inv, Shape, Fired
<1>2. PICK k \in T : \A y \in T : k <= y
  <2> HIDE DEF T
  <2> QED BY <1>1, Least
<1>3. /\ DOMAIN matches = 1..Len(matches) /\ Len(matches) \in Nat
      /\ \A i \in DOMAIN matches : matches[i] \in RulesToAdd
    BY DEF Inv, Shape
<1>4. matches[k].type = {t}
    BY <1>2, <1>3, PolicyAssumption
<1>5. k \in Deduped
  <2> SUFFICES ASSUME NEW j \in 1..k - 1, matches[j].type = matches[k].type PROVE FALSE
      BY <1>2 DEF Deduped
  <2>1. j \in DOMAIN matches /\ j < k /\ j \in Nat /\ k \in Nat
      BY <1>2, <1>3
  <2>2. k <= j
      BY <1>2, <1>4, <2>1
  <2> QED BY <2>1, <2>2
<1> QED BY <1>4, <1>5

\* What is active fired, and lost against no other type.
LEMMA ActiveSurvived ==
  ASSUME Inv, phase = "done", NEW k \in DOMAIN active
  PROVE  \E i \in Surviving :
           /\ active[k] = matches[i]
           /\ \E t : active[k].type = {t} /\ t \in Fired /\ t \notin Losers /\ t \in DOMAIN types
<1>1. PICK i \in Surviving : active[k] = matches[i]
    BY DEF Inv, ActiveInv
<1>2. /\ i \in DOMAIN matches /\ matches[i].type \cap Losers = {} /\ matches[i].type # {}
      /\ matches[i].type \subseteq DOMAIN types /\ matches[i] \in RulesToAdd
    BY DEF Inv, MatchesInv, Shape, Surviving, Deduped
<1>3. PICK t \in matches[i].type : TRUE
    BY <1>2
<1>4. matches[i].type = {t}
    BY <1>2, <1>3, PolicyAssumption
<1>5. t \in Fired
    BY <1>2, <1>3 DEF Fired
<1> QED BY <1>1, <1>2, <1>3, <1>4, <1>5

\* No two active decisions are incompatible and no two are of one type, however
\* the declared pairs are chained.
THEOREM ActiveCompatible == Spec => []ActiveAreCompatible
<1>1. Inv => ActiveAreCompatible
  <2> SUFFICES ASSUME Inv PROVE ActiveAreCompatible
      OBVIOUS
  <2>1. CASE phase # "done"
      BY <2>1 DEF Inv, Shape, ActiveAreCompatible, ActiveTypes
  <2>2. CASE phase = "done"
    <3>1. \A a \in ActiveTypes : a \in Fired /\ a \notin Losers
      <4> SUFFICES ASSUME NEW k \in DOMAIN active, NEW a \in active[k].type
                   PROVE  a \in Fired /\ a \notin Losers
          BY DEF ActiveTypes
      <4> QED BY <2>2, ActiveSurvived
    <3>2. ASSUME NEW a \in ActiveTypes, NEW b \in ActiveTypes, <<a, b>> \in pairs PROVE FALSE
      <4>1. a \in Fired /\ b \in Fired /\ a \notin Losers /\ b \notin Losers
          BY <3>1
      <4>2. (IF types[a] <= types[b] THEN b ELSE a) \in Losers
          BY <3>2, <4>1 DEF Losers
      <4> QED BY <4>1, <4>2
    <3>3. \A i, j \in DOMAIN active : active[i].type = active[j].type => i = j
        BY <2>2 DEF Inv, ActiveInv
    <3> QED BY <3>2, <3>3 DEF ActiveAreCompatible, Incompatible
  <2> QED BY <2>1, <2>2
<1> QED BY <1>1, Invariant, PTL

\* What it takes for a type to lose.
LEMMA LosersLost ==
  ASSUME Inv, NEW t \in Losers
  PROVE  \E u \in Fired : /\ Incompatible(t, u) /\ types[u] <= types[t]
                          /\ u \in DOMAIN types /\ t \in DOMAIN types
                          /\ u = t => <<t, t>> \in pairs
<1>1. PICK p \in pairs : /\ p[1] \in Fired /\ p[2] \in Fired
                         /\ t = IF types[p[1]] <= types[p[2]] THEN p[2] ELSE p[1]
    BY DEF Losers
<1>2. p[1] \in DOMAIN types /\ p[2] \in DOMAIN types /\ p = <<p[1], p[2]>>
    BY <1>1 DEF Inv, Shape
<1>3. types[p[1]] \in Nat /\ types[p[2]] \in Nat
    BY <1>2 DEF Inv, Shape
<1>4. CASE types[p[1]] <= types[p[2]]
    BY <1>1, <1>2, <1>3, <1>4 DEF Incompatible
<1>5. CASE ~(types[p[1]] <= types[p[2]])
    BY <1>1, <1>2, <1>3, <1>5 DEF Incompatible
<1> QED BY <1>4, <1>5

\* A decision type that fired is missing from the active decisions only because of
\* an incompatible type that fired and has at least its precedence.
THEOREM SuppressionHasAReason == Spec => []SuppressedForAReason
<1>1. Inv => SuppressedForAReason
  <2> SUFFICES ASSUME Inv, phase = "done", NEW t \in Fired \ ActiveTypes
               PROVE  \E u \in Fired : Incompatible(t, u) /\ types[u] <= types[t]
      BY DEF SuppressedForAReason
  <2>1. PICK k \in Deduped : matches[k].type = {t}
      BY FirstOfType
  <2>2. k \notin Surviving
    <3> SUFFICES ASSUME k \in Surviving PROVE FALSE
        OBVIOUS
    <3>1. PICK m \in DOMAIN active : active[m] = matches[k]
        BY DEF Inv, ActiveInv
    <3> QED BY <2>1, <3>1 DEF ActiveTypes
  <2>3. t \in Losers
      BY <2>1, <2>2 DEF Surviving
  <2> QED BY <2>3, LosersLost
<1> QED BY <1>1, Invariant, PTL

\* The fired type with the highest precedence, if it shares its priority with no
\* other and is not incompatible with itself, is the first active decision; and
\* each decision is attributed to a matched rule of its type with the least
\* priority number.
THEOREM TopComesFirst == Spec => []TopDecisionFirst
<1>1. Inv => TopDecisionFirst
  <2> SUFFICES ASSUME Inv, phase = "done" PROVE TopDecisionFirst
      BY DEF TopDecisionFirst
  <2>0. \A u \in DOMAIN types : types[u] \in Nat
      BY DEF Inv, Shape
  <2>1. ASSUME NEW t \in Fired, <<t, t>> \notin pairs,
               \A u \in Fired \ {t} : types[t] < types[u]
        PROVE  active # <<>> /\ active[1].type = {t}
    <3>1. t \notin Losers
      <4> SUFFICES ASSUME t \in Losers PROVE FALSE
          OBVIOUS
      <4>1. PICK u \in Fired : /\ types[u] <= types[t] /\ u \in DOMAIN types /\ t \in DOMAIN types
                               /\ u = t => <<t, t>> \in pairs
          BY LosersLost
      <4>2. types[t] < types[u] /\ types[t] \in Nat /\ types[u] \in Nat
          BY <2>0, <2>1, <4>1
      <4> QED BY <4>1, <4>2
    <3>2. PICK k \in Deduped : matches[k].type = {t}
        BY FirstOfType
    <3>3. k \in Surviving
        BY <3>1, <3>2 DEF Surviving
    <3>4. PICK m \in DOMAIN active : active[m] = matches[k]
        BY <3>3 DEF Inv, ActiveInv
    <3>5. active \in Seq(RulesToAdd) /\ 1 \in DOMAIN active /\ m \in Nat /\ m >= 1
        BY <3>4 DEF Inv, Shape
    <3>6. PICK u : active[1].type = {u} /\ u \in Fired /\ u \in DOMAIN types
        BY <3>5, ActiveSurvived
    <3>7. CASE u = t
        BY <3>5, <3>6, <3>7
    <3>8. CASE u # t
      <4>1. m # 1
          BY <3>2, <3>4, <3>6, <3>8
      <4>2. PriorityOf(active[1]) <= PriorityOf(active[m])
          BY <3>4, <3>5, <4>1 DEF Inv, ActiveInv
      <4>3. PriorityOf(active[1]) = types[u] /\ PriorityOf(active[m]) = types[t]
          BY <3>2, <3>4, <3>6 DEF PriorityOf
      <4>4. t \in DOMAIN types
          BY <2>1, <3>2 DEF Inv, MatchesInv, Deduped
      <4>5. types[t] < types[u] /\ types[t] \in Nat /\ types[u] \in Nat
          BY <2>0, <2>1, <3>6, <3>8, <4>4
      <4> QED BY <4>2, <4>3, <4>5
    <3> QED BY <3>7, <3>8
  <2>2. ASSUME NEW k \in DOMAIN active, NEW j \in DOMAIN matched,
               matched[j].type = active[k].type
        PROVE  active[k].priority <= matched[j].priority
    <3>1. PICK i \in Surviving : active[k] = matches[i] /\ active[k].type # {}
      <4>1. PICK i \in Surviving : active[k] = matches[i] /\ \E t : active[k].type = {t}
          BY ActiveSurvived
      <4> QED BY <4>1
    <3>2. i \in Deduped /\ i \in DOMAIN matches /\ UseMulti
        BY DEF Surviving, Deduped, Inv, MatchesInv
    <3>3. PICK n \in DOMAIN matches : matches[n] = matched[j]
        BY <2>2, <3>1, <3>2 DEF Inv, MatchesInv
    <3>4. i \in Nat /\ n \in Nat /\ n >= 1 /\ \A q \in DOMAIN matches : matches[q].priority \in Nat
        BY <3>2, PolicyAssumption DEF Inv, Shape
    <3>5. ~(n < i)
      <4> SUFFICES ASSUME n < i PROVE FALSE
          OBVIOUS
      <4>1. n \in 1..i - 1
          BY <3>4
      <4> QED BY <2>2, <3>1, <3>2, <3>3, <4>1 DEF Deduped
    <3>6. CASE i = n
        BY <3>1, <3>3, <3>4, <3>6
    <3>7. CASE i < n
        BY <3>1, <3>2, <3>3, <3>7 DEF Inv, Ordered
    <3> QED BY <3>4, <3>5, <3>6, <3>7
  <2> QED BY <2>1, <2>2 DEF TopDecisionFirst
<1> QED BY <1>1, Invariant, PTL
===============================================================================
