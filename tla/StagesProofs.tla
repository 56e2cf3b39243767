----------------------------- MODULE StagesProofs -----------------------------
(***************************************************************************)
(* Proofs about Stages, for any numbers of evaluators, outcomes and        *)
(* configurations: every inference evaluator has its own result unless a   *)
(* thread was left behind before it, the decision reports exactly what     *)
(* went wrong, and FailClosed blocks.                                      *)
(***************************************************************************)
EXTENDS Stages, TLAPS

-------------------------------------------------------------------------------
(* What the stages compute. *)

LEMMA MaxOfTwo ==
  ASSUME NEW m \in Nat, NEW n \in Nat
  PROVE  Max({m, n}) \in Nat /\ m <= Max({m, n}) /\ n <= Max({m, n})
<1>1. \E x \in {m, n} : \A y \in {m, n} : x >= y
    OBVIOUS
<1> QED BY <1>1 DEF Max

\* The strictest of some verdicts is a verdict, and a Block if there is one.
LEMMA StrictestVerdict ==
  ASSUME NEW S, S \subseteq Verdict
  PROVE  /\ Strictest(S) \in Verdict
         /\ Block \in S => Strictest(S) = Block
<1> USE DEF Verdict, Pass, Flag, Block
<1>1. CASE S = {}
    BY <1>1 DEF Strictest
<1>2. CASE S # {}
  <2>1. \E x \in S : \A y \in S : x >= y
    <3>1. CASE 2 \in S
        BY <3>1
    <3>2. CASE 2 \notin S /\ 1 \in S
        BY <3>2
    <3>3. CASE 2 \notin S /\ 1 \notin S
      <4>1. PICK z \in S : z = 0
          BY <1>2, <3>3
      <4>2. \A y \in S : y = 0
          BY <3>3
      <4> QED BY <4>1, <4>2
    <3> QED BY <3>1, <3>2, <3>3
  <2>2. Max(S) \in S /\ \A y \in S : Max(S) >= y
      BY <2>1 DEF Max
  <2>3. Strictest(S) = Max(S)
      BY <1>2 DEF Strictest
  <2>4. Max(S) \in Verdict
      BY <2>2
  <2>5. 2 \in S => Max(S) = 2
    <3>1. 2 \in S => Max(S) >= 2
        BY <2>2
    <3> QED BY <2>4, <3>1
  <2> QED BY <2>3, <2>4, <2>5
<1> QED BY <1>1, <1>2

LEMMA ResultsVerdicts ==
  ASSUME NEW rs \in Seq(Result)
  PROVE  Verdicts(rs) \subseteq Verdict
<1> SUFFICES ASSUME NEW k \in DOMAIN rs PROVE rs[k].verdict \in Verdict
    BY DEF Verdicts
<1>1. rs[k] \in Result
    OBVIOUS
<1> QED BY <1>1 DEF Result

LEMMA ComposeVerdict ==
  ASSUME NEW rule \in {"AnyBlock", "AnyFlag", "Unanimous", "Majority", "WeightedScore"},
         NEW rs \in Seq(Result)
  PROVE  /\ Compose(rule, rs) \in Verdict
         /\ rule \in {"AnyBlock", "AnyFlag"} /\ Block \in Verdicts(rs) => Compose(rule, rs) = Block
<1>1. Strictest(Verdicts(rs)) \in Verdict
    BY ResultsVerdicts, StrictestVerdict
<1>2. Block \in Verdicts(rs) => rs # <<>> /\ Strictest(Verdicts(rs)) = Block
    BY ResultsVerdicts, StrictestVerdict DEF Verdicts
<1>3. CASE rs = <<>> \/ rule = "WeightedScore"
    BY <1>2, <1>3 DEF Compose, Verdict
<1>4. CASE rs # <<>> /\ rule \in {"AnyBlock", "AnyFlag"}
    BY <1>1, <1>2, <1>4 DEF Compose
<1>5. CASE rs # <<>> /\ rule = "Unanimous"
    BY <1>5 DEF Compose, Verdict
<1>6. CASE rs # <<>> /\ rule = "Majority"
    BY <1>6 DEF Compose, Verdict
<1> QED BY <1>3, <1>4, <1>5, <1>6

LEMMA ComposeInferenceVerdict ==
  ASSUME NEW rule, NEW rs \in Seq(Result)
  PROVE  /\ ComposeInference(rule, rs) \in Verdict
         /\ rule = "AnyBlock" /\ Block \in Verdicts(rs) => ComposeInference(rule, rs) = Block
<1>1. Strictest(Verdicts(rs)) \in Verdict
    BY ResultsVerdicts, StrictestVerdict
<1>2. Block \in Verdicts(rs) => Strictest(Verdicts(rs)) = Block
    BY ResultsVerdicts, StrictestVerdict
<1> QED BY <1>1, <1>2 DEF ComposeInference, Verdict

LEMMA FailureResult ==
  ASSUME NEW mode, NEW k \in Nat
  PROVE  /\ ApplyFailureMode(mode, k) \in Result
         /\ ApplyFailureMode(mode, k).from = k
         /\ mode = "FailClosed" => ApplyFailureMode(mode, k).verdict = Block
BY DEF ApplyFailureMode, Result, Verdict

LEMMA OutcomeResult ==
  ASSUME NEW o \in Outcomes, NEW k \in Nat
  PROVE  ResultOf(o, k) \in Result /\ ResultOf(o, k).from = k
BY StagesAssumption DEF ResultOf, Result, Outcome

\* A result that is appended adds its verdict.
LEMMA AppendVerdict ==
  ASSUME NEW S, NEW s \in Seq(S), NEW x \in S
  PROVE  Verdicts(Append(s, x)) = Verdicts(s) \cup {x.verdict}
<1>1. /\ DOMAIN Append(s, x) = DOMAIN s \cup {Len(s) + 1}
      /\ \A k \in DOMAIN s : Append(s, x)[k] = s[k]
      /\ Append(s, x)[Len(s) + 1] = x
    OBVIOUS
<1> QED BY <1>1 DEF Verdicts
-------------------------------------------------------------------------------
(* Type correctness. *)

\* The coroutine is in an iteration of the inference loop.
Busy == pc \in {"poll", "join", "collect"}

\* TypeOK made inductive: an iteration is that of an evaluator the stage has.
Types == TypeOK /\ (Busy => index \in Inference)

Output == [verdict : Verdict, degraded : SUBSET DegradedReason]

Held == [from : Inference, outcome : Outcomes]

LEMMA OutputFields ==
  ASSUME NEW s \in Seq(Output), NEW k \in DOMAIN s
  PROVE  s[k].verdict \in Verdict /\ s[k].degraded \subseteq DegradedReason
<1>1. s[k] \in Output
    OBVIOUS
<1> QED BY <1>1 DEF Output

LEMMA HeldFields ==
  ASSUME NEW h \in Seq(Held), h # <<>>
  PROVE  h[1].from \in Inference /\ h[1].outcome \in Outcomes
<1>1. h[1] \in Held
    OBVIOUS
<1> QED BY <1>1 DEF Held

\* The end of a stage.
LEMMA PushOutputType ==
  ASSUME TypeOK, NEW v \in Verdict, NEW d \in SUBSET DegradedReason, PushOutput(v, d)
  PROVE  /\ outputs' \in Seq(Output)
         /\ index' \in 1..Max({NumEvaluators, NumInference}) + 1
         /\ results' \in Seq(Result)
         /\ reasons' \subseteq DegradedReason
<1>1. [verdict |-> v, degraded |-> d] \in Output
    BY DEF Output
<1>2. outputs' \in Seq(Output)
    BY <1>1 DEF PushOutput, TypeOK, Output
<1>3. 1 \in 1..Max({NumEvaluators, NumInference}) + 1
    BY MaxOfTwo, StagesAssumption
<1> QED BY <1>2, <1>3 DEF PushOutput

LEMMA InitTypes == Init => Types
<1> SUFFICES ASSUME Init PROVE Types
    OBVIOUS
<1>1. 1 \in 1..Max({NumEvaluators, NumInference}) + 1
    BY MaxOfTwo, StagesAssumption
<1>2. completed \in BOOLEAN
    BY Zenon DEF Init
<1>3. config \in Config
    BY StagesAssumption DEF Init
<1>4. decision \in [verdict : Verdict, degraded : SUBSET DegradedReason]
    BY DEF Init, Undecided, Verdict
<1>5. ~Busy
    BY DEF Init, Busy
<1> QED BY <1>1, <1>2, <1>3, <1>4, <1>5 DEF Init, TypeOK, Types

\* What the policy stage adds.
LEMMA PolicyOutput ==
  ASSUME Policy
  PROVE  \E v \in Verdict, d \in {{}, {"EvaluatorError"}} :
           /\ PushOutput(v, d)
           /\ failed' = IF d # {} THEN failed \cup {"policy"} ELSE failed
<1>1. PICK v \in Verdict, throws \in BOOLEAN :
        /\ PushOutput(v, IF throws THEN {"EvaluatorError"} ELSE {})
        /\ failed' = IF throws THEN failed \cup {"policy"} ELSE failed
    BY DEF Policy
<1>2. CASE throws
    BY <1>1, <1>2
<1>3. CASE ~throws
    BY <1>1, <1>3
<1> QED BY <1>2, <1>3

LEMMA NextTypes == Types /\ [Next]_vars => Types'
<1> SUFFICES ASSUME Types, [Next]_vars PROVE Types'
    OBVIOUS
<1> USE DEF stageVars, frameVars
<1> DEFINE Top == Max({NumEvaluators, NumInference})
<1>0. Top \in Nat /\ NumEvaluators <= Top /\ NumInference <= Top
    BY MaxOfTwo, StagesAssumption
<1>a. index \in Nat /\ index \in 1..Top + 1 /\ TypeOK /\ (Busy => index \in Inference)
    BY <1>0 DEF Types, TypeOK
<1> HIDE DEF Top
<1>1. CASE Ingest
  <2>1. /\ outputs' \in Seq(Output) /\ index' \in 1..Max({NumEvaluators, NumInference}) + 1
        /\ results' \in Seq(Result) /\ reasons' \subseteq DegradedReason
    <3>1. (IF event = "late" THEN Flag ELSE Pass) \in Verdict
        BY DEF Verdict
    <3>2. (IF event \in {"invalid", "invalid_sync"} THEN {"IngestValidationFailed"} ELSE {})
            \in SUBSET DegradedReason
        BY DEF DegradedReason
    <3> QED BY <1>1, <1>a, <3>1, <3>2, PushOutputType DEF Ingest
  <2> QED BY <1>1, <1>a, <2>1 DEF Ingest, Types, TypeOK, Busy, Output
<1>2. CASE CallEvaluator
  <2>1. index' \in 1..Top + 1
      BY <1>0, <1>2, <1>a, StagesAssumption DEF CallEvaluator
  <2>2. PICK o \in Outcomes :
          \/ /\ results' = Append(results, ApplyFailureMode(config.evalFailure, index))
             /\ reasons' = reasons \cup {"EvaluatorError"}
             /\ failed' = failed \cup {"eval"}
          \/ /\ results' = Append(results, ResultOf(o, index))
             /\ UNCHANGED <<reasons, failed>>
      BY <1>2 DEF CallEvaluator
  <2>3. /\ ApplyFailureMode(config.evalFailure, index) \in Result
        /\ ResultOf(o, index) \in Result
      BY <1>a, FailureResult, OutcomeResult
  <2>4. results' \in Seq(Result) /\ reasons' \subseteq DegradedReason
        /\ failed' \subseteq {"eval", "inference", "policy"}
    <3>1. CASE results' = Append(results, ResultOf(o, index)) /\ UNCHANGED <<reasons, failed>>
        BY <1>a, <2>3, <3>1 DEF TypeOK
    <3>2. CASE /\ results' = Append(results, ApplyFailureMode(config.evalFailure, index))
               /\ reasons' = reasons \cup {"EvaluatorError"}
               /\ failed' = failed \cup {"eval"}
        BY <1>a, <2>3, <3>2 DEF TypeOK, DegradedReason
    <3> QED BY <2>2, <3>1, <3>2
  <2> QED BY <1>2, <1>a, <2>1, <2>4 DEF CallEvaluator, Types, TypeOK, Busy, Top
<1>3. CASE FinishEval
  <2>1. Compose(config.evalRule, results) \in Verdict
      BY <1>a, ComposeVerdict DEF TypeOK, Config
  <2>2. /\ outputs' \in Seq(Output) /\ index' \in 1..Max({NumEvaluators, NumInference}) + 1
        /\ results' \in Seq(Result) /\ reasons' \subseteq DegradedReason
      BY <1>3, <1>a, <2>1, PushOutputType DEF FinishEval, TypeOK
  <2> QED BY <1>3, <1>a, <2>2 DEF FinishEval, Types, TypeOK, Busy, Output
<1>4. CASE Spawn
  <2>1. completed' \in BOOLEAN
      BY <1>4, Zenon DEF Spawn
  <2>2. index' \in Inference
      BY <1>4, <1>a, StagesAssumption DEF Spawn, Inference
  <2> QED BY <1>4, <1>a, <2>1, <2>2 DEF Spawn, Types, TypeOK, Busy
<1>5. CASE Timeout
  <2>1. index' \in 1..Top + 1 /\ index \in Inference
      BY <1>0, <1>5, <1>a, StagesAssumption DEF Timeout, Busy, Inference
  <2>2. results' \in Seq(Result)
      BY <1>5, <1>a, FailureResult DEF Timeout, TypeOK
  <2> QED BY <1>5, <1>a, <2>1, <2>2 DEF Timeout, Types, TypeOK, Busy, DegradedReason, Top
<1>6. CASE Completed \/ Join
    BY <1>6, <1>a DEF Completed, Join, Types, TypeOK, Busy
<1>7. CASE Collect
  <2>1. index' \in 1..Top + 1
      BY <1>0, <1>7, <1>a, StagesAssumption DEF Collect, Busy, Inference
  <2>2. results' \in Seq(Result) /\ reasons' \subseteq DegradedReason
    <3>1. CASE holder = <<>>
        BY <1>7, <1>a, <3>1 DEF Collect, TypeOK
    <3>2. CASE holder # <<>>
      <4>1. holder[1].outcome \in Outcomes /\ holder[1].from \in Nat
        <5>1. holder \in Seq(Held)
            BY <1>a DEF TypeOK, Held
        <5> QED BY <3>2, <5>1, HeldFields DEF Inference
      <4>2. ResultOf(holder[1].outcome, holder[1].from) \in Result
          BY <4>1, OutcomeResult
      <4>3. ApplyFailureMode(config.inferenceFailure, index) \in Result
          BY <1>a, FailureResult
      <4>4. CASE holder[1].outcome.error
        <5>1. /\ results' = Append(results, ApplyFailureMode(config.inferenceFailure, index))
              /\ reasons' = reasons \cup {"EvaluatorError"}
            BY <1>7, <3>2, <4>4 DEF Collect
        <5> QED BY <1>a, <4>3, <5>1 DEF TypeOK, DegradedReason
      <4>5. CASE ~holder[1].outcome.error
        <5>1. /\ results' = Append(results, ResultOf(holder[1].outcome, holder[1].from))
              /\ reasons' = reasons
            BY <1>7, <3>2, <4>5 DEF Collect
        <5> QED BY <1>a, <4>2, <5>1 DEF TypeOK
      <4> QED BY <4>4, <4>5
    <3> QED BY <3>1, <3>2
  <2> QED BY <1>7, <1>a, <2>1, <2>2 DEF Collect, Types, TypeOK, Busy, Top
<1>8. CASE FinishInference
  <2>1. ComposeInference(config.inferenceRule, results) \in Verdict
      BY <1>a, ComposeInferenceVerdict DEF TypeOK
  <2>2. /\ outputs' \in Seq(Output) /\ index' \in 1..Max({NumEvaluators, NumInference}) + 1
        /\ results' \in Seq(Result) /\ reasons' \subseteq DegradedReason
      BY <1>8, <1>a, <2>1, PushOutputType DEF FinishInference, TypeOK
  <2> QED BY <1>8, <1>a, <2>2 DEF FinishInference, Types, TypeOK, Busy, Output
<1>9. CASE Policy
  <2>0. PICK v \in Verdict, d \in {{}, {"EvaluatorError"}} :
          /\ PushOutput(v, d)
          /\ failed' = IF d # {} THEN failed \cup {"policy"} ELSE failed
      BY <1>9, PolicyOutput
  <2>1. /\ outputs' \in Seq(Output) /\ index' \in 1..Max({NumEvaluators, NumInference}) + 1
        /\ results' \in Seq(Result) /\ reasons' \subseteq DegradedReason
      BY <2>0, <1>a, PushOutputType DEF DegradedReason
  <2>2. failed' \subseteq {"eval", "inference", "policy"}
      BY <2>0, <1>a DEF TypeOK
  <2> QED BY <1>9, <1>a, <2>1, <2>2 DEF Policy, Types, TypeOK, Busy, Output
<1>10. CASE Decide
  <2>1. Strictest(Verdicts(outputs)) \in Verdict
    <3>1. Verdicts(outputs) \subseteq Verdict
        BY <1>a, OutputFields DEF Verdicts, TypeOK, Output
    <3> QED BY <3>1, StrictestVerdict
  <2>2. UNION {outputs[k].degraded : k \in DOMAIN outputs} \in SUBSET DegradedReason
    <3>1. \A k \in DOMAIN outputs : outputs[k].degraded \subseteq DegradedReason
        BY <1>a, OutputFields DEF TypeOK, Output
    <3> QED BY <3>1
  <2> QED BY <1>10, <1>a, <2>1, <2>2 DEF Decide, Types, TypeOK, Busy
<1>11. ASSUME NEW k \in Inference, Assign(k) PROVE Types'
  <2>1. holder' \in Seq([from : Inference, outcome : Outcomes])
    <3>1. PICK o \in Outcomes : holder' \in {<<[from |-> k, outcome |-> o]>>, holder}
        BY <1>11 DEF Assign
    <3>2. [from |-> k, outcome |-> o] \in [from : Inference, outcome : Outcomes]
        OBVIOUS
    <3>3. <<[from |-> k, outcome |-> o]>> \in Seq([from : Inference, outcome : Outcomes])
        BY <3>2
    <3> QED BY <1>a, <3>1, <3>3 DEF TypeOK
  <2>2. failed' \subseteq {"eval", "inference", "policy"}
      BY <1>11, <1>a DEF Assign, TypeOK
  <2> QED BY <1>11, <1>a, <2>1, <2>2 DEF Assign, Types, TypeOK, Busy
<1>12. ASSUME NEW k \in Inference, Complete(k) PROVE Types'
  <2>1. completed' \in BOOLEAN
      BY <1>12, Zenon DEF Complete
  <2> QED BY <1>12, <1>a, <2>1 DEF Complete, Types, TypeOK, Busy
<1>13. CASE UNCHANGED vars
    BY <1>13, <1>a DEF vars, Types, TypeOK, Busy
<1> QED BY <1>1, <1>2, <1>3, <1>4, <1>5, <1>6, <1>7, <1>8, <1>9, <1>10, <1>11, <1>12, <1>13
        DEF Next, Coroutine

\* The type invariant: no stage asks for an evaluator it does not have, and every
\* verdict composed is one.
THEOREM TypeCorrect == Spec => []TypeOK
<1>1. Types => TypeOK
    BY DEF Types
<1> QED BY <1>1, InitTypes, NextTypes, PTL DEF Spec

-------------------------------------------------------------------------------
(* The threads of the inference stage. *)

\* Where the threads are: before its iteration an evaluator has none; after it,
\* the thread has finished or was left behind; in it, the thread has stored its
\* result before it is seen to be completed, and what the holder has is the
\* iteration's own or that of a thread left behind.
ThreadInv ==
  /\ pc \in {"ingest", "rejected", "eval"} =>
       late = {} /\ "inference" \notin failed /\ \A k \in Inference : worker[k] = "none"
  /\ pc = "spawn" \/ Busy =>
       /\ late \subseteq 1..index - 1
       /\ \A k \in Inference : k < index => k \in late \/ worker[k] = "finished"
       /\ \A k \in Inference : k > index => worker[k] = "none"
  /\ pc = "spawn" /\ index \in Inference => worker[index] = "none"
  /\ Busy =>
       /\ worker[index] \in {"running", "assigned", "finished"}
       /\ worker[index] = "running" /\ late = {} => holder = <<>>
       /\ worker[index] # "running" => holder # <<>>
       /\ holder # <<>> => holder[1].from \in late \cup {index}
  /\ pc = "collect" => worker[index] = "finished"
  /\ pc \in {"policy", "decide", "done"} =>
       \A k \in Inference : k \in late \/ worker[k] = "finished"

LEMMA InitThreadInv == Init => ThreadInv
BY DEF Init, ThreadInv, Busy

\* A thread that is at work belongs to the current iteration or was left behind.
LEMMA AtWork ==
  ASSUME Types, ThreadInv, NEW k \in Inference, worker[k] \in {"running", "assigned"}
  PROVE  \/ k \in late /\ pc \in {"spawn", "poll", "join", "collect", "policy", "decide", "done"}
         \/ k = index /\ k \notin late /\ pc \in {"poll", "join"}
<1>0. index \in Int /\ k \in Int
    BY MaxOfTwo, StagesAssumption DEF Types, TypeOK, Inference
<1>1. CASE pc \in {"ingest", "rejected", "eval"}
    BY <1>1 DEF ThreadInv
<1>2. CASE pc = "spawn"
    BY <1>0, <1>2 DEF ThreadInv
<1>3. CASE Busy
  <2>1. k > index => FALSE
      BY <1>3 DEF ThreadInv
  <2>2. k < index => k \in late
      BY <1>3 DEF ThreadInv
  <2>3. index \notin late
      BY <1>0, <1>3 DEF ThreadInv
  <2>4. k = index => pc \in {"poll", "join"}
      BY <1>3 DEF ThreadInv, Busy
  <2> QED BY <1>0, <1>3, <2>1, <2>2, <2>3, <2>4 DEF Busy
<1>4. CASE pc \in {"policy", "decide", "done"}
    BY <1>4 DEF ThreadInv
<1> QED BY <1>1, <1>2, <1>3, <1>4 DEF Types, TypeOK, Busy

LEMMA NextThreadInv == Types /\ Types' /\ ThreadInv /\ [Next]_vars => ThreadInv'
<1> SUFFICES ASSUME Types, Types', ThreadInv, [Next]_vars PROVE ThreadInv'
    OBVIOUS
<1> USE DEF stageVars, frameVars
<1>0. /\ index \in Nat \ {0} /\ index' \in Nat \ {0} /\ NumInference \in Nat
      /\ Inference = 1..NumInference
      /\ worker \in [Inference -> {"none", "running", "assigned", "finished"}]
    BY MaxOfTwo, StagesAssumption DEF Types, TypeOK, Inference
<1>1. CASE Ingest
    BY <1>1 DEF Ingest, ThreadInv, Busy
<1>2. CASE CallEvaluator
  <2>1. "inference" \notin failed'
      BY <1>2 DEF CallEvaluator, ThreadInv
  <2> QED BY <1>2, <2>1 DEF CallEvaluator, ThreadInv, Busy
<1>3. CASE FinishEval
  <2>1. pc' = "spawn" /\ index' = 1 /\ UNCHANGED <<late, worker>>
      BY <1>3 DEF FinishEval, PushOutput
  <2>2. late = {} /\ \A k \in Inference : worker[k] = "none"
      BY <1>3 DEF FinishEval, ThreadInv
  <2> QED BY <1>0, <2>1, <2>2 DEF ThreadInv, Busy
<1>4. CASE Spawn
  <2>1. index \in Inference
      BY <1>0, <1>4 DEF Spawn
  <2> QED BY <1>0, <1>4, <2>1 DEF Spawn, ThreadInv, Busy
<1>5. CASE Timeout
  <2>1. /\ pc = "poll" /\ pc' = "spawn" /\ index' = index + 1 /\ late' = late \cup {index}
        /\ UNCHANGED worker
      BY <1>5 DEF Timeout
  <2>2. /\ late \subseteq 1..index - 1
        /\ \A k \in Inference : k < index => k \in late \/ worker[k] = "finished"
        /\ \A k \in Inference : k > index => worker[k] = "none"
      BY <2>1 DEF ThreadInv, Busy
  <2>3. /\ late' \subseteq 1..index' - 1
        /\ \A k \in Inference : k < index' => k \in late' \/ worker'[k] = "finished"
        /\ \A k \in Inference : k > index' => worker'[k] = "none"
        /\ index' \in Inference => worker'[index'] = "none"
      BY <1>0, <2>1, <2>2
  <2> QED BY <2>1, <2>3 DEF ThreadInv, Busy
<1>6. CASE Completed \/ Join
    BY <1>6 DEF Completed, Join, ThreadInv, Busy
<1>7. CASE Collect
  <2>1. /\ pc = "collect" /\ pc' = "spawn" /\ index' = index + 1 /\ UNCHANGED <<late, worker>>
      BY <1>7 DEF Collect
  <2>2. /\ late \subseteq 1..index - 1
        /\ \A k \in Inference : k < index => k \in late \/ worker[k] = "finished"
        /\ \A k \in Inference : k > index => worker[k] = "none"
        /\ worker[index] = "finished"
      BY <2>1 DEF ThreadInv, Busy
  <2>3. /\ late' \subseteq 1..index' - 1
        /\ \A k \in Inference : k < index' => k \in late' \/ worker'[k] = "finished"
        /\ \A k \in Inference : k > index' => worker'[k] = "none"
        /\ index' \in Inference => worker'[index'] = "none"
      BY <1>0, <2>1, <2>2
  <2> QED BY <2>1, <2>3 DEF ThreadInv, Busy
<1>8. CASE FinishInference
  <2>1. pc' = "policy" /\ UNCHANGED <<late, worker>>
      BY <1>8 DEF FinishInference
  <2>2. \A k \in Inference : k \in late \/ worker[k] = "finished"
      BY <1>0, <1>8 DEF FinishInference, ThreadInv
  <2> QED BY <2>1, <2>2 DEF ThreadInv, Busy
<1>9. CASE Policy
    BY <1>9 DEF Policy, ThreadInv, Busy
<1>10. CASE Decide
    BY <1>10 DEF Decide, ThreadInv, Busy
<1>11. ASSUME NEW k \in Inference, Assign(k) PROVE ThreadInv'
  <2>1. PICK o \in Outcomes, lands \in Lands(k) :
          holder' = IF lands THEN <<[from |-> k, outcome |-> o]>> ELSE holder
      BY <1>11 DEF Assign
  <2>2. /\ worker[k] = "running"
        /\ worker' = [worker EXCEPT ![k] = "assigned"]
        /\ UNCHANGED <<pc, index, late>>
      BY <1>11 DEF Assign
  <2>3. holder' = holder \/ holder' = <<[from |-> k, outcome |-> o]>>
      BY <2>1
  <2>4. holder' # <<>> => holder' = holder \/ holder'[1].from = k
      BY <2>3
  <2>5. holder # <<>> => holder' # <<>>
      BY <2>3
  <2>6. CASE k \in late /\ pc \in {"spawn", "poll", "join", "collect", "policy", "decide", "done"}
    <3>1. Busy => worker[index] = worker'[index]
        BY <1>0, <2>2, <2>6 DEF ThreadInv
    <3>2. late # {}
        BY <2>6
    <3>3. pc = "spawn" /\ index \in Inference => worker'[index] = "none"
        BY <2>2, <1>0 DEF ThreadInv
    <3>4. pc = "spawn" \/ Busy =>
            \A j \in Inference : j > index => worker'[j] = "none"
        BY <2>2, <1>0 DEF ThreadInv
    <3>5. \A j \in Inference : j = k \/ worker'[j] = worker[j]
        BY <2>2, <1>0
    <3> QED BY <2>2, <2>4, <2>5, <2>6, <3>1, <3>2, <3>3, <3>4, <3>5 DEF ThreadInv, Busy
  <2>7. CASE k = index /\ k \notin late /\ pc \in {"poll", "join"}
    <3>1. holder' = <<[from |-> k, outcome |-> o]>>
        BY <2>1, <2>7 DEF Lands
    <3>2. holder' # <<>> /\ holder'[1].from = index
        BY <2>7, <3>1
    <3>3. /\ worker'[index] = "assigned"
          /\ \A j \in Inference : j = k \/ worker'[j] = worker[j]
        BY <1>0, <2>2, <2>7
    <3> QED BY <1>0, <2>2, <2>7, <3>2, <3>3 DEF ThreadInv, Busy
  <2> QED BY <2>2, <2>6, <2>7, AtWork
<1>12. ASSUME NEW k \in Inference, Complete(k) PROVE ThreadInv'
  <2>1. /\ worker[k] = "assigned"
        /\ worker' = [worker EXCEPT ![k] = "finished"]
        /\ UNCHANGED <<pc, index, late, holder, failed>>
      BY <1>12 DEF Complete
  <2>2. worker'[k] = "finished" /\ \A j \in Inference : j = k \/ worker'[j] = worker[j]
      BY <1>0, <2>1
  <2>3. pc = "spawn" \/ Busy => \A j \in Inference : j > index => worker'[j] = "none"
      BY <2>1, <2>2 DEF ThreadInv
  <2>4. pc = "spawn" /\ index \in Inference => worker'[index] = "none"
      BY <2>1, <2>2 DEF ThreadInv
  <2>5. pc \notin {"ingest", "rejected", "eval"}
      BY <2>1, AtWork
  <2>6. Busy => index \in Inference
      BY DEF Types
  <2> QED BY <2>1, <2>2, <2>3, <2>4, <2>5, <2>6 DEF ThreadInv, Busy
<1>13. CASE UNCHANGED vars
    BY <1>13 DEF vars, ThreadInv, Busy
<1> QED BY <1>1, <1>2, <1>3, <1>4, <1>5, <1>6, <1>7, <1>8, <1>9, <1>10, <1>11, <1>12, <1>13
        DEF Next, Coroutine

\* The next result is the iteration's own, or an evaluator was left behind before.
LEMMA AppendOwn ==
  ASSUME Types, ThreadInv, OwnResult, pc = "spawn" \/ Busy, NEW x \in Result,
         results' = Append(results, x), index' = index + 1, late \subseteq late',
         x.from = index \/ \E j \in late : j < index
  PROVE  OwnResult'
<1>0. index \in Nat \ {0} /\ results \in Seq(Result)
    BY MaxOfTwo, StagesAssumption DEF Types, TypeOK
<1>1. /\ Len(results) = index - 1
      /\ \A k \in 1..index - 1 : results[k].from # k => \E j \in late : j < k
    BY DEF OwnResult, Busy
<1>2. /\ Len(results') = index
      /\ results'[index] = x
      /\ \A k \in 1..index - 1 : results'[k] = results[k]
    BY <1>0, <1>1
<1>3. \A k \in 1..index : results'[k].from # k => \E j \in late' : j < k
  <2> SUFFICES ASSUME NEW k \in 1..index, results'[k].from # k PROVE \E j \in late' : j < k
      OBVIOUS
  <2>1. CASE k = index
      BY <1>2, <2>1
  <2>2. CASE k # index
    <3>1. k \in 1..index - 1
        BY <1>0, <2>2
    <3> QED BY <1>1, <1>2, <3>1
  <2> QED BY <2>1, <2>2
<1> QED BY <1>0, <1>2, <1>3 DEF OwnResult

LEMMA NextOwnResult ==
  Types /\ Types' /\ ThreadInv /\ OwnResult /\ [Next]_vars => OwnResult'
<1> SUFFICES ASSUME Types, Types', ThreadInv, OwnResult, [Next]_vars PROVE OwnResult'
    OBVIOUS
<1> USE DEF stageVars, frameVars
<1>0. index \in Nat
    BY MaxOfTwo, StagesAssumption DEF Types, TypeOK
<1>1. CASE UNCHANGED <<results, index, late>> /\ (pc = "spawn" \/ Busy)
    BY <1>1 DEF OwnResult, Busy
<1>2. CASE pc' \notin {"spawn", "poll", "join", "collect"}
    BY <1>2 DEF OwnResult
<1>3. CASE FinishEval
    BY <1>3 DEF FinishEval, PushOutput, OwnResult
<1>4. CASE Timeout
  <2>1. /\ ApplyFailureMode(config.inferenceFailure, index) \in Result
        /\ ApplyFailureMode(config.inferenceFailure, index).from = index
      BY <1>0, FailureResult
  <2> QED BY <1>4, <2>1, AppendOwn DEF Timeout, Busy
<1>5. CASE Collect
  <2>1. Busy /\ holder # <<>> /\ holder[1].from \in late \cup {index} /\ late \subseteq 1..index - 1
      BY <1>5 DEF Collect, ThreadInv, Busy
  <2>2. holder[1].from \in Nat /\ holder[1].outcome \in Outcomes
    <3>1. holder \in Seq(Held)
        BY DEF Types, TypeOK, Held
    <3> QED BY <2>1, <3>1, HeldFields DEF Inference
  <2>3. index' = index + 1 /\ late' = late
      BY <1>5 DEF Collect
  <2>4. CASE holder[1].outcome.error
    <3>1. results' = Append(results, ApplyFailureMode(config.inferenceFailure, index))
        BY <1>5, <2>1, <2>4 DEF Collect
    <3>2. /\ ApplyFailureMode(config.inferenceFailure, index) \in Result
          /\ ApplyFailureMode(config.inferenceFailure, index).from = index
        BY <1>0, FailureResult
    <3> QED BY <2>1, <2>3, <3>1, <3>2, AppendOwn
  <2>5. CASE ~holder[1].outcome.error
    <3> DEFINE x == ResultOf(holder[1].outcome, holder[1].from)
    <3>1. results' = Append(results, x)
        BY <1>5, <2>1, <2>5 DEF Collect
    <3>2. x \in Result /\ x.from = holder[1].from
        BY <2>2, OutcomeResult
    <3> HIDE DEF x
    <3>3. x.from = index \/ \E j \in late : j < index
      <4>1. \A j \in late : j < index
          BY <1>0, <2>1
      <4>2. x.from \in late \/ x.from = index
          BY <2>1, <3>2
      <4> QED BY <4>1, <4>2
    <3> QED BY <2>1, <2>3, <3>1, <3>2, <3>3, AppendOwn
  <2> QED BY <2>4, <2>5
<1>6. CASE Ingest \/ CallEvaluator \/ FinishInference \/ Policy \/ Decide
    BY <1>2, <1>6 DEF Ingest, CallEvaluator, FinishInference, Policy, Decide
<1>7. CASE Spawn \/ Completed \/ Join
    BY <1>1, <1>7 DEF Spawn, Completed, Join, Busy
<1>8. ASSUME NEW k \in Inference, Assign(k) \/ Complete(k) PROVE OwnResult'
    BY <1>8 DEF Assign, Complete, OwnResult
<1>9. CASE UNCHANGED vars
    BY <1>9 DEF vars, OwnResult
<1> QED BY <1>3, <1>4, <1>5, <1>6, <1>7, <1>8, <1>9 DEF Next, Coroutine

\* Every inference evaluator the loop has passed has one result, its own, unless
\* a thread before it was left behind.
THEOREM ResultsAreOwn == Spec => []OwnResult
<1>1. Init => OwnResult
    BY DEF Init, OwnResult
<1> QED BY <1>1, InitTypes, NextTypes, InitThreadInv, NextThreadInv, NextOwnResult, PTL DEF Spec

-------------------------------------------------------------------------------
(* The degraded reasons. *)

\* The iteration's evaluator has returned an error that is not yet accounted for.
PendingError == Busy /\ holder # <<>> /\ holder[1].outcome.error

\* The reasons of the stages that are over.
OfOutputs == UNION {outputs[k].degraded : k \in DOMAIN outputs}

\* What has been reported so far, the current stage included.
Reported == reasons \cup OfOutputs

\* DegradedExact made inductive: at every point of the event's way the reasons
\* reported are those of what has happened.
DegradedInv ==
  /\ pc = "ingest" => outputs = <<>>
  /\ pc \in {"ingest", "rejected", "policy", "decide", "done"} => reasons = {}
  /\ event = "invalid_sync" => pc \in {"ingest", "rejected"}
  /\ "EvaluatorTimeout" \in Reported <=> late # {}
  /\ "IngestValidationFailed" \in Reported <=>
       pc # "ingest" /\ event \in {"invalid", "invalid_sync"}
  /\ late = {} => (failed # {} <=> "EvaluatorError" \in Reported \/ PendingError)
  /\ pc = "done" => decision.degraded = Reported

\* An output that is appended adds its reasons.
LEMMA PushReported ==
  ASSUME Types, NEW v, NEW d, PushOutput(v, d)
  PROVE  OfOutputs' = OfOutputs \cup d /\ Reported' = OfOutputs \cup d
<1> DEFINE x == [verdict |-> v, degraded |-> d]
<1>1. outputs \in Seq(Output)
    BY DEF Types, TypeOK, Output
<1>2. outputs' = Append(outputs, x) /\ reasons' = {}
    BY DEF PushOutput
<1>3. /\ DOMAIN outputs' = DOMAIN outputs \cup {Len(outputs) + 1}
      /\ \A k \in DOMAIN outputs : outputs'[k] = outputs[k]
      /\ outputs'[Len(outputs) + 1] = x
    BY <1>1, <1>2
<1>4. OfOutputs' = OfOutputs \cup x.degraded
  <2> HIDE DEF x
  <2>1. ASSUME NEW r PROVE r \in OfOutputs' <=> \E k \in DOMAIN outputs' : r \in outputs'[k].degraded
      BY DEF OfOutputs
  <2>2. ASSUME NEW r PROVE r \in OfOutputs <=> \E k \in DOMAIN outputs : r \in outputs[k].degraded
      BY DEF OfOutputs
  <2> QED BY <1>3, <2>1, <2>2
<1> QED BY <1>2, <1>4 DEF Reported

LEMMA InitDegradedInv == Init => DegradedInv
<1> SUFFICES ASSUME Init PROVE DegradedInv
    OBVIOUS
<1>1. Reported = {}
    BY DEF Init, Reported, OfOutputs
<1>2. ~PendingError
    BY DEF Init, PendingError
<1> QED BY <1>1, <1>2 DEF Init, DegradedInv

\* What an evaluator's thread stores while no thread has been left behind.
LEMMA FirstStore ==
  ASSUME Types, ThreadInv, late = {}, NEW k \in Inference, Assign(k)
  PROVE  /\ pc \in {"poll", "join"} /\ holder = <<>>
         /\ \E o \in Outcomes : /\ holder' = <<[from |-> k, outcome |-> o]>>
                              /\ failed' = IF o.error THEN failed \cup {"inference"} ELSE failed
<1>1. worker[k] = "running"
    BY DEF Assign
<1>2. k = index /\ k \notin late /\ pc \in {"poll", "join"}
    BY <1>1, AtWork
<1>3. holder = <<>>
    BY <1>1, <1>2 DEF ThreadInv, Busy
<1>4. Lands(k) = {TRUE}
    BY <1>2 DEF Lands
<1> QED BY <1>2, <1>3, <1>4 DEF Assign

LEMMA NextDegradedInv ==
  Types /\ Types' /\ ThreadInv /\ DegradedInv /\ [Next]_vars => DegradedInv'
<1> SUFFICES ASSUME Types, Types', ThreadInv, DegradedInv, [Next]_vars PROVE DegradedInv'
    OBVIOUS
<1> USE DEF stageVars, frameVars
<1>0. ASSUME UNCHANGED outputs PROVE OfOutputs' = OfOutputs
    BY <1>0 DEF OfOutputs
<1>1. CASE Ingest
  <2> DEFINE d == IF event \in {"invalid", "invalid_sync"} THEN {"IngestValidationFailed"} ELSE {}
  <2>1. OfOutputs = {} /\ Reported = {} /\ late = {} /\ ~PendingError
      BY <1>1 DEF Ingest, DegradedInv, ThreadInv, OfOutputs, Reported, PendingError, Busy
  <2>2. Reported' = d /\ reasons' = {}
      BY <1>1, <2>1, PushReported DEF Ingest, PushOutput
  <2>3. failed = {}
      BY <2>1 DEF DegradedInv
  <2>4. /\ UNCHANGED <<event, late, failed>>
        /\ pc' = IF event = "invalid_sync" THEN "rejected" ELSE "eval"
      BY <1>1 DEF Ingest
  <2>5. ~PendingError'
      BY <2>4 DEF PendingError, Busy
  <2> QED BY <2>1, <2>2, <2>3, <2>4, <2>5 DEF DegradedInv
<1>2. CASE CallEvaluator
  <2>1. pc = "eval" /\ pc' = "eval" /\ UNCHANGED <<event, outputs, late>>
      BY <1>2 DEF CallEvaluator
  <2>2. \/ reasons' = reasons \cup {"EvaluatorError"} /\ failed' = failed \cup {"eval"}
        \/ UNCHANGED <<reasons, failed>>
      BY <1>2 DEF CallEvaluator
  <2>3. ~PendingError /\ ~PendingError'
      BY <2>1 DEF PendingError, Busy
  <2> QED BY <1>0, <2>1, <2>2, <2>3 DEF DegradedInv, Reported
<1>3. CASE FinishEval \/ FinishInference
  <2>1. /\ PushOutput(outputs'[Len(outputs')].verdict, reasons)
        /\ UNCHANGED <<event, late, failed>>
        /\ pc \in {"eval", "spawn"} /\ pc' \in {"spawn", "policy"}
    <3>1. outputs \in Seq(Output)
        BY DEF Types, TypeOK, Output
    <3> QED BY <1>3, <3>1 DEF FinishEval, FinishInference, PushOutput
  <2>2. Reported' = Reported /\ reasons' = {}
      BY <2>1, PushReported DEF Reported, PushOutput
  <2>3. ~PendingError /\ ~PendingError'
      BY <2>1 DEF PendingError, Busy
  <2> QED BY <2>1, <2>2, <2>3 DEF DegradedInv
<1>4. CASE Spawn
  <2>1. /\ pc = "spawn" /\ pc' = "poll" /\ UNCHANGED <<event, outputs, reasons, late, failed>>
        /\ holder' = <<>>
      BY <1>4 DEF Spawn
  <2>2. ~PendingError /\ ~PendingError'
      BY <2>1 DEF PendingError, Busy
  <2> QED BY <1>0, <2>1, <2>2 DEF DegradedInv, Reported
<1>5. CASE Timeout
  <2>1. /\ pc = "poll" /\ pc' = "spawn" /\ UNCHANGED <<event, outputs, failed>>
        /\ late' = late \cup {index} /\ reasons' = reasons \cup {"EvaluatorTimeout"}
      BY <1>5 DEF Timeout
  <2> QED BY <1>0, <2>1 DEF DegradedInv, Reported
<1>6. CASE Completed \/ Join
  <2>1. Busy /\ Busy' /\ UNCHANGED <<event, outputs, reasons, holder, late, failed>>
      BY <1>6 DEF Completed, Join, Busy
  <2>2. PendingError' <=> PendingError
      BY <2>1 DEF PendingError
  <2> QED BY <1>0, <2>1, <2>2 DEF DegradedInv, Reported, Busy
<1>7. CASE Collect
  <2>1. pc = "collect" /\ pc' = "spawn" /\ UNCHANGED <<event, outputs, late, failed>>
      BY <1>7 DEF Collect
  <2>2. holder # <<>>
      BY <2>1 DEF ThreadInv, Busy
  <2>3. ~PendingError' /\ (PendingError <=> holder[1].outcome.error)
      BY <2>1, <2>2 DEF PendingError, Busy
  <2>4. reasons' = IF holder[1].outcome.error THEN reasons \cup {"EvaluatorError"} ELSE reasons
      BY <1>7, <2>2 DEF Collect
  <2> QED BY <1>0, <2>1, <2>3, <2>4 DEF DegradedInv, Reported
<1>8. CASE Policy
  <2>0. PICK v \in Verdict, d \in {{}, {"EvaluatorError"}} :
          /\ PushOutput(v, d)
          /\ failed' = IF d # {} THEN failed \cup {"policy"} ELSE failed
      BY <1>8, PolicyOutput
  <2>1. UNCHANGED <<event, late>> /\ pc = "policy" /\ pc' = "decide"
      BY <1>8 DEF Policy
  <2>2. Reported = OfOutputs
      BY <2>1 DEF DegradedInv, Reported
  <2>3. Reported' = Reported \cup d /\ reasons' = {}
      BY <2>0, <2>2, PushReported DEF PushOutput
  <2>4. ~PendingError /\ ~PendingError'
      BY <2>1 DEF PendingError, Busy
  <2> QED BY <2>0, <2>1, <2>3, <2>4 DEF DegradedInv
<1>9. CASE Decide
  <2>1. pc = "decide" /\ pc' = "done" /\ UNCHANGED <<event, outputs, reasons, late, failed>>
      BY <1>9 DEF Decide
  <2>2. decision'.degraded = OfOutputs
      BY <1>9 DEF Decide, OfOutputs
  <2>3. Reported' = Reported /\ Reported = OfOutputs
      BY <1>0, <2>1 DEF DegradedInv, Reported
  <2>4. ~PendingError /\ ~PendingError'
      BY <2>1 DEF PendingError, Busy
  <2> QED BY <2>1, <2>2, <2>3, <2>4 DEF DegradedInv
<1>10. ASSUME NEW k \in Inference, Assign(k) PROVE DegradedInv'
  <2>1. UNCHANGED <<event, pc, outputs, reasons, decision, late>>
      BY <1>10 DEF Assign
  <2>2. Reported' = Reported
      BY <1>0, <2>1 DEF Reported
  <2>3. CASE late # {}
      BY <2>1, <2>2, <2>3 DEF DegradedInv
  <2>4. CASE late = {}
    <3>1. pc \in {"poll", "join"} /\ holder = <<>>
        BY <1>10, <2>4, FirstStore
    <3>2. PICK o \in Outcomes :
            /\ holder' = <<[from |-> k, outcome |-> o]>>
            /\ failed' = IF o.error THEN failed \cup {"inference"} ELSE failed
        BY <1>10, <2>4, FirstStore
    <3>3. ~PendingError
        BY <3>1 DEF PendingError
    <3>4. PendingError' <=> o.error
        BY <2>1, <3>1, <3>2 DEF PendingError, Busy
    <3> QED BY <2>1, <2>2, <2>4, <3>2, <3>3, <3>4 DEF DegradedInv
  <2> QED BY <2>3, <2>4
<1>11. ASSUME NEW k \in Inference, Complete(k) PROVE DegradedInv'
  <2>1. UNCHANGED <<event, pc, outputs, reasons, decision, late, holder, failed>>
      BY <1>11 DEF Complete
  <2>2. PendingError' <=> PendingError
      BY <2>1 DEF PendingError, Busy
  <2> QED BY <1>0, <2>1, <2>2 DEF DegradedInv, Reported
<1>12. CASE UNCHANGED vars
  <2>1. UNCHANGED <<event, pc, outputs, reasons, decision, late, holder, failed>>
      BY <1>12 DEF vars
  <2>2. PendingError' <=> PendingError
      BY <2>1 DEF PendingError, Busy
  <2> QED BY <1>0, <2>1, <2>2 DEF DegradedInv, Reported
<1> QED BY <1>1, <1>2, <1>3, <1>4, <1>5, <1>6, <1>7, <1>8, <1>9, <1>10, <1>11, <1>12
        DEF Next, Coroutine

\* The decision's degraded reasons are exactly those of what went wrong on the way.
THEOREM ReasonsAreExact == Spec => []DegradedExact
<1>1. DegradedInv => DegradedExact
  <2> SUFFICES ASSUME DegradedInv, pc = "done" PROVE DegradedExact
      BY DEF DegradedExact
  <2>1. decision.degraded = Reported /\ event # "invalid_sync" /\ ~PendingError
      BY DEF DegradedInv, PendingError, Busy
  <2> QED BY <2>1 DEF DegradedInv, DegradedExact
<1> QED BY <1>1, InitTypes, NextTypes, InitThreadInv, NextThreadInv, InitDegradedInv,
           NextDegradedInv, PTL DEF Spec

-------------------------------------------------------------------------------
(* FailClosed. *)

\* The eval stage has to block the event.
EvalBlocks ==
  /\ config.evalFailure = "FailClosed"
  /\ config.evalRule \in {"AnyBlock", "AnyFlag"}
  /\ "eval" \in failed

\* The inference stage has to.
InferenceBlocks ==
  /\ config.inferenceFailure = "FailClosed"
  /\ config.inferenceRule = "AnyBlock"
  /\ late # {} \/ "inference" \in failed

\* FailClosedBlocks made inductive: the Block is among the current stage's results
\* and then among the outputs; only an error that has been stored and not yet been
\* collected, by a thread no other was left behind before, is still to become one.
BlockInv ==
  /\ pc \in {"ingest", "rejected"} => failed = {}
  /\ pc = "eval" /\ EvalBlocks => Block \in Verdicts(results)
  /\ pc # "eval" /\ EvalBlocks => Block \in Verdicts(outputs)
  /\ (pc = "spawn" \/ Busy) /\ InferenceBlocks =>
       Block \in Verdicts(results) \/ (late = {} /\ PendingError)
  /\ pc \in {"policy", "decide", "done"} /\ InferenceBlocks => Block \in Verdicts(outputs)
  /\ pc = "done" => decision.verdict = Strictest(Verdicts(outputs))

LEMMA InitBlockInv == Init => BlockInv
BY DEF Init, BlockInv, EvalBlocks, InferenceBlocks, Busy

\* An output that is appended adds its verdict.
LEMMA PushVerdict ==
  ASSUME Types, NEW v \in Verdict, NEW d \in SUBSET DegradedReason, PushOutput(v, d)
  PROVE  Verdicts(outputs') = Verdicts(outputs) \cup {v}
<1>1. outputs \in Seq(Output)
    BY DEF Types, TypeOK, Output
<1>2. [verdict |-> v, degraded |-> d] \in Output
    BY DEF Output
<1>3. Verdicts(outputs') = Verdicts(outputs) \cup {[verdict |-> v, degraded |-> d].verdict}
    BY <1>1, <1>2, AppendVerdict DEF PushOutput
<1> QED BY <1>3

LEMMA NextBlockInv ==
  Types /\ Types' /\ ThreadInv /\ BlockInv /\ [Next]_vars => BlockInv'
<1> SUFFICES ASSUME Types, Types', ThreadInv, BlockInv, [Next]_vars PROVE BlockInv'
    OBVIOUS
<1> USE DEF stageVars, frameVars
<1>0. /\ index \in Nat /\ results \in Seq(Result) /\ reasons \in SUBSET DegradedReason
      /\ config \in Config
    BY MaxOfTwo, StagesAssumption DEF Types, TypeOK
<1>1. CASE Ingest
  <2>1. /\ pc' \in {"rejected", "eval"} /\ UNCHANGED failed /\ failed = {}
      BY <1>1 DEF Ingest, BlockInv
  <2> QED BY <2>1 DEF BlockInv, EvalBlocks, Busy
<1>2. CASE CallEvaluator
  <2>1. pc = "eval" /\ pc' = "eval" /\ UNCHANGED config
      BY <1>2 DEF CallEvaluator
  <2>2. PICK o \in Outcomes :
          \/ /\ results' = Append(results, ApplyFailureMode(config.evalFailure, index))
             /\ failed' = failed \cup {"eval"}
          \/ results' = Append(results, ResultOf(o, index)) /\ UNCHANGED failed
      BY <1>2 DEF CallEvaluator
  <2>3. CASE /\ results' = Append(results, ApplyFailureMode(config.evalFailure, index))
             /\ failed' = failed \cup {"eval"}
    <3> DEFINE x == ApplyFailureMode(config.evalFailure, index)
    <3>1. x \in Result /\ (config.evalFailure = "FailClosed" => x.verdict = Block)
        BY <1>0, FailureResult
    <3> HIDE DEF x
    <3>2. Verdicts(results') = Verdicts(results) \cup {x.verdict}
        BY <1>0, <2>3, <3>1, AppendVerdict DEF x
    <3> QED BY <2>1, <3>1, <3>2 DEF BlockInv, EvalBlocks, Busy
  <2>4. CASE results' = Append(results, ResultOf(o, index)) /\ UNCHANGED failed
    <3>1. ResultOf(o, index) \in Result
        BY <1>0, OutcomeResult
    <3>2. Verdicts(results) \subseteq Verdicts(results')
        BY <1>0, <2>4, <3>1, AppendVerdict
    <3> QED BY <2>1, <2>4, <3>2 DEF BlockInv, EvalBlocks, Busy
  <2> QED BY <2>2, <2>3, <2>4
<1>3. CASE FinishEval
  <2> DEFINE v == Compose(config.evalRule, results)
  <2>1. pc = "eval" /\ pc' = "spawn" /\ UNCHANGED <<config, late, failed>> /\ PushOutput(v, reasons)
      BY <1>3 DEF FinishEval
  <2>2. v \in Verdict /\ (EvalBlocks => v = Block)
    <3>1. config.evalRule \in {"AnyBlock", "AnyFlag", "Unanimous", "Majority", "WeightedScore"}
        BY <1>0 DEF Config
    <3> QED BY <1>0, <2>1, <3>1, ComposeVerdict DEF BlockInv, EvalBlocks
  <2> HIDE DEF v
  <2>3. Verdicts(outputs') = Verdicts(outputs) \cup {v}
      BY <1>0, <2>1, <2>2, PushVerdict
  <2>4. late = {} /\ "inference" \notin failed
      BY <2>1 DEF ThreadInv
  <2> QED BY <2>1, <2>2, <2>3, <2>4 DEF BlockInv, EvalBlocks, InferenceBlocks, Busy
<1>4. CASE Spawn
  <2>1. pc = "spawn" /\ pc' = "poll" /\ UNCHANGED <<config, outputs, results, late, failed>>
      BY <1>4 DEF Spawn
  <2>2. ~PendingError
      BY <2>1 DEF PendingError, Busy
  <2> QED BY <2>1, <2>2 DEF BlockInv, EvalBlocks, InferenceBlocks, Busy
<1>5. CASE Timeout
  <2> DEFINE x == ApplyFailureMode(config.inferenceFailure, index)
  <2>1. /\ pc = "poll" /\ pc' = "spawn" /\ UNCHANGED <<config, outputs, failed>>
        /\ results' = Append(results, x)
      BY <1>5 DEF Timeout
  <2>2. x \in Result /\ (config.inferenceFailure = "FailClosed" => x.verdict = Block)
      BY <1>0, FailureResult
  <2> HIDE DEF x
  <2>3. Verdicts(results') = Verdicts(results) \cup {x.verdict}
      BY <1>0, <2>1, <2>2, AppendVerdict
  <2> QED BY <2>1, <2>2, <2>3 DEF BlockInv, EvalBlocks, InferenceBlocks, Busy
<1>6. CASE Completed \/ Join
  <2>1. Busy /\ Busy' /\ UNCHANGED <<config, outputs, results, holder, late, failed>>
      BY <1>6 DEF Completed, Join, Busy
  <2>2. PendingError' <=> PendingError
      BY <2>1 DEF PendingError
  <2> QED BY <2>1, <2>2 DEF BlockInv, EvalBlocks, InferenceBlocks, Busy
<1>7. CASE Collect
  <2>1. pc = "collect" /\ pc' = "spawn" /\ UNCHANGED <<config, outputs, late, failed>>
      BY <1>7 DEF Collect
  <2>2. holder # <<>> /\ holder[1].from \in Nat /\ holder[1].outcome \in Outcomes
    <3>1. holder # <<>>
        BY <2>1 DEF ThreadInv, Busy
    <3>2. holder \in Seq(Held)
        BY DEF Types, TypeOK, Held
    <3> QED BY <3>1, <3>2, HeldFields DEF Inference
  <2>3. PICK x \in Result :
          /\ results' = Append(results, x)
          /\ holder[1].outcome.error /\ config.inferenceFailure = "FailClosed" =>
               x.verdict = Block
    <3>1. CASE holder[1].outcome.error
      <4>1. results' = Append(results, ApplyFailureMode(config.inferenceFailure, index))
          BY <1>7, <2>2, <3>1 DEF Collect
      <4> QED BY <1>0, <4>1, FailureResult
    <3>2. CASE ~holder[1].outcome.error
      <4>1. results' = Append(results, ResultOf(holder[1].outcome, holder[1].from))
          BY <1>7, <2>2, <3>2 DEF Collect
      <4> QED BY <2>2, <3>2, <4>1, OutcomeResult
    <3> QED BY <3>1, <3>2
  <2>4. Verdicts(results') = Verdicts(results) \cup {x.verdict}
      BY <1>0, <2>3, AppendVerdict
  <2>5. InferenceBlocks => Block \in Verdicts(results')
      BY <2>1, <2>3, <2>4 DEF BlockInv, InferenceBlocks, Busy, PendingError
  <2> QED BY <2>1, <2>5 DEF BlockInv, EvalBlocks, InferenceBlocks, Busy
<1>8. CASE FinishInference
  <2> DEFINE v == ComposeInference(config.inferenceRule, results)
  <2>1. /\ pc = "spawn" /\ pc' = "policy" /\ UNCHANGED <<config, late, failed>>
        /\ PushOutput(v, reasons)
      BY <1>8 DEF FinishInference
  <2>2. v \in Verdict /\ (InferenceBlocks => v = Block)
    <3>1. InferenceBlocks => Block \in Verdicts(results)
        BY <2>1 DEF BlockInv, PendingError, Busy
    <3> QED BY <1>0, <3>1, ComposeInferenceVerdict DEF InferenceBlocks
  <2> HIDE DEF v
  <2>3. Verdicts(outputs') = Verdicts(outputs) \cup {v}
      BY <1>0, <2>1, <2>2, PushVerdict
  <2> QED BY <2>1, <2>2, <2>3 DEF BlockInv, EvalBlocks, InferenceBlocks, Busy
<1>9. CASE Policy
  <2>0. PICK v \in Verdict, d \in {{}, {"EvaluatorError"}} :
          /\ PushOutput(v, d)
          /\ failed' = IF d # {} THEN failed \cup {"policy"} ELSE failed
      BY <1>9, PolicyOutput
  <2>1. pc = "policy" /\ pc' = "decide" /\ UNCHANGED <<config, late>>
      BY <1>9 DEF Policy
  <2>2. Verdicts(outputs) \subseteq Verdicts(outputs')
      BY <2>0, PushVerdict DEF DegradedReason
  <2>3. /\ "eval" \in failed' <=> "eval" \in failed
        /\ "inference" \in failed' <=> "inference" \in failed
      BY <2>0
  <2> QED BY <2>1, <2>2, <2>3 DEF BlockInv, EvalBlocks, InferenceBlocks, Busy
<1>10. CASE Decide
  <2>1. /\ pc = "decide" /\ pc' = "done" /\ UNCHANGED <<config, outputs, late, failed>>
        /\ decision'.verdict = Strictest(Verdicts(outputs))
      BY <1>10 DEF Decide
  <2> QED BY <2>1 DEF BlockInv, EvalBlocks, InferenceBlocks, Busy
<1>11. ASSUME NEW k \in Inference, Assign(k) PROVE BlockInv'
  <2>1. /\ UNCHANGED <<config, pc, outputs, results, decision, late>>
        /\ "eval" \in failed' <=> "eval" \in failed
      BY <1>11 DEF Assign
  <2>2. pc \notin {"ingest", "rejected", "eval"}
      BY <1>11, AtWork DEF Assign
  <2>3. CASE late # {}
      BY <2>1, <2>2, <2>3 DEF BlockInv, EvalBlocks, InferenceBlocks, Busy
  <2>4. CASE late = {}
    <3>1. pc \in {"poll", "join"} /\ holder = <<>>
        BY <1>11, <2>4, FirstStore
    <3>2. PICK o \in Outcomes :
            /\ holder' = <<[from |-> k, outcome |-> o]>>
            /\ failed' = IF o.error THEN failed \cup {"inference"} ELSE failed
        BY <1>11, <2>4, FirstStore
    <3>3. ~PendingError
        BY <3>1 DEF PendingError
    <3>4. PendingError' <=> o.error
        BY <2>1, <3>1, <3>2 DEF PendingError, Busy
    <3>5. InferenceBlocks' => Block \in Verdicts(results') \/ (late' = {} /\ PendingError')
        BY <2>1, <2>4, <3>1, <3>2, <3>3, <3>4 DEF BlockInv, InferenceBlocks, Busy
    <3> QED BY <2>1, <2>2, <3>1, <3>5 DEF BlockInv, EvalBlocks, Busy
  <2> QED BY <2>3, <2>4
<1>12. ASSUME UNCHANGED <<config, pc, outputs, results, decision, late, holder, failed>>
       PROVE  BlockInv'
  <2>1. PendingError' <=> PendingError
      BY <1>12 DEF PendingError, Busy
  <2> QED BY <1>12, <2>1 DEF BlockInv, EvalBlocks, InferenceBlocks, Busy
<1>13. ASSUME NEW k \in Inference, Complete(k) PROVE BlockInv'
    BY <1>12, <1>13 DEF Complete
<1>14. CASE UNCHANGED vars
    BY <1>12, <1>14 DEF vars
<1> QED BY <1>1, <1>2, <1>3, <1>4, <1>5, <1>6, <1>7, <1>8, <1>9, <1>10, <1>11, <1>13, <1>14
        DEF Next, Coroutine

\* With FailClosed an evaluator that failed or timed out blocks the event, where
\* one Block decides its stage.
THEOREM FailureBlocks == Spec => []FailClosedBlocks
<1>1. Types /\ BlockInv => FailClosedBlocks
  <2> SUFFICES ASSUME Types, BlockInv PROVE FailClosedBlocks
      OBVIOUS
  <2>0. config.inferenceRule \in {"WeightedScore", "AnyBlock"}
      BY DEF Types, TypeOK, Config
  <2>a. SUFFICES ASSUME pc = "done", EvalBlocks \/ InferenceBlocks
                 PROVE  decision.verdict = Block
      BY <2>0 DEF FailClosedBlocks, EvalBlocks, InferenceBlocks
  <2>1. Block \in Verdicts(outputs)
      BY <2>a DEF BlockInv
  <2>2. Verdicts(outputs) \subseteq Verdict
      BY OutputFields DEF Verdicts, Types, TypeOK, Output
  <2> QED BY <2>1, <2>2, <2>a, StrictestVerdict DEF BlockInv
<1> QED BY <1>1, InitTypes, NextTypes, InitThreadInv, NextThreadInv, InitBlockInv,
           NextBlockInv, PTL DEF Spec

===============================================================================
