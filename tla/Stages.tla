-------------------------------- MODULE Stages --------------------------------
(***************************************************************************)
(* One event on its way through the ingest, eval and inference stages of   *)
(* run_event(), up to the decision's final verdict and degraded reasons.   *)
(*                                                                         *)
(* The inference stage runs each evaluator on a thread of its own, polls   *)
(* for its completion and, at the deadline, detaches it.  The thread keeps *)
(* references to the iteration's result_holder and completed, which the    *)
(* next iteration may find in the same stack slots: what a detached thread *)
(* stores either lands in the frame of the iteration then running or hits  *)
(* memory nobody reads.                                                    *)
(*                                                                         *)
(* Verdicts are the numbers of the enum.  The configuration is a variable  *)
(* that never changes.                                                     *)
(***************************************************************************)
EXTENDS Integers, Sequences, FiniteSets, FiniteSetsExt

CONSTANTS
  NumEvaluators,  \* evaluators of the eval stage
  NumInference,   \* evaluators of the inference stage
  Outcomes,       \* what an evaluator can return
  Configs,        \* composition rules and failure modes
  Threshold       \* InferenceStageConfig::score_threshold

Pass == 0
Flag == 1
Block == 2
Verdict == {Pass, Flag, Block}

\* What std::expected<EvaluatorResult, EvaluatorError> tells apart; an optional
\* score is a set with at most one member.
Outcome == [error : BOOLEAN, verdict : Verdict, score : SUBSET Nat]

FailureMode == {"FailOpen", "FailClosed", "EmitDegraded"}

Config ==
  [evalRule : {"AnyBlock", "AnyFlag", "Unanimous", "Majority", "WeightedScore"},
   evalFailure : FailureMode,
   inferenceRule : {"WeightedScore", "AnyBlock"}, inferenceFailure : FailureMode]

ASSUME StagesAssumption ==
  /\ NumEvaluators \in Nat
  /\ NumInference \in Nat
  /\ Outcomes \subseteq Outcome
  /\ \A o \in Outcomes : Cardinality(o.score) <= 1
  /\ Configs \subseteq Config
  /\ Threshold \in Nat

\* An event of submit(), valid or not, or one of submit_sync() that is not.
EventKind == {"fresh", "late", "invalid", "invalid_sync"}

DegradedReason == {"EvaluatorTimeout", "EvaluatorError", "IngestValidationFailed"}

VARIABLES
  config,
  event,
  pc,         \* where the coroutine is
  outputs,    \* Decision::stage_outputs: verdict and degraded reasons
  index,      \* the evaluator of the current stage
  results,    \* the current stage's results
  reasons,    \* the current stage's degraded_reason
  decision,   \* final verdict and degraded reasons
  holder,     \* result_holder of the current iteration; <<>> or one element
  completed,  \* completed of the current iteration
  worker,     \* the threads of the inference stage
  late,       \* the threads that were detached
  failed      \* history: the stages with an evaluator or a rule that failed

stageVars == <<outputs, index, results, reasons>>
frameVars == <<holder, completed>>
vars == <<config, event, pc, stageVars, decision, frameVars, worker, late, failed>>

Inference == 1..NumInference

Result == [from : Nat, verdict : Verdict, score : SUBSET Nat, skipped : BOOLEAN]

Undecided == [verdict |-> Pass, degraded |-> {}]

-------------------------------------------------------------------------------
(* What the stages compute. *)

Strictest(S) == IF S = {} THEN Pass ELSE Max(S)

Verdicts(rs) == {rs[k].verdict : k \in DOMAIN rs}

Blocks(rs) == {k \in DOMAIN rs : rs[k].verdict = Block}

\* Mutant: AnyBlock asks for all the blocks.
ComposeWeak(rule, rs) ==
  IF Blocks(rs) = DOMAIN rs /\ rs # <<>> THEN Block ELSE Pass

\* EvalStage::compose().
Compose(rule, rs) ==
  CASE rs = <<>> \/ rule = "WeightedScore" -> Pass
    [] rs # <<>> /\ rule \in {"AnyBlock", "AnyFlag"} -> Strictest(Verdicts(rs))
    [] rs # <<>> /\ rule = "Unanimous" -> IF Blocks(rs) = DOMAIN rs THEN Block ELSE Pass
    [] rs # <<>> /\ rule = "Majority"  ->
         IF 2 * Cardinality(Blocks(rs)) > Len(rs) THEN Block ELSE Pass

\* InferenceStage: the average of the scores that were not skipped, against the
\* threshold, or the strictest verdict.
ComposeInference(rule, rs) ==
  LET scored == {k \in DOMAIN rs : rs[k].score # {} /\ ~rs[k].skipped}
      total  == MapThenSumSet(LAMBDA k : CHOOSE s \in rs[k].score : TRUE, scored)
  IN  IF rule = "WeightedScore" /\ rs # <<>>
      THEN IF total > Threshold * Cardinality(scored) THEN Flag ELSE Pass
      ELSE Strictest(Verdicts(rs))

\* apply_failure_mode(), of both stages.
ApplyFailureMode(mode, k) ==
  [from |-> k, verdict |-> IF mode = "FailClosed" THEN Block ELSE Pass, score |-> {},
   skipped |-> TRUE]

ResultOf(o, k) == [from |-> k, verdict |-> o.verdict, score |-> o.score, skipped |-> FALSE]

\* The stage is over: its output joins the decision's, its locals are gone.
PushOutput(verdict, degraded) ==
  /\ outputs' = Append(outputs, [verdict |-> verdict, degraded |-> degraded])
  /\ index' = 1
  /\ results' = <<>>
  /\ reasons' = {}

-------------------------------------------------------------------------------
Init ==
  /\ config \in Configs
  /\ event \in EventKind
  /\ pc = "ingest"
  /\ outputs = <<>>
  /\ index = 1
  /\ results = <<>>
  /\ reasons = {}
  /\ decision = Undecided
  /\ holder = <<>>
  /\ completed = FALSE
  /\ worker = [k \in Inference |-> "none"]
  /\ late = {}
  /\ failed = {}

\* IngestStage::process(); run_event() answers an invalid submit_sync() event
\* with an error and stops.
Ingest ==
  /\ pc = "ingest"
  /\ PushOutput(IF event = "late" THEN Flag ELSE Pass,
                IF event \in {"invalid", "invalid_sync"}
                  THEN {"IngestValidationFailed"} ELSE {})
  /\ pc' = IF event = "invalid_sync" THEN "rejected" ELSE "eval"
  /\ UNCHANGED <<config, event, decision, frameVars, worker, late, failed>>

\* Mutant: a failure is not reported.
CallSilently ==
  /\ pc = "eval"
  /\ index <= NumEvaluators
  /\ \E o \in Outcomes :
       /\ results' = Append(results, IF o.error THEN ApplyFailureMode(config.evalFailure, index)
                                     ELSE ResultOf(o, index))
       /\ failed' = IF o.error THEN failed \cup {"eval"} ELSE failed
  /\ index' = index + 1
  /\ UNCHANGED <<config, event, pc, outputs, reasons, decision, frameVars, worker, late>>

\* EvalStage::process(): one evaluator after the other.
CallEvaluator ==
  /\ pc = "eval"
  /\ index <= NumEvaluators
  /\ \E o \in Outcomes :
       IF o.error
       THEN /\ results' = Append(results, ApplyFailureMode(config.evalFailure, index))
            /\ reasons' = reasons \cup {"EvaluatorError"}
            /\ failed' = failed \cup {"eval"}
       ELSE /\ results' = Append(results, ResultOf(o, index))
            /\ UNCHANGED <<reasons, failed>>
  /\ index' = index + 1
  /\ UNCHANGED <<config, event, pc, outputs, decision, frameVars, worker, late>>

FinishEval ==
  /\ pc = "eval"
  /\ index > NumEvaluators
  /\ PushOutput(Compose(config.evalRule, results), reasons)
  /\ pc' = "spawn"
  /\ UNCHANGED <<config, event, decision, frameVars, worker, late, failed>>

(* InferenceStage::process(). *)

\* An iteration begins: fresh locals, a new thread.
Spawn ==
  /\ pc = "spawn"
  /\ index <= NumInference
  /\ holder' = <<>>
  /\ completed' = FALSE
  /\ worker' = [worker EXCEPT ![index] = "running"]
  /\ pc' = "poll"
  /\ UNCHANGED <<config, event, stageVars, decision, late, failed>>

\* The deadline has passed: the thread is detached, the failure mode applied.
Timeout ==
  /\ pc = "poll"
  /\ ~completed
  /\ late' = late \cup {index}
  /\ results' = Append(results, ApplyFailureMode(config.inferenceFailure, index))
  /\ reasons' = reasons \cup {"EvaluatorTimeout"}
  /\ index' = index + 1
  /\ pc' = "spawn"
  /\ UNCHANGED <<config, event, outputs, decision, frameVars, worker, failed>>

\* Mutant: the thread is joined without a look at the clock.
JoinAtOnce ==
  /\ pc = "poll"
  /\ pc' = "join"
  /\ UNCHANGED <<config, event, stageVars, decision, frameVars, worker, late, failed>>

\* The poll sees completed.
Completed ==
  /\ pc = "poll"
  /\ completed
  /\ pc' = "join"
  /\ UNCHANGED <<config, event, stageVars, decision, frameVars, worker, late, failed>>

\* Mutant: the thread is not joined.
JoinNobody ==
  /\ pc = "join"
  /\ pc' = "collect"
  /\ UNCHANGED <<config, event, stageVars, decision, frameVars, worker, late, failed>>

\* worker.join().
Join ==
  /\ pc = "join"
  /\ worker[index] = "finished"
  /\ pc' = "collect"
  /\ UNCHANGED <<config, event, stageVars, decision, frameVars, worker, late, failed>>

\* The holder's result, or the failure mode for its error, is the evaluator's.
Collect ==
  /\ pc = "collect"
  /\ IF holder = <<>>
     THEN UNCHANGED <<results, reasons>>
     ELSE IF holder[1].outcome.error
     THEN /\ results' = Append(results, ApplyFailureMode(config.inferenceFailure, index))
          /\ reasons' = reasons \cup {"EvaluatorError"}
     ELSE /\ results' = Append(results, ResultOf(holder[1].outcome, holder[1].from))
          /\ UNCHANGED reasons
  /\ index' = index + 1
  /\ pc' = "spawn"
  /\ UNCHANGED <<config, event, outputs, decision, frameVars, worker, late, failed>>

FinishInference ==
  /\ pc = "spawn"
  /\ index > NumInference
  /\ PushOutput(ComposeInference(config.inferenceRule, results), reasons)
  /\ pc' = "policy"
  /\ UNCHANGED <<config, event, decision, frameVars, worker, late, failed>>

\* The policy stage (module PolicyStage) adds an output with a verdict of its own
\* and, if a rule threw, the reason for it.
Policy ==
  /\ pc = "policy"
  /\ \E v \in Verdict, throws \in BOOLEAN :
       /\ PushOutput(v, IF throws THEN {"EvaluatorError"} ELSE {})
       /\ failed' = IF throws THEN failed \cup {"policy"} ELSE failed
  /\ pc' = "decide"
  /\ UNCHANGED <<config, event, decision, frameVars, worker, late>>

\* compute_final_verdict() and merge_degraded_reasons().
Decide ==
  /\ pc = "decide"
  /\ decision' = [verdict |-> Strictest(Verdicts(outputs)),
                  degraded |-> UNION {outputs[k].degraded : k \in DOMAIN outputs}]
  /\ pc' = "done"
  /\ UNCHANGED <<config, event, stageVars, frameVars, worker, late, failed>>

-------------------------------------------------------------------------------
(* The threads of the inference stage. *)

\* Whether thread k's store is seen by the running iteration: always if the
\* iteration is its own, perhaps if k was detached.
Lands(k) ==
  IF k \notin late THEN {TRUE}
  ELSE IF pc \in {"poll", "join", "collect"} THEN BOOLEAN ELSE {FALSE}

\* result_holder = fn(event).
Assign(k) ==
  /\ worker[k] = "running"
  /\ \E o \in Outcomes, lands \in Lands(k) :
       /\ holder' = IF lands THEN <<[from |-> k, outcome |-> o]>> ELSE holder
       /\ failed' = IF o.error THEN failed \cup {"inference"} ELSE failed
  /\ worker' = [worker EXCEPT ![k] = "assigned"]
  /\ UNCHANGED <<config, event, pc, stageVars, decision, completed, late>>

\* completed.store(true).
Complete(k) ==
  /\ worker[k] = "assigned"
  /\ \E lands \in Lands(k) : completed' = (lands \/ completed)
  /\ worker' = [worker EXCEPT ![k] = "finished"]
  /\ UNCHANGED <<config, event, pc, stageVars, decision, holder, late, failed>>

-------------------------------------------------------------------------------
Coroutine ==
  \/ Ingest
  \/ CallEvaluator
  \/ FinishEval
  \/ Spawn
  \/ Timeout
  \/ Completed
  \/ Join
  \/ Collect
  \/ FinishInference
  \/ Policy
  \/ Decide

Next == Coroutine \/ \E k \in Inference : Assign(k) \/ Complete(k)

Spec == Init /\ [][Next]_vars

\* The coroutine's thread runs and the clock reaches the deadline; an inference
\* evaluator need never return, but a thread whose evaluator has returned goes on.
FairSpec ==
  /\ Spec
  /\ WF_vars(Coroutine)
  /\ \A k \in Inference : WF_vars(Complete(k))

-------------------------------------------------------------------------------
(* Properties. *)

\* Type invariant: no stage asks for an evaluator it does not have.
TypeOK ==
  /\ config \in Config
  /\ event \in EventKind
  /\ pc \in {"ingest", "rejected", "eval", "spawn", "poll", "join", "collect", "policy",
             "decide", "done"}
  /\ outputs \in Seq([verdict : Verdict, degraded : SUBSET DegradedReason])
  /\ index \in 1..Max({NumEvaluators, NumInference}) + 1
  /\ results \in Seq(Result)
  /\ reasons \subseteq DegradedReason
  /\ decision \in [verdict : Verdict, degraded : SUBSET DegradedReason]
  /\ holder \in Seq([from : Inference, outcome : Outcomes])
  /\ completed \in BOOLEAN
  /\ worker \in [Inference -> {"none", "running", "assigned", "finished"}]
  /\ late \subseteq Inference
  /\ failed \subseteq {"eval", "inference", "policy"}

\* The decision tells what went wrong, and nothing else: a timeout, an invalid
\* event and, when no thread was left behind, an error of an evaluator or of a
\* policy rule each show in degraded_reason exactly if they happened, although the
\* stages keep separate masks and a failure mode may have turned the failure into
\* a Pass.
DegradedExact ==
  pc = "done" =>
    /\ "EvaluatorTimeout" \in decision.degraded <=> late # {}
    /\ "IngestValidationFailed" \in decision.degraded <=> event = "invalid"
    /\ late = {} => ("EvaluatorError" \in decision.degraded <=> failed # {})

\* FailClosed of the eval and inference stages: an evaluator that failed or timed
\* out blocks the event, whatever the other evaluators and stages say, where one
\* Block decides the stage.
FailClosedBlocks ==
  pc = "done" =>
    \/ decision.verdict = Block
    \/ /\ \/ config.evalFailure # "FailClosed"
          \/ config.evalRule \notin {"AnyBlock", "AnyFlag"}
          \/ "eval" \notin failed
       /\ \/ config.inferenceFailure # "FailClosed"
          \/ config.inferenceRule = "WeightedScore"
          \/ late = {} /\ "inference" \notin failed

\* Each inference evaluator that the loop has passed has exactly one result, its
\* own or the failure mode's, unless an evaluator before it was left behind.
OwnResult ==
  pc \in {"spawn", "poll", "join", "collect"} =>
    /\ Len(results) = index - 1
    /\ \A k \in 1..index - 1 : results[k].from # k => \E j \in late : j < k

\* "Run the evaluator in a thread with a deadline check. If the evaluator
\* exceeds its timeout, apply FailureMode.": the stage leaves every evaluator,
\* also one that never returns.
TimeoutEnforced ==
  \A k \in Inference : pc = "poll" /\ index = k ~> index # k

\* The deadline holds as long as no thread was left behind.
TimeoutEnforcedAtFirst ==
  \A k \in Inference : pc = "poll" /\ index = k /\ late = {} ~> index # k \/ late # {}
===============================================================================
