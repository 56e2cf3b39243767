------------------------------- MODULE MCStages -------------------------------
(***************************************************************************)
(* Stages for TLC: what an evaluator returns is an error or one of three   *)
(* results, without a score and with one on either side of the threshold.  *)
(***************************************************************************)
EXTENDS Stages

SomeOutcomes ==
  {[error |-> TRUE,  verdict |-> Pass,  score |-> {}],
   [error |-> FALSE, verdict |-> Pass,  score |-> {}],
   [error |-> FALSE, verdict |-> Flag,  score |-> {3}],
   [error |-> FALSE, verdict |-> Block, score |-> {0}]}

\* Each stage with FailClosed and one mode that lets the event pass.
SomeConfigs ==
  {c \in Config : c.evalFailure # "EmitDegraded" /\ c.inferenceFailure # "FailOpen"}
===============================================================================
