---------------------------- MODULE SubmitOutcome -----------------------------
(***************************************************************************)
(* What submit_sync() promises its callers about one event, stated without *)
(* threads, mutexes or time.  Each call has one fate, chosen once: its     *)
(* decision goes to the emission targets, or the event is dropped.  The    *)
(* answer the caller gets agrees with that fate, and only an event whose   *)
(* fate is to be emitted ever reaches a target.  Module Pipeline           *)
(* implements this specification (Pipeline!ImplementsOutcome).             *)
(***************************************************************************)
CONSTANT Calls

VARIABLES
  fate,     \* per call: "open", "emit" or "drop"
  answer,   \* per call: "none", "decision" or "error"
  emitted   \* the calls whose decision has been offered to a target

outcomeVars == <<fate, answer, emitted>>

OutcomeInit ==
  /\ fate = [c \in Calls |-> "open"]
  /\ answer = [c \in Calls |-> "none"]
  /\ emitted = {}

\* The event's decision will be emitted.
Commit(c) ==
  /\ fate[c] = "open"
  /\ fate' = [fate EXCEPT ![c] = "emit"]
  /\ UNCHANGED <<answer, emitted>>

\* The event is given up; no decision of it will be emitted.
Abandon(c) ==
  /\ fate[c] = "open"
  /\ fate' = [fate EXCEPT ![c] = "drop"]
  /\ UNCHANGED <<answer, emitted>>

\* The submission is refused on the spot.
Refuse(c) ==
  /\ fate[c] = "open"
  /\ answer[c] = "none"
  /\ fate' = [fate EXCEPT ![c] = "drop"]
  /\ answer' = [answer EXCEPT ![c] = "error"]
  /\ UNCHANGED emitted

Answer(c) ==
  /\ fate[c] # "open"
  /\ answer[c] = "none"
  /\ answer' = [answer EXCEPT ![c] = IF fate[c] = "emit" THEN "decision" ELSE "error"]
  /\ UNCHANGED <<fate, emitted>>

Emit(c) ==
  /\ fate[c] = "emit"
  /\ emitted' = emitted \cup {c}
  /\ UNCHANGED <<fate, answer>>

OutcomeNext ==
  \E c \in Calls : Commit(c) \/ Abandon(c) \/ Refuse(c) \/ Answer(c) \/ Emit(c)

OutcomeSpec == OutcomeInit /\ [][OutcomeNext]_outcomeVars
===============================================================================
