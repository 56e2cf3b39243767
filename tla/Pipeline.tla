------------------------------- MODULE Pipeline -------------------------------
(***************************************************************************)
(* fre::Pipeline: the lifecycle (start, drain), the two submission paths   *)
(* (submit, submit_sync) and the coroutine run_event that evaluates an     *)
(* event on its tenant's strand.                                           *)
(*                                                                         *)
(* Actors.  One caller thread per submitted event; the worker running an   *)
(* event's coroutine on a strand of the TenantRouter's thread pool; one    *)
(* controller thread, because start() and drain() must not be called       *)
(* concurrently with each other (pipeline.hpp); the holder of a submit_sync*)
(* caller's StopSource.                                                    *)
(*                                                                         *)
(* Grain.  One action per atomic access or critical section that another   *)
(* actor can observe.  Every section under SyncContext::mtx is one action, *)
(* and the fields of all SyncContexts are kept as sets of events.          *)
(***************************************************************************)
EXTENDS Integers, FiniteSets, Sequences

CONSTANTS
  Events,         \* submitted events; one submit()/submit_sync() call each
  SyncEvents,     \* the ones submitted through submit_sync()
  TokenEvents,    \* the submit_sync() calls that pass a StopToken
  Tenants,
  TenantOf,       \* event -> tenant
  Strands,        \* the router's cells
  StrandOf,       \* tenant -> first cell of its shuffle shard, strands[0]
  NumTargets,     \* number of emission targets
  MaxConcurrent,  \* RateLimitConfig::max_concurrent
  MaxStarts,      \* bound: how many times the controller calls start()
  DrainMayExpire  \* whether a drain's deadline may pass before in_flight_ = 0

ASSUME PipelineAssumption ==
  /\ IsFiniteSet(Events)
  /\ SyncEvents \subseteq Events
  /\ TokenEvents \subseteq SyncEvents
  /\ TenantOf \in [Events -> Tenants]
  /\ StrandOf \in [Tenants -> Strands]
  /\ NumTargets \in Nat \ {0}
  /\ MaxConcurrent \in Nat
  /\ MaxStarts \in Nat
  /\ DrainMayExpire \in BOOLEAN

VARIABLES
  state,        \* Pipeline::Impl::state_
  everStarted,  \* ever_started_
  inFlight,     \* in_flight_
  ctl,          \* where the controller thread is inside start() or drain()
  gen,          \* how many routers start() has installed; 0: router is null
  poolUp,       \* the current router's thread pool has not been stopped
  queue,        \* per strand: spawned coroutines that have not begun
  known,        \* TenantRouter::Impl::tenants (the keys)
  slots,        \* TenantState::in_flight per tenant
  pc,           \* where each caller is inside submit()/submit_sync()
  strandGen,    \* the router generation of the strand the caller looked up
  result,       \* what the call returned
  stopRequested,\* events whose StopToken has been triggered
  wpc,          \* where each event's coroutine run_event is
  ctxDecision,  \* SyncContext::decision has a value
  ctxError,     \* SyncContext::error has a value (always ValidationFailed)
  ctxCancelled, \* SyncContext::cancelled
  ctxDone,      \* SyncContext::done
  nextTarget,   \* EmitStage::process: index of the next target
  delivered     \* per event: the targets that accepted its decision

lifecycleVars == <<state, everStarted, ctl, gen, poolUp>>
routerVars    == <<known, slots>>
callerVars    == <<pc, strandGen, result, stopRequested>>
ctxVars       == <<ctxDecision, ctxError, ctxCancelled, ctxDone>>
emitVars      == <<nextTarget, delivered>>
workerVars    == <<queue, wpc, emitVars>>
vars == <<lifecycleVars, inFlight, routerVars, callerVars, ctxVars, workerVars>>

Targets == 1..NumTargets

States == {"Stopped", "Starting", "Running", "Draining"}

\* Points inside start() ("starting": before the new router, "installed": before
\* ever_started_, "marked": before state_ = Running) and drain() ("draining":
\* waiting on drain_cv, "stopping": before router->stop(), "joining": in
\* pool.join()).
CtlPoints == {"idle", "starting", "installed", "marked",
              "draining", "stopping", "joining"}

\* drain() locks drain_mutex before its wait and keeps it until it returns; only
\* the wait itself releases it.
DrainHoldsMutex == ctl \in {"stopping", "joining"}

\* Points inside submit() and submit_sync().
CallPoints == {"start", "checked", "acquired", "counted", "routed", "spawned",
               "waiting", "stopSeen", "timedOut", "returned"}

SyncErrors == {"Cancelled", "NotStarted", "PipelineUnavailable", "RateLimited",
               "ValidationFailed", "Timeout"}

Results == SyncErrors \cup {"none", "Accepted", "NotRunning", "Decision"}

\* Points inside run_event.  "notifying": on_event_complete() is about to lock
\* drain_mutex; "thrown": an exception ended the coroutine; "dangling": co_spawn
\* was handed a strand of a router that start() had replaced and destroyed.
WorkPoints == {"none", "queued", "ingest", "decided", "emit", "emitted", "skipped",
               "failed", "notifying", "complete", "thrown", "lost", "dangling"}

ActivePoints == {"ingest", "decided", "emit", "emitted", "skipped", "failed",
                 "notifying"}

\* The event's coroutine is executing on a pool thread.
Active(e) == wpc[e] \in ActivePoints

StrandOfEvent(e) == StrandOf[TenantOf[e]]

Goto(e, point) == pc' = [pc EXCEPT ![e] = point]

Return(e, r) ==
  /\ pc' = [pc EXCEPT ![e] = "returned"]
  /\ result' = [result EXCEPT ![e] = r]

-------------------------------------------------------------------------------
Init ==
  /\ state = "Stopped"
  /\ everStarted = FALSE
  /\ inFlight = 0
  /\ ctl = "idle"
  /\ gen = 0
  /\ poolUp = FALSE
  /\ queue = [s \in Strands |-> <<>>]
  /\ known = {}
  /\ slots = [t \in Tenants |-> 0]
  /\ pc = [e \in Events |-> "start"]
  /\ strandGen = [e \in Events |-> 0]
  /\ result = [e \in Events |-> "none"]
  /\ stopRequested = {}
  /\ wpc = [e \in Events |-> "none"]
  /\ ctxDecision = {}
  /\ ctxError = {}
  /\ ctxCancelled = {}
  /\ ctxDone = {}
  /\ nextTarget = [e \in Events |-> 1]
  /\ delivered = [e \in Events |-> {}]

-------------------------------------------------------------------------------
(* The controller: start() and drain(). *)

\* start(): the compare-exchange Stopped -> Starting.  (When it fails start()
\* returns AlreadyRunning and changes nothing.)
StartBegin ==
  /\ ctl = "idle"
  /\ state = "Stopped"
  /\ gen < MaxStarts
  /\ state' = "Starting"
  /\ ctl' = "starting"
  /\ UNCHANGED <<everStarted, inFlight, gen, poolUp, routerVars, callerVars,
                 ctxVars, workerVars>>

\* Mutant: in_flight_ is reset with the router.
InstallResetting ==
  /\ ctl = "starting"
  /\ gen' = gen + 1
  /\ poolUp' = TRUE
  /\ queue' = [s \in Strands |-> <<>>]
  /\ wpc' = [e \in Events |-> IF wpc[e] = "queued" THEN "lost" ELSE wpc[e]]
  /\ known' = {}
  /\ slots' = [t \in Tenants |-> 0]
  /\ ctl' = "installed"
  /\ inFlight' = 0
  /\ UNCHANGED <<state, everStarted, callerVars, ctxVars, emitVars>>

\* start(): fresh stages, then a fresh router; the old router, its tenants and
\* the coroutines still queued on its stopped pool are destroyed.  in_flight_
\* keeps its value.  A caller that passed its state check before the last drain
\* can use the new router from here on, although state_ is still Starting.
StartInstall ==
  /\ ctl = "starting"
  /\ gen' = gen + 1
  /\ poolUp' = TRUE
  /\ queue' = [s \in Strands |-> <<>>]
  /\ wpc' = [e \in Events |-> IF wpc[e] = "queued" THEN "lost" ELSE wpc[e]]
  /\ known' = {}
  /\ slots' = [t \in Tenants |-> 0]
  /\ ctl' = "installed"
  /\ UNCHANGED <<state, everStarted, inFlight, callerVars, ctxVars, emitVars>>

\* start(): ever_started_.store(true) ...
StartMark ==
  /\ ctl = "installed"
  /\ everStarted' = TRUE
  /\ ctl' = "marked"
  /\ UNCHANGED <<state, inFlight, gen, poolUp, routerVars, callerVars, ctxVars,
                 workerVars>>

\* ... and state_.store(Running).
StartRun ==
  /\ ctl = "marked"
  /\ state' = "Running"
  /\ ctl' = "idle"
  /\ UNCHANGED <<everStarted, inFlight, gen, poolUp, routerVars, callerVars,
                 ctxVars, workerVars>>

\* drain(): state_.store(Draining), unconditionally.  A null router would be
\* dereferenced below: callers drain only a pipeline they have started.
DrainBegin ==
  /\ ctl = "idle"
  /\ gen > 0
  /\ state' = "Draining"
  /\ ctl' = "draining"
  /\ UNCHANGED <<everStarted, inFlight, gen, poolUp, routerVars, callerVars,
                 ctxVars, workerVars>>

\* drain(): the wait on drain_cv ends because in_flight_ is 0 ...
DrainQuiet ==
  /\ ctl = "draining"
  /\ inFlight = 0
  /\ ctl' = "stopping"
  /\ UNCHANGED <<state, everStarted, inFlight, gen, poolUp, routerVars,
                 callerVars, ctxVars, workerVars>>

\* ... or because the deadline has passed.
DrainExpire ==
  /\ ctl = "draining"
  /\ DrainMayExpire
  /\ inFlight # 0
  /\ ctl' = "stopping"
  /\ UNCHANGED <<state, everStarted, inFlight, gen, poolUp, routerVars,
                 callerVars, ctxVars, workerVars>>

\* router->stop(): pool.stop().  No coroutine begins on this pool any more.
DrainStop ==
  /\ ctl = "stopping"
  /\ poolUp' = FALSE
  /\ ctl' = "joining"
  /\ UNCHANGED <<state, everStarted, inFlight, gen, routerVars, callerVars,
                 ctxVars, workerVars>>

\* Mutant: the pool is stopped but not joined.
DrainWithoutJoin ==
  /\ ctl = "joining"
  /\ state' = "Stopped"
  /\ ctl' = "idle"
  /\ UNCHANGED <<everStarted, inFlight, gen, poolUp, routerVars, callerVars,
                 ctxVars, workerVars>>

\* router->stop(): pool.join() waits for the coroutines that are executing, with
\* drain_mutex held; then state_.store(Stopped) and the return.
DrainJoin ==
  /\ ctl = "joining"
  /\ \A e \in Events : ~Active(e)
  /\ state' = "Stopped"
  /\ ctl' = "idle"
  /\ UNCHANGED <<everStarted, inFlight, gen, poolUp, routerVars, callerVars,
                 ctxVars, workerVars>>

-------------------------------------------------------------------------------
(* The callers: submit() and submit_sync(). *)

\* The holder of the StopSource calls request_stop().
RequestStop(e) ==
  /\ e \in TokenEvents \ stopRequested
  /\ stopRequested' = stopRequested \cup {e}
  /\ UNCHANGED <<lifecycleVars, inFlight, routerVars, pc, strandGen, result,
                 ctxVars, workerVars>>

\* submit(): the state check.
SubmitEnter(e) ==
  /\ e \notin SyncEvents
  /\ pc[e] = "start"
  /\ IF state = "Running"
       THEN Goto(e, "checked") /\ UNCHANGED result
       ELSE Return(e, "NotRunning")
  /\ UNCHANGED <<lifecycleVars, inFlight, routerVars, strandGen, stopRequested,
                 ctxVars, workerVars>>

\* submit_sync(): the pre-call cancellation check, then the state check.
SubmitSyncEnter(e) ==
  /\ e \in SyncEvents
  /\ pc[e] = "start"
  /\ \/ e \in stopRequested /\ Return(e, "Cancelled")
     \/ /\ e \notin stopRequested
        /\ state # "Running"
        /\ Return(e, IF everStarted THEN "PipelineUnavailable" ELSE "NotStarted")
     \/ /\ e \notin stopRequested
        /\ state = "Running"
        /\ Goto(e, "checked")
        /\ UNCHANGED result
  /\ UNCHANGED <<lifecycleVars, inFlight, routerVars, strandGen, stopRequested,
                 ctxVars, workerVars>>

\* router->try_acquire(): refused by the token bucket at any time (the bucket
\* is module TenantRouter's business), otherwise bounded by max_concurrent.
TryAcquire(e) ==
  LET t == TenantOf[e] IN
  /\ pc[e] = "checked"
  /\ known' = known \cup {t}
  /\ \/ Return(e, "RateLimited") /\ UNCHANGED slots
     \/ /\ slots[t] < MaxConcurrent
        /\ slots' = [slots EXCEPT ![t] = @ + 1]
        /\ Goto(e, "acquired")
        /\ UNCHANGED result
  /\ UNCHANGED <<lifecycleVars, inFlight, strandGen, stopRequested, ctxVars,
                 workerVars>>

\* Mutant: only submit_sync() counts its event.
CountSyncOnly(e) ==
  /\ pc[e] = "acquired"
  /\ inFlight' = IF e \in SyncEvents THEN inFlight + 1 ELSE inFlight
  /\ Goto(e, "counted")
  /\ UNCHANGED <<lifecycleVars, routerVars, strandGen, result, stopRequested,
                 ctxVars, workerVars>>

\* in_flight_.fetch_add(1).
Count(e) ==
  /\ pc[e] = "acquired"
  /\ inFlight' = inFlight + 1
  /\ Goto(e, "counted")
  /\ UNCHANGED <<lifecycleVars, routerVars, strandGen, result, stopRequested,
                 ctxVars, workerVars>>

\* router->cells_for(): the caller now holds a pointer into this router.
CellsFor(e) ==
  /\ pc[e] = "counted"
  /\ known' = known \cup {TenantOf[e]}
  /\ strandGen' = [strandGen EXCEPT ![e] = gen]
  /\ Goto(e, "routed")
  /\ UNCHANGED <<lifecycleVars, inFlight, slots, result, stopRequested,
                 ctxVars, workerVars>>

\* co_spawn(strand, run_event(...)).  On a stopped pool the coroutine is
\* queued and never begins.
Spawn(e) ==
  /\ pc[e] = "routed"
  /\ strandGen[e] = gen
  /\ queue' = [queue EXCEPT ![StrandOfEvent(e)] = Append(@, e)]
  /\ wpc' = [wpc EXCEPT ![e] = "queued"]
  /\ Goto(e, "spawned")
  /\ UNCHANGED <<lifecycleVars, inFlight, routerVars, strandGen, result,
                 stopRequested, ctxVars, emitVars>>

\* The same co_spawn when the controller drained and restarted the pipeline
\* since cells_for(): the strand has been destroyed.  Undefined behaviour; the
\* outcome kept here is that the coroutine never runs.
SpawnDangling(e) ==
  /\ pc[e] = "routed"
  /\ strandGen[e] # gen
  /\ wpc' = [wpc EXCEPT ![e] = "dangling"]
  /\ Goto(e, "spawned")
  /\ UNCHANGED <<lifecycleVars, inFlight, routerVars, strandGen, result,
                 stopRequested, ctxVars, queue, emitVars>>

\* router->release(), right after the spawn; the router may be a newer one than
\* the one that granted the slot.  submit() returns, submit_sync() waits.
Release(e) ==
  LET t == TenantOf[e] IN
  /\ pc[e] = "spawned"
  /\ slots' = IF t \in known THEN [slots EXCEPT ![t] = @ - 1] ELSE slots
  /\ IF e \in SyncEvents
       THEN Goto(e, "waiting") /\ UNCHANGED result
       ELSE Return(e, "Accepted")
  /\ UNCHANGED <<lifecycleVars, inFlight, known, strandGen, stopRequested,
                 ctxVars, workerVars>>

\* submit_sync(): the wait ends with done set.
WakeDone(e) ==
  /\ pc[e] = "waiting"
  /\ e \in ctxDone
  /\ Return(e, IF e \in ctxError THEN "ValidationFailed" ELSE "Decision")
  /\ UNCHANGED <<lifecycleVars, inFlight, routerVars, strandGen, stopRequested,
                 ctxVars, workerVars>>

\* Mutant: a decision captured at the deadline is thrown away.
GiveUpDroppingDecision(e) ==
  /\ e \in SyncEvents
  /\ pc[e] = "waiting"
  /\ e \notin ctxDone
  /\ ctxCancelled' = ctxCancelled \cup {e}
  /\ \/ Goto(e, "timedOut") /\ UNCHANGED result
     \/ e \in stopRequested /\ Goto(e, "stopSeen") /\ UNCHANGED result
  /\ UNCHANGED <<lifecycleVars, inFlight, routerVars, strandGen, stopRequested,
                 ctxDecision, ctxError, ctxDone, workerVars>>

\* Mutant: a caller with a StopToken polls for the stop request only.
GiveUpOnStopOnly(e) ==
  /\ e \in SyncEvents
  /\ pc[e] = "waiting"
  /\ e \notin ctxDone
  /\ e \in TokenEvents => e \in stopRequested
  /\ ctxCancelled' = ctxCancelled \cup {e}
  /\ IF e \in ctxDecision
       THEN Return(e, "Decision")
       ELSE Goto(e, "timedOut") /\ UNCHANGED result
  /\ UNCHANGED <<lifecycleVars, inFlight, routerVars, strandGen, stopRequested,
                 ctxDecision, ctxError, ctxDone, workerVars>>

\* submit_sync(): the latency budget has passed, or a poll slice saw the stop
\* request, while done is unset.  Still under mtx: set cancelled, and return
\* the decision if the coroutine has already captured one.
GiveUp(e) ==
  /\ e \in SyncEvents
  /\ pc[e] = "waiting"
  /\ e \notin ctxDone
  /\ ctxCancelled' = ctxCancelled \cup {e}
  /\ IF e \in ctxDecision
       THEN Return(e, "Decision")
       ELSE /\ \/ Goto(e, "timedOut")
               \/ e \in stopRequested /\ Goto(e, "stopSeen")
            /\ UNCHANGED result
  /\ UNCHANGED <<lifecycleVars, inFlight, routerVars, strandGen, stopRequested,
                 ctxDecision, ctxError, ctxDone, workerVars>>

\* submit_sync() after unlocking mtx: the stop request is read once more.
ReturnError(e) ==
  /\ pc[e] \in {"stopSeen", "timedOut"}
  /\ Return(e, IF pc[e] = "stopSeen" \/ e \in stopRequested
                 THEN "Cancelled" ELSE "Timeout")
  /\ UNCHANGED <<lifecycleVars, inFlight, routerVars, strandGen, stopRequested,
                 ctxVars, workerVars>>

-------------------------------------------------------------------------------
(* The workers: run_event on a strand. *)

\* A strand begins its next coroutine: only on a pool that has not been stopped
\* and only when the previous one has finished (run_event never suspends).
RunBegin(s) ==
  /\ poolUp
  /\ queue[s] # <<>>
  /\ \A e \in Events : StrandOfEvent(e) = s => ~Active(e)
  /\ wpc' = [wpc EXCEPT ![Head(queue[s])] = "ingest"]
  /\ queue' = [queue EXCEPT ![s] = Tail(@)]
  /\ UNCHANGED <<lifecycleVars, inFlight, routerVars, callerVars, ctxVars,
                 emitVars>>

\* Ingest rejects a submit_sync() event: error and done are set together.  (An
\* invalid submit() event goes on and carries a degraded reason.)
IngestReject(e) ==
  /\ wpc[e] = "ingest"
  /\ e \in SyncEvents
  /\ ctxError' = ctxError \cup {e}
  /\ ctxDone' = ctxDone \cup {e}
  /\ wpc' = [wpc EXCEPT ![e] = "failed"]
  /\ UNCHANGED <<lifecycleVars, inFlight, routerVars, callerVars, ctxDecision,
                 ctxCancelled, queue, emitVars>>

\* Ingest, eval, inference, policy, the final verdict and the audit record.
Evaluate(e) ==
  /\ wpc[e] = "ingest"
  /\ wpc' = [wpc EXCEPT ![e] = "decided"]
  /\ UNCHANGED <<lifecycleVars, inFlight, routerVars, callerVars, ctxVars,
                 queue, emitVars>>

\* An evaluator that breaks its contract throws: no stage before the policy stage
\* catches it, the coroutine ends (asio::detached drops the exception) and
\* on_event_complete() is not called.
EvaluateThrows(e) ==
  /\ wpc[e] = "ingest"
  /\ wpc' = [wpc EXCEPT ![e] = "thrown"]
  /\ UNCHANGED <<lifecycleVars, inFlight, routerVars, callerVars, ctxVars,
                 queue, emitVars>>

\* Mutant: the cancelled flag is not looked at.
CaptureAlways(e) ==
  /\ wpc[e] = "decided"
  /\ IF e \in SyncEvents
       THEN ctxDecision' = ctxDecision \cup {e}
       ELSE UNCHANGED ctxDecision
  /\ wpc' = [wpc EXCEPT ![e] = "emit"]
  /\ UNCHANGED <<lifecycleVars, inFlight, routerVars, callerVars, ctxError,
                 ctxCancelled, ctxDone, queue, emitVars>>

\* Mutant: the decision is captured before the cancelled flag decides.
CaptureThenSkip(e) ==
  /\ wpc[e] = "decided"
  /\ IF e \in SyncEvents
       THEN ctxDecision' = ctxDecision \cup {e}
       ELSE UNCHANGED ctxDecision
  /\ wpc' = [wpc EXCEPT ![e] =
               IF e \in stopRequested \cup ctxCancelled THEN "skipped" ELSE "emit"]
  /\ UNCHANGED <<lifecycleVars, inFlight, routerVars, callerVars, ctxError,
                 ctxCancelled, ctxDone, queue, emitVars>>

\* Under mtx: a cancelled submit_sync() event skips emission, any other
\* submit_sync() event leaves its decision in the context.
Capture(e) ==
  /\ wpc[e] = "decided"
  /\ IF e \in SyncEvents /\ e \in ctxCancelled
       THEN /\ wpc' = [wpc EXCEPT ![e] = "skipped"]
            /\ UNCHANGED ctxDecision
       ELSE /\ wpc' = [wpc EXCEPT ![e] = "emit"]
            /\ ctxDecision' = IF e \in SyncEvents THEN ctxDecision \cup {e}
                                                  ELSE ctxDecision
  /\ UNCHANGED <<lifecycleVars, inFlight, routerVars, callerVars, ctxError,
                 ctxCancelled, ctxDone, queue, emitVars>>

\* Mutant: the loop over the targets runs one past the end.
EmitPastEnd(e) ==
  /\ wpc[e] = "emit"
  /\ nextTarget[e] <= NumTargets + 1
  /\ nextTarget' = [nextTarget EXCEPT ![e] = @ + 1]
  /\ UNCHANGED <<lifecycleVars, inFlight, routerVars, callerVars, ctxVars,
                 queue, wpc, delivered>>

\* EmitStage::process, one target: it accepts the decision on some attempt, or
\* retry_limit is exhausted and the decision is dropped for this target.
EmitTarget(e) ==
  /\ wpc[e] = "emit"
  /\ nextTarget[e] <= NumTargets
  /\ nextTarget' = [nextTarget EXCEPT ![e] = @ + 1]
  /\ \/ delivered' = [delivered EXCEPT ![e] = @ \cup {nextTarget[e]}]
     \/ UNCHANGED delivered
  /\ UNCHANGED <<lifecycleVars, inFlight, routerVars, callerVars, ctxVars,
                 queue, wpc>>

\* Mutant: the exit of the target loop is off by one.
SignalDoneLate(e) ==
  /\ wpc[e] = "emit"
  /\ nextTarget[e] > NumTargets + 1
  /\ ctxDone' = IF e \in SyncEvents THEN ctxDone \cup {e} ELSE ctxDone
  /\ wpc' = [wpc EXCEPT ![e] = "emitted"]
  /\ UNCHANGED <<lifecycleVars, inFlight, routerVars, callerVars, ctxDecision,
                 ctxError, ctxCancelled, queue, emitVars>>

\* All targets done: set done under mtx and notify the submit_sync() caller.
SignalDone(e) ==
  /\ wpc[e] = "emit"
  /\ nextTarget[e] > NumTargets
  /\ ctxDone' = IF e \in SyncEvents THEN ctxDone \cup {e} ELSE ctxDone
  /\ wpc' = [wpc EXCEPT ![e] = "emitted"]
  /\ UNCHANGED <<lifecycleVars, inFlight, routerVars, callerVars, ctxDecision,
                 ctxError, ctxCancelled, queue, emitVars>>

\* on_event_complete(), on each of run_event's three ways out: fetch_sub; the one
\* that takes in_flight_ to 0 goes on to notify drain_cv.
Complete(e) ==
  /\ wpc[e] \in {"emitted", "skipped", "failed"}
  /\ inFlight' = inFlight - 1
  /\ wpc' = [wpc EXCEPT ![e] = IF inFlight = 1 THEN "notifying" ELSE "complete"]
  /\ UNCHANGED <<lifecycleVars, routerVars, callerVars, ctxVars, queue, emitVars>>

\* on_event_complete(): lock drain_mutex, notify, unlock.  A drain() that is past
\* its wait keeps the mutex, and the worker waits for it here.
NotifyDrain(e) ==
  /\ wpc[e] = "notifying"
  /\ ~DrainHoldsMutex
  /\ wpc' = [wpc EXCEPT ![e] = "complete"]
  /\ UNCHANGED <<lifecycleVars, inFlight, routerVars, callerVars, ctxVars, queue,
                 emitVars>>

-------------------------------------------------------------------------------
CallerStep(e) ==
  \/ SubmitEnter(e)
  \/ SubmitSyncEnter(e)
  \/ TryAcquire(e)
  \/ Count(e)
  \/ CellsFor(e)
  \/ Spawn(e)
  \/ SpawnDangling(e)
  \/ Release(e)
  \/ WakeDone(e)
  \/ GiveUp(e)
  \/ ReturnError(e)

\* User code decides how and whether an evaluation ends ...
EvaluationStep(e) ==
  \/ IngestReject(e)
  \/ Evaluate(e)
  \/ EvaluateThrows(e)

\* ... and the pipeline what happens after it.
FinishStep(e) ==
  \/ Capture(e)
  \/ EmitTarget(e)
  \/ SignalDone(e)
  \/ Complete(e)
  \/ NotifyDrain(e)

StartStep ==
  \/ StartInstall
  \/ StartMark
  \/ StartRun

DrainStep ==
  \/ DrainQuiet
  \/ DrainExpire
  \/ DrainStop
  \/ DrainJoin

Next ==
  \/ StartBegin
  \/ StartStep
  \/ DrainBegin
  \/ DrainStep
  \/ \E e \in Events : \/ RequestStop(e)
                       \/ CallerStep(e)
                       \/ EvaluationStep(e)
                       \/ FinishStep(e)
  \/ \E s \in Strands : RunBegin(s)

Spec == Init /\ [][Next]_vars

\* Threads are scheduled: a caller inside a call goes on, a waiting submit_sync
\* caller's budget runs out (GiveUp), a coroutine goes on after its evaluation, a
\* pool thread takes the next coroutine of a strand, and a drain whose deadline
\* can pass sees it pass.  Nothing makes a caller submit, the controller act or an
\* evaluation end.
Fairness ==
  /\ \A e \in Events :
       /\ WF_vars(pc[e] # "start" /\ CallerStep(e))
       /\ WF_vars(FinishStep(e))
  /\ \A s \in Strands : WF_vars(RunBegin(s))
  /\ WF_vars(DrainStep)
  /\ WF_vars(StartStep)

FairSpec == Spec /\ Fairness

\* The same when every evaluation ends, in a decision, a rejection or a throw.
EvaluatingSpec == FairSpec /\ \A e \in Events : WF_vars(EvaluationStep(e))
-------------------------------------------------------------------------------
(* Properties. *)

\* Type invariant.  nextTarget never runs past the position after the last
\* emission target (the loop of EmitStage::process).
TypeOK ==
  /\ state \in States
  /\ everStarted \in BOOLEAN
  /\ inFlight \in Int
  /\ ctl \in CtlPoints
  /\ gen \in Nat
  /\ poolUp \in BOOLEAN
  /\ queue \in [Strands -> Seq(Events)]
  /\ known \subseteq Tenants
  /\ slots \in [Tenants -> Int]
  /\ pc \in [Events -> CallPoints]
  /\ strandGen \in [Events -> Nat]
  /\ result \in [Events -> Results]
  /\ stopRequested \subseteq TokenEvents
  /\ wpc \in [Events -> WorkPoints]
  /\ ctxDecision \subseteq SyncEvents
  /\ ctxError \subseteq SyncEvents
  /\ ctxCancelled \subseteq SyncEvents
  /\ ctxDone \subseteq SyncEvents
  /\ nextTarget \in [Events -> 1..(NumTargets + 1)]
  /\ delivered \in [Events -> SUBSET Targets]

\* INV-2 of the sync-submit contract, and pipeline.hpp ("On any error, no
\* decision is emitted to targets"): once submit_sync() has returned an error,
\* no emission target has been or ever will be called for that event, however
\* the timeout, the stop request and the coroutine interleave.
ErrorMeansNoEmission ==
  \A e \in SyncEvents :
    result[e] \in SyncErrors => nextTarget[e] = 1 /\ delivered[e] = {}

\* The events counted by in_flight_.fetch_add whose coroutine has not passed the
\* fetch_sub of on_event_complete().
Outstanding ==
  {e \in Events : /\ pc[e] \in {"counted", "routed"} \/ wpc[e] # "none"
                  /\ wpc[e] \notin {"notifying", "complete"}}

\* in_flight_ counts exactly the outstanding events: each of run_event's exits
\* gives back the one count its submission took, across drains and restarts, and
\* an event that was lost or thrown out keeps it.
InFlightExact == inFlight = Cardinality(Outstanding)

\* After drain() has set Stopped, and until start() has replaced every stage and
\* the router, no coroutine is executing: none uses a stage object while it is
\* replaced, and none emits for a pipeline that is stopped.  (Once the new router
\* is there a late caller's coroutine may run before state_ is Running.)
StoppedMeansQuiet ==
  state = "Stopped" \/ ctl = "starting" => \A e \in Events : ~Active(e)

\* drain() as promised ("wait ... for in-flight evaluations to complete"): when
\* its wait ends before the deadline, every event whose submission has returned
\* successfully has gone through emission and has given its count back.
DrainWaitsForAccepted ==
  [][DrainQuiet =>
       \A e \in Events :
         result[e] \in {"Accepted", "Decision"} =>
           wpc[e] \in {"notifying", "complete"}]_vars

\* Every submit_sync() call that begins to wait returns, even when its event's
\* coroutine never runs because the pool was stopped under it.
SubmitSyncReturns ==
  \A e \in SyncEvents : pc[e] = "waiting" ~> pc[e] = "returned"

\* A Decision that submit_sync() returned is offered to every emission target,
\* if not before the return (the latency budget may end between capture and
\* emission) then after it, also when a drain stops the pool in between.
ReturnedDecisionIsEmitted ==
  \A e \in SyncEvents : result[e] = "Decision" ~> nextTarget[e] = NumTargets + 1

\* Every event whose evaluation has ended in a decision or a rejection gives its
\* in-flight count back, whichever way run_event leaves and also when a drain has
\* stopped the pool meanwhile.  (One whose evaluation hangs or throws does not.)
DecidedGivesBack ==
  \A e \in Events :
    wpc[e] \in {"decided", "failed"} ~> wpc[e] \in {"notifying", "complete"}

\* The refinement mapping to SubmitOutcome: what the state of a submit_sync()
\* event already says about its fate and its answer.
Fate(e) ==
  IF e \in ctxDecision THEN "emit"
  ELSE IF e \in ctxError \cup ctxCancelled \/ result[e] \in SyncErrors THEN "drop"
  ELSE "open"

AnswerOf(e) ==
  IF result[e] = "Decision" THEN "decision"
  ELSE IF result[e] \in SyncErrors THEN "error"
  ELSE "none"

Outcome == INSTANCE SubmitOutcome WITH
  Calls   <- SyncEvents,
  fate    <- [e \in SyncEvents |-> Fate(e)],
  answer  <- [e \in SyncEvents |-> AnswerOf(e)],
  emitted <- {e \in SyncEvents : nextTarget[e] > 1}

\* submit_sync() implements its contract: the race between the caller giving up
\* and the coroutine capturing its decision is settled once, and the caller's
\* answer and the emission targets see the same side of it.
ImplementsOutcome == Outcome!OutcomeSpec

-------------------------------------------------------------------------------
(* What the documentation says and the code does not do. *)

\* decision.hpp: "Every submitted event produces exactly one Decision."  No
\* event whose submit() succeeded is left on a pool that will never run it.
NoAcceptedEventLost ==
  \A e \in Events :
    result[e] = "Accepted" =>
      /\ wpc[e] # "lost"
      /\ wpc[e] = "queued" => poolUp

\* pipeline.hpp, drain(): "wait up to `deadline` for in-flight evaluations to
\* complete. Transitions to Stopped."  A drain that has begun returns.
DrainReturns == ctl = "draining" ~> ctl = "idle"
===============================================================================
