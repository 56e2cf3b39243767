---------------------------- MODULE PipelineProofs ----------------------------
(***************************************************************************)
(* TLAPS proofs about module Pipeline, for every set of events, tenants,   *)
(* strands and targets.                                                    *)
(***************************************************************************)
EXTENDS Pipeline, FiniteSetTheorems, TLAPS

\* A pipeline that has been constructed and not started is well typed.
LEMMA InitTypeOK == Init => TypeOK
  <1> SUFFICES ASSUME Init PROVE TypeOK
    OBVIOUS
  <1>1. <<>> \in Seq(Events)
    OBVIOUS
  <1>2. 1 \in 1..(NumTargets + 1)
    BY PipelineAssumption
  <1>3. queue \in [Strands -> Seq(Events)]
    BY <1>1 DEF Init
  <1>4. nextTarget \in [Events -> 1..(NumTargets + 1)]
    BY <1>2 DEF Init
  <1>5. /\ pc \in [Events -> CallPoints]
        /\ result \in [Events -> Results]
        /\ wpc \in [Events -> WorkPoints]
    BY DEF Init, CallPoints, Results, WorkPoints
  <1>6. /\ slots \in [Tenants -> Int]
        /\ strandGen \in [Events -> Nat]
        /\ delivered \in [Events -> SUBSET Targets]
    BY DEF Init
  <1>7. state \in States /\ ctl \in CtlPoints /\ everStarted \in BOOLEAN /\ poolUp \in BOOLEAN
    BY DEF Init, States, CtlPoints
  <1> QED
    BY <1>3, <1>4, <1>5, <1>6, <1>7 DEF Init, TypeOK

\* Every step of Pipeline preserves the type invariant.
LEMMA NextTypeOK == TypeOK /\ [Next]_vars => TypeOK'
  <1> SUFFICES ASSUME TypeOK, [Next]_vars PROVE TypeOK'
    OBVIOUS
  <1> USE PipelineAssumption
      DEF TypeOK, vars, lifecycleVars, routerVars, callerVars, ctxVars, emitVars,
          workerVars, States, CtlPoints, CallPoints, Results, SyncErrors,
          WorkPoints, Targets, Goto, Return, StrandOfEvent
  <1>1. CASE StartBegin BY <1>1 DEF StartBegin
  <1>2. CASE StartStep
    <2>1. CASE StartInstall BY <2>1 DEF StartInstall
    <2>2. CASE StartMark BY <2>2 DEF StartMark
    <2>3. CASE StartRun BY <2>3 DEF StartRun
    <2> QED BY <1>2, <2>1, <2>2, <2>3 DEF StartStep
  <1>3. CASE DrainBegin BY <1>3 DEF DrainBegin
  <1>4. CASE DrainStep BY <1>4 DEF DrainStep, DrainQuiet, DrainExpire, DrainStop, DrainJoin
  <1>5. ASSUME NEW e \in Events, RequestStop(e) PROVE TypeOK'
    BY <1>5 DEF RequestStop
  <1>6. ASSUME NEW e \in Events, CallerStep(e) PROVE TypeOK'
    <2>1. CASE SubmitEnter(e) BY <2>1 DEF SubmitEnter
    <2>2. CASE SubmitSyncEnter(e) BY <2>2 DEF SubmitSyncEnter
    <2>3. CASE TryAcquire(e) 
      <3>1. TenantOf[e] \in Tenants
        OBVIOUS
      <3>2. known' \subseteq Tenants
        BY <2>3, <3>1 DEF TryAcquire
      <3>3. slots' \in [Tenants -> Int]
        BY <2>3, <3>1 DEF TryAcquire
      <3> QED BY <2>3, <3>2, <3>3 DEF TryAcquire
    <2>4. CASE Count(e) BY <2>4 DEF Count
    <2>5. CASE CellsFor(e) BY <2>5 DEF CellsFor
    <2>6. CASE Spawn(e) BY <2>6 DEF Spawn
    <2>7. CASE SpawnDangling(e) BY <2>7 DEF SpawnDangling
    <2>8. CASE Release(e) 
      <3>1. TenantOf[e] \in Tenants
        OBVIOUS
      <3>2. slots' \in [Tenants -> Int]
        BY <2>8, <3>1 DEF Release
      <3>3. pc' \in [Events -> CallPoints] /\ result' \in [Events -> Results]
        BY <2>8 DEF Release
      <3> QED BY <2>8, <3>2, <3>3 DEF Release
    <2>9. CASE WakeDone(e) BY <2>9 DEF WakeDone
    <2>10. CASE GiveUp(e) 
      <3>1. pc' \in [Events -> CallPoints] /\ result' \in [Events -> Results]
        BY <2>10 DEF GiveUp
      <3>2. ctxCancelled' \subseteq SyncEvents
        BY <2>10 DEF GiveUp
      <3> QED BY <2>10, <3>1, <3>2 DEF GiveUp
    <2>11. CASE ReturnError(e) BY <2>11 DEF ReturnError
    <2> QED BY <1>6, <2>1, <2>2, <2>3, <2>4, <2>5, <2>6, <2>7, <2>8, <2>9, <2>10,
               <2>11 DEF CallerStep
  <1>7. ASSUME NEW e \in Events, EvaluationStep(e) \/ FinishStep(e) PROVE TypeOK'
    <2>1. CASE IngestReject(e) BY <2>1 DEF IngestReject
    <2>2. CASE Evaluate(e) \/ EvaluateThrows(e) BY <2>2 DEF Evaluate, EvaluateThrows
    <2>3. CASE Capture(e)
      <3>1. wpc' \in [Events -> WorkPoints]
        BY <2>3 DEF Capture
      <3>2. ctxDecision' \subseteq SyncEvents
        BY <2>3 DEF Capture
      <3> QED BY <2>3, <3>1, <3>2 DEF Capture
    <2>4. CASE EmitTarget(e) 
      <3>1. nextTarget[e] \in Targets
        BY <2>4 DEF EmitTarget
      <3>2. nextTarget' \in [Events -> 1..(NumTargets + 1)]
        BY <2>4, <3>1 DEF EmitTarget
      <3>3. delivered' \in [Events -> SUBSET Targets]
        <4> HIDE DEF Targets
        <4>1. delivered \in [Events -> SUBSET Targets]
          OBVIOUS
        <4>2. delivered[e] \cup {nextTarget[e]} \in SUBSET Targets
          BY <3>1, <4>1
        <4>3. \/ delivered' = [delivered EXCEPT ![e] = delivered[e] \cup {nextTarget[e]}]
              \/ delivered' = delivered
          BY <2>4 DEF EmitTarget
        <4> QED BY <4>1, <4>2, <4>3
      <3> QED BY <2>4, <3>2, <3>3 DEF EmitTarget
    <2>5. CASE SignalDone(e) BY <2>5 DEF SignalDone
    <2>6. CASE Complete(e)
      <3>1. wpc' \in [Events -> WorkPoints] /\ inFlight' \in Int
        BY <2>6 DEF Complete
      <3> QED BY <2>6, <3>1 DEF Complete
    <2>7. CASE NotifyDrain(e) BY <2>7 DEF NotifyDrain
    <2> QED BY <1>7, <2>1, <2>2, <2>3, <2>4, <2>5, <2>6, <2>7 DEF EvaluationStep, FinishStep
  <1>8. ASSUME NEW s \in Strands, RunBegin(s) PROVE TypeOK'
    <2>1. queue[s] \in Seq(Events) /\ queue[s] # <<>>
      BY <1>8 DEF RunBegin
    <2>2. Head(queue[s]) \in Events /\ Tail(queue[s]) \in Seq(Events)
      BY <2>1
    <2>3. queue' \in [Strands -> Seq(Events)] /\ wpc' \in [Events -> WorkPoints]
      BY <1>8, <2>2 DEF RunBegin
    <2> QED BY <1>8, <2>3 DEF RunBegin
  <1>9. CASE UNCHANGED vars BY <1>9
  <1> QED BY <1>1, <1>2, <1>3, <1>4, <1>5, <1>6, <1>7, <1>8, <1>9 DEF Next

\* Type correctness of the pipeline.
THEOREM TypeCorrect == Spec => []TypeOK
  BY InitTypeOK, NextTypeOK, PTL DEF Spec

-------------------------------------------------------------------------------
(* Queued coroutines. *)

\* A coroutine waiting on a strand is queued there once and on that strand only:
\* the coroutine a strand takes next has not begun before.
QueueInv ==
  \A s \in Strands :
    /\ \A i \in 1..Len(queue[s]) :
         wpc[queue[s][i]] = "queued" /\ StrandOfEvent(queue[s][i]) = s
    /\ \A i, j \in 1..Len(queue[s]) : queue[s][i] = queue[s][j] => i = j

\* Where a caller is agrees with where its coroutine is: nothing is spawned
\* before co_spawn, and what has been spawned stays spawned.
CallInv ==
  \A e \in Events :
    /\ pc[e] \in {"start", "checked", "acquired", "counted", "routed"} => wpc[e] = "none"
    /\ pc[e] \in {"spawned", "waiting", "stopSeen", "timedOut"} => wpc[e] # "none"
    /\ pc[e] # "returned" => result[e] = "none"
    /\ result[e] \in {"Accepted", "Decision"} => wpc[e] # "none"

\* The SyncContext protocol.  Emission begins only after the decision has been
\* captured; a decision, an error and a caller that has given up without a
\* decision exclude each other.
SyncInv ==
  \A e \in SyncEvents :
    /\ e \in ctxDecision \/ (/\ nextTarget[e] = 1
                             /\ delivered[e] = {}
                             /\ wpc[e] \notin {"emit", "emitted"})
    /\ e \in ctxDecision => wpc[e] \in {"emit", "emitted", "notifying", "complete"}
    /\ e \in ctxError => wpc[e] \in {"failed", "notifying", "complete"} /\ e \notin ctxDecision
    /\ e \in ctxDone => e \in ctxError \cup ctxDecision
    /\ pc[e] \in {"stopSeen", "timedOut"} => e \in ctxCancelled \ ctxDecision
    /\ result[e] = "Decision" => e \in ctxDecision
    /\ result[e] \in SyncErrors =>
         e \notin ctxDecision /\ (e \in ctxError \cup ctxCancelled \/ wpc[e] = "none")

\* Only these steps touch the strand queues or the coroutines' progress.
LEMMA QueueStep ==
  ASSUME TypeOK, CallInv, QueueInv, [Next]_vars
  PROVE  QueueInv'
  <1> USE PipelineAssumption
  <1>1. CASE UNCHANGED <<queue, wpc>>
    BY <1>1 DEF QueueInv, StrandOfEvent
  <1>2. CASE StartInstall
    BY <1>2 DEF QueueInv, StartInstall
  <1>3. ASSUME NEW e \in Events, Spawn(e) PROVE QueueInv'
    <2> DEFINE c == StrandOfEvent(e)
    <2>1. c \in Strands /\ queue[c] \in Seq(Events) /\ queue \in [Strands -> Seq(Events)]
      BY DEF TypeOK, StrandOfEvent
    <2>2. wpc[e] = "none" /\ wpc' = [wpc EXCEPT ![e] = "queued"] /\ wpc \in [Events -> WorkPoints]
      BY <1>3 DEF Spawn, CallInv, TypeOK
    <2>3. queue' = [queue EXCEPT ![c] = Append(queue[c], e)]
      BY <1>3 DEF Spawn
    <2>4. ASSUME NEW s \in Strands, NEW i \in 1..Len(queue[s])
          PROVE queue[s][i] \in Events /\ queue[s][i] # e
      BY <2>1, <2>2 DEF QueueInv
    <2>5. ASSUME NEW s \in Strands, s # c
          PROVE /\ \A i \in 1..Len(queue'[s]) :
                     wpc'[queue'[s][i]] = "queued" /\ StrandOfEvent(queue'[s][i]) = s
                /\ \A i, j \in 1..Len(queue'[s]) : queue'[s][i] = queue'[s][j] => i = j
      <3>1. queue'[s] = queue[s]
        BY <2>1, <2>3, <2>5
      <3> QED BY <3>1, <2>2, <2>4 DEF QueueInv
    <2>6. /\ \A i \in 1..Len(queue'[c]) :
                     wpc'[queue'[c][i]] = "queued" /\ StrandOfEvent(queue'[c][i]) = c
          /\ \A i, j \in 1..Len(queue'[c]) : queue'[c][i] = queue'[c][j] => i = j
      <3> HIDE DEF c
      <3>1. queue'[c] = Append(queue[c], e)
        BY <2>1, <2>3
      <3>2. Len(queue'[c]) = Len(queue[c]) + 1 /\ queue'[c][Len(queue[c]) + 1] = e
        BY <2>1, <3>1
      <3>3. \A i \in 1..Len(queue[c]) : queue'[c][i] = queue[c][i]
        BY <2>1, <3>1
      <3>4. \A i \in 1..Len(queue'[c]) : i \in 1..Len(queue[c]) \/ i = Len(queue[c]) + 1
        BY <2>1, <3>2
      <3>5. StrandOfEvent(e) = c
        BY DEF c
      <3>6. \A i \in 1..Len(queue'[c]) :
              wpc'[queue'[c][i]] = "queued" /\ StrandOfEvent(queue'[c][i]) = c
        <4> SUFFICES ASSUME NEW i \in 1..Len(queue'[c])
                     PROVE wpc'[queue'[c][i]] = "queued" /\ StrandOfEvent(queue'[c][i]) = c
          OBVIOUS
        <4>1. CASE i \in 1..Len(queue[c])
          <5>1. queue'[c][i] = queue[c][i] /\ queue[c][i] \in Events /\ queue[c][i] # e
            BY <2>1, <2>4, <3>3, <4>1
          <5>2. wpc[queue[c][i]] = "queued" /\ StrandOfEvent(queue[c][i]) = c
            BY <2>1, <4>1 DEF QueueInv
          <5> QED BY <2>2, <5>1, <5>2
        <4>2. CASE i = Len(queue[c]) + 1
          BY <2>2, <3>2, <3>5, <4>2
        <4> QED BY <3>4, <4>1, <4>2
      <3>7. \A i, j \in 1..Len(queue'[c]) : queue'[c][i] = queue'[c][j] => i = j
        <4> SUFFICES ASSUME NEW i \in 1..Len(queue'[c]), NEW j \in 1..Len(queue'[c]),
                            queue'[c][i] = queue'[c][j]
                     PROVE i = j
          OBVIOUS
        <4>1. CASE i \in 1..Len(queue[c]) /\ j \in 1..Len(queue[c])
          BY <2>1, <3>3, <4>1 DEF QueueInv
        <4>2. CASE i = Len(queue[c]) + 1 /\ j \in 1..Len(queue[c])
          BY <2>1, <2>4, <3>2, <3>3, <4>2
        <4>3. CASE i \in 1..Len(queue[c]) /\ j = Len(queue[c]) + 1
          BY <2>1, <2>4, <3>2, <3>3, <4>3
        <4> QED BY <3>4, <4>1, <4>2, <4>3
      <3> QED BY <3>6, <3>7
    <2> QED BY <2>5, <2>6 DEF QueueInv, StrandOfEvent
  <1>4. ASSUME NEW e \in Events, NEW p, p # "queued",
               wpc[e] # "queued", wpc' = [wpc EXCEPT ![e] = p], UNCHANGED queue
        PROVE QueueInv'
    <2>1. \A s \in Strands : \A i \in 1..Len(queue[s]) :
            queue[s][i] \in Events /\ queue[s][i] # e
      BY <1>4 DEF QueueInv, TypeOK
    <2>2. wpc \in [Events -> WorkPoints]
      BY DEF TypeOK
    <2> QED BY <1>4, <2>1, <2>2 DEF QueueInv, StrandOfEvent
  <1>5. ASSUME NEW s \in Strands, RunBegin(s) PROVE QueueInv'
    <2>1. queue[s] \in Seq(Events) /\ queue[s] # <<>> /\ queue \in [Strands -> Seq(Events)]
      BY <1>5 DEF RunBegin, TypeOK
    <2>2. Len(queue[s]) > 0 /\ Head(queue[s]) = queue[s][1] /\ queue[s][1] \in Events
      BY <2>1
    <2>3. wpc' = [wpc EXCEPT ![queue[s][1]] = "ingest"] /\ wpc \in [Events -> WorkPoints]
      BY <1>5, <2>2 DEF RunBegin, TypeOK
    <2>4. queue' = [queue EXCEPT ![s] = Tail(queue[s])]
      BY <1>5 DEF RunBegin
    <2>5. /\ Len(Tail(queue[s])) = Len(queue[s]) - 1
          /\ \A i \in 1..(Len(queue[s]) - 1) : Tail(queue[s])[i] = queue[s][i + 1]
      BY <2>1
    <2>6. ASSUME NEW r \in Strands, r # s
          PROVE /\ \A i \in 1..Len(queue'[r]) :
                     wpc'[queue'[r][i]] = "queued" /\ StrandOfEvent(queue'[r][i]) = r
                /\ \A i, j \in 1..Len(queue'[r]) : queue'[r][i] = queue'[r][j] => i = j
      <3>1. queue'[r] = queue[r] /\ queue[r] \in Seq(Events)
        BY <2>1, <2>4, <2>6
      <3>2. \A i \in 1..Len(queue[r]) : queue[r][i] # queue[s][1]
        BY <2>2, <2>6 DEF QueueInv
      <3> QED BY <2>3, <3>1, <3>2 DEF QueueInv
    <2>7. /\ \A i \in 1..Len(queue'[s]) :
                     wpc'[queue'[s][i]] = "queued" /\ StrandOfEvent(queue'[s][i]) = s
          /\ \A i, j \in 1..Len(queue'[s]) : queue'[s][i] = queue'[s][j] => i = j
      <3>1. queue'[s] = Tail(queue[s])
        BY <2>1, <2>4
      <3>2. \A i \in 1..Len(queue'[s]) :
              i + 1 \in 1..Len(queue[s]) /\ queue'[s][i] = queue[s][i + 1] /\ i + 1 # 1
        BY <2>1, <2>5, <3>1
      <3>3. \A i \in 1..Len(queue'[s]) :
              wpc'[queue'[s][i]] = "queued" /\ StrandOfEvent(queue'[s][i]) = s
        <4> SUFFICES ASSUME NEW i \in 1..Len(queue'[s])
                     PROVE wpc'[queue'[s][i]] = "queued" /\ StrandOfEvent(queue'[s][i]) = s
          OBVIOUS
        <4> DEFINE k == i + 1
        <4>1. k \in 1..Len(queue[s]) /\ queue'[s][i] = queue[s][k] /\ k # 1
          BY <3>2
        <4> HIDE DEF k
        <4>2. queue[s][k] # queue[s][1] /\ queue[s][k] \in Events
          BY <2>1, <2>2, <4>1 DEF QueueInv
        <4> QED BY <2>3, <4>1, <4>2 DEF QueueInv
      <3>4. \A i, j \in 1..Len(queue'[s]) : queue'[s][i] = queue'[s][j] => i = j
        <4> SUFFICES ASSUME NEW i \in 1..Len(queue'[s]), NEW j \in 1..Len(queue'[s]),
                            queue'[s][i] = queue'[s][j]
                     PROVE i = j
          OBVIOUS
        <4> DEFINE k == i + 1
                   l == j + 1
        <4>1. k \in 1..Len(queue[s]) /\ l \in 1..Len(queue[s]) /\ queue[s][k] = queue[s][l]
          BY <3>2
        <4> HIDE DEF k, l
        <4>2. k = l
          BY <4>1 DEF QueueInv
        <4> QED BY <4>2 DEF k, l
      <3> QED BY <3>3, <3>4
    <2> QED BY <2>6, <2>7 DEF QueueInv, StrandOfEvent
  <1> QED
    BY <1>1, <1>2, <1>3, <1>4, <1>5
    DEF Next, CallerStep, EvaluationStep, FinishStep, DrainStep, StartStep, StartBegin, StartMark, StartRun, DrainBegin, DrainQuiet,
        DrainExpire, DrainStop, DrainJoin, RequestStop, SubmitEnter, SubmitSyncEnter,
        TryAcquire, Count, CellsFor, SpawnDangling, Release, WakeDone, GiveUp,
        ReturnError, IngestReject, Evaluate, EvaluateThrows, Capture, EmitTarget, SignalDone, Complete, NotifyDrain, vars, workerVars, emitVars, CallInv

\* The coroutine a strand takes next is one that has been spawned and not begun.
LEMMA HeadIsQueued ==
  ASSUME TypeOK, QueueInv, NEW s \in Strands, queue[s] # <<>>
  PROVE  Head(queue[s]) \in Events /\ wpc[Head(queue[s])] = "queued"
  <1>1. queue[s] \in Seq(Events) /\ Len(queue[s]) > 0 /\ Head(queue[s]) = queue[s][1]
    BY DEF TypeOK
  <1> QED BY <1>1 DEF QueueInv

-------------------------------------------------------------------------------
(* Callers and the SyncContext. *)

\* Every step preserves the agreement of caller and coroutine.
LEMMA CallStep ==
  ASSUME TypeOK, QueueInv, CallInv, [Next]_vars
  PROVE  CallInv'
  <1> USE PipelineAssumption DEF CallInv, TypeOK, Goto, Return
  <1>1. CASE UNCHANGED <<pc, result, wpc>>
    BY <1>1
  <1>2. CASE StartInstall
    BY <1>2 DEF StartInstall, callerVars
  <1>3. ASSUME NEW e \in Events, CallerStep(e) PROVE CallInv'
    <2>1. CASE SubmitEnter(e) \/ SubmitSyncEnter(e)
      BY <2>1 DEF SubmitEnter, SubmitSyncEnter, workerVars
    <2>7. CASE TryAcquire(e)
      BY <2>7 DEF TryAcquire, workerVars
    <2>8. CASE Count(e) \/ CellsFor(e)
      BY <2>8 DEF Count, CellsFor, workerVars
    <2>2. CASE Spawn(e) \/ SpawnDangling(e)
      BY <2>2 DEF Spawn, SpawnDangling
    <2>3. CASE Release(e)
      BY <2>3 DEF Release, workerVars
    <2>4. CASE WakeDone(e)
      BY <2>4 DEF WakeDone, workerVars
    <2>5. CASE GiveUp(e)
      BY <2>5 DEF GiveUp, workerVars
    <2>6. CASE ReturnError(e)
      BY <2>6 DEF ReturnError, workerVars
    <2> QED BY <1>3, <2>1, <2>2, <2>3, <2>4, <2>5, <2>6, <2>7, <2>8 DEF CallerStep
  <1>4. ASSUME NEW e \in Events, EvaluationStep(e) \/ FinishStep(e) PROVE CallInv'
    BY <1>4 DEF EvaluationStep, FinishStep, IngestReject, Evaluate, EvaluateThrows, Capture, EmitTarget, SignalDone, Complete, NotifyDrain, callerVars
  <1>5. ASSUME NEW s \in Strands, RunBegin(s) PROVE CallInv'
    BY <1>5, HeadIsQueued DEF RunBegin, callerVars
  <1> QED
    BY <1>1, <1>2, <1>3, <1>4, <1>5
    DEF Next, DrainStep, StartStep, StartBegin, StartMark, StartRun, DrainBegin, DrainQuiet, DrainExpire, DrainStop,
        DrainJoin, RequestStop, vars, callerVars, workerVars

\* Every step preserves the SyncContext protocol.
LEMMA SyncStep ==
  ASSUME TypeOK, QueueInv, CallInv, SyncInv, [Next]_vars
  PROVE  SyncInv'
  <1> USE PipelineAssumption DEF SyncInv, CallInv, TypeOK, Goto, Return, SyncErrors
  <1>1. CASE UNCHANGED <<pc, result, wpc, ctxVars, emitVars>>
    BY <1>1 DEF ctxVars, emitVars
  <1>2. CASE StartInstall
    BY <1>2 DEF StartInstall, callerVars, ctxVars, emitVars
  <1>3. ASSUME NEW e \in Events, CallerStep(e) PROVE SyncInv'
    <2> USE DEF ctxVars, emitVars, workerVars
    <2>1. CASE SubmitEnter(e) BY <2>1 DEF SubmitEnter
    <2>2. CASE SubmitSyncEnter(e) BY <2>2 DEF SubmitSyncEnter
    <2>3. CASE TryAcquire(e) BY <2>3 DEF TryAcquire
    <2>4. CASE Count(e) \/ CellsFor(e) BY <2>4 DEF Count, CellsFor
    <2>5. CASE Spawn(e) \/ SpawnDangling(e) BY <2>5 DEF Spawn, SpawnDangling
    <2>6. CASE Release(e) BY <2>6 DEF Release
    <2>7. CASE WakeDone(e) BY <2>7 DEF WakeDone
    <2>8. CASE GiveUp(e) BY <2>8 DEF GiveUp
    <2>9. CASE ReturnError(e) BY <2>9 DEF ReturnError
    <2> QED BY <1>3, <2>1, <2>2, <2>3, <2>4, <2>5, <2>6, <2>7, <2>8, <2>9 DEF CallerStep
  <1>4. ASSUME NEW e \in Events, EvaluationStep(e) \/ FinishStep(e) PROVE SyncInv'
    <2> USE DEF ctxVars, emitVars, callerVars
    <2>1. CASE IngestReject(e) BY <2>1 DEF IngestReject
    <2>2. CASE Evaluate(e) \/ EvaluateThrows(e) BY <2>2 DEF Evaluate, EvaluateThrows
    <2>3. CASE Capture(e) BY <2>3 DEF Capture
    <2>4. CASE EmitTarget(e) BY <2>4 DEF EmitTarget
    <2>5. CASE SignalDone(e) BY <2>5 DEF SignalDone
    <2>6. CASE Complete(e) \/ NotifyDrain(e) BY <2>6 DEF Complete, NotifyDrain
    <2> QED BY <1>4, <2>1, <2>2, <2>3, <2>4, <2>5, <2>6 DEF EvaluationStep, FinishStep
  <1>5. ASSUME NEW s \in Strands, RunBegin(s) PROVE SyncInv'
    BY <1>5, HeadIsQueued DEF RunBegin, callerVars, ctxVars, emitVars
  <1> QED
    BY <1>1, <1>2, <1>3, <1>4, <1>5
    DEF Next, DrainStep, StartStep, StartBegin, StartMark, StartRun, DrainBegin, DrainQuiet, DrainExpire, DrainStop,
        DrainJoin, RequestStop, vars, callerVars, workerVars

\* The inductive invariant behind the submit_sync() contract.
SubmitInv == TypeOK /\ QueueInv /\ CallInv /\ SyncInv

\* The inductive invariant holds in every reachable state.
THEOREM SubmitInvariant == Spec => []SubmitInv
  <1>1. Init => SubmitInv
    <2> SUFFICES ASSUME Init PROVE QueueInv /\ CallInv /\ SyncInv
      BY InitTypeOK DEF SubmitInv
    <2>1. QueueInv
      BY DEF Init, QueueInv
    <2>2. CallInv
      BY DEF Init, CallInv
    <2>3. \A e \in SyncEvents : /\ nextTarget[e] = 1 /\ delivered[e] = {}
                                /\ wpc[e] = "none" /\ pc[e] = "start" /\ result[e] = "none"
      BY PipelineAssumption DEF Init
    <2>4. SyncInv
      BY <2>3 DEF Init, SyncInv, SyncErrors
    <2> QED BY <2>1, <2>2, <2>4
  <1>2. SubmitInv /\ [Next]_vars => SubmitInv'
    BY NextTypeOK, QueueStep, CallStep, SyncStep DEF SubmitInv
  <1> QED BY <1>1, <1>2, PTL DEF Spec

\* INV-2: after an error no target is ever called for the event.
THEOREM NoEmissionAfterError == Spec => []ErrorMeansNoEmission
  <1>1. SubmitInv => ErrorMeansNoEmission
    BY DEF SubmitInv, SyncInv, ErrorMeansNoEmission
  <1> QED BY <1>1, SubmitInvariant, PTL

-------------------------------------------------------------------------------
(* The in-flight counter. *)

\* A step that neither counts nor completes an event leaves Outstanding alone;
\* counting adds one event to it, completing removes one.
LEMMA OutstandingStep ==
  ASSUME TypeOK, QueueInv, CallInv, [Next]_vars
  PROVE  \/ Outstanding' = Outstanding /\ inFlight' = inFlight
         \/ \E e \in Events \ Outstanding :
              Outstanding' = Outstanding \cup {e} /\ inFlight' = inFlight + 1
         \/ \E e \in Outstanding :
              Outstanding' = Outstanding \ {e} /\ inFlight' = inFlight - 1
  <1> USE PipelineAssumption DEF CallInv, TypeOK, Goto, Return
  <1>1. CASE UNCHANGED <<pc, wpc, inFlight>>
    BY <1>1 DEF Outstanding
  <1>2. CASE StartInstall
    BY <1>2 DEF StartInstall, Outstanding, callerVars
  <1>3. ASSUME NEW e \in Events, Count(e)
        PROVE /\ e \in Events \ Outstanding
              /\ Outstanding' = Outstanding \cup {e} /\ inFlight' = inFlight + 1
    BY <1>3 DEF Count, Outstanding, workerVars
  <1>4. ASSUME NEW e \in Events, Complete(e)
        PROVE e \in Outstanding /\ Outstanding' = Outstanding \ {e} /\ inFlight' = inFlight - 1
    BY <1>4 DEF Complete, Outstanding, callerVars
  <1>5. ASSUME NEW e \in Events, CallerStep(e), ~Count(e)
        PROVE Outstanding' = Outstanding /\ inFlight' = inFlight
    <2>1. CASE SubmitEnter(e) \/ SubmitSyncEnter(e)
      BY <2>1 DEF SubmitEnter, SubmitSyncEnter, Outstanding, workerVars
    <2>2. CASE TryAcquire(e)
      BY <2>2 DEF TryAcquire, Outstanding, workerVars
    <2>3. CASE CellsFor(e)
      BY <2>3 DEF CellsFor, Outstanding, workerVars
    <2>4. CASE Spawn(e) \/ SpawnDangling(e)
      BY <2>4 DEF Spawn, SpawnDangling, Outstanding
    <2>5. CASE Release(e)
      BY <2>5 DEF Release, Outstanding, workerVars
    <2>6. CASE WakeDone(e)
      BY <2>6 DEF WakeDone, Outstanding, workerVars
    <2>7. CASE GiveUp(e)
      BY <2>7 DEF GiveUp, Outstanding, workerVars
    <2>8. CASE ReturnError(e)
      BY <2>8 DEF ReturnError, Outstanding, workerVars
    <2> QED BY <1>5, <2>1, <2>2, <2>3, <2>4, <2>5, <2>6, <2>7, <2>8 DEF CallerStep
  <1>6. ASSUME NEW e \in Events, EvaluationStep(e) \/ FinishStep(e), ~Complete(e)
        PROVE Outstanding' = Outstanding /\ inFlight' = inFlight
    BY <1>6 DEF EvaluationStep, FinishStep, IngestReject, Evaluate, EvaluateThrows, Capture, EmitTarget, SignalDone,
                NotifyDrain, Outstanding, callerVars
  <1>7. ASSUME NEW s \in Strands, RunBegin(s)
        PROVE Outstanding' = Outstanding /\ inFlight' = inFlight
    BY <1>7, HeadIsQueued DEF RunBegin, Outstanding, callerVars
  <1> QED
    BY <1>1, <1>2, <1>3, <1>4, <1>5, <1>6, <1>7
    DEF Next, DrainStep, StartStep, StartBegin, StartMark, StartRun, DrainBegin, DrainQuiet, DrainExpire, DrainStop,
        DrainJoin, RequestStop, vars, callerVars, workerVars

\* in_flight_ equals the number of outstanding events in every reachable state.
THEOREM InFlightAccounting == Spec => []InFlightExact
  <1>1. Init => InFlightExact
    <2> SUFFICES ASSUME Init PROVE InFlightExact
      OBVIOUS
    <2>1. Outstanding = {}
      BY DEF Init, Outstanding
    <2> QED BY <2>1, FS_EmptySet DEF Init, InFlightExact
  <1>2. SubmitInv /\ InFlightExact /\ [Next]_vars => InFlightExact'
    <2> SUFFICES ASSUME SubmitInv, InFlightExact, [Next]_vars PROVE InFlightExact'
      OBVIOUS
    <2>1. IsFiniteSet(Outstanding)
      <3>1. Outstanding \subseteq Events
        BY DEF Outstanding
      <3> QED BY <3>1, FS_Subset, PipelineAssumption
    <2>2. Cardinality(Outstanding) \in Nat
      BY <2>1, FS_CardinalityType
    <2>3. CASE Outstanding' = Outstanding /\ inFlight' = inFlight
      BY <2>3 DEF InFlightExact
    <2>4. ASSUME NEW e \in Events \ Outstanding,
                 Outstanding' = Outstanding \cup {e}, inFlight' = inFlight + 1
          PROVE InFlightExact'
      <3>1. Cardinality(Outstanding \cup {e}) = Cardinality(Outstanding) + 1
        BY <2>1, FS_AddElement
      <3> QED BY <2>4, <3>1 DEF InFlightExact
    <2>5. ASSUME NEW e \in Outstanding,
                 Outstanding' = Outstanding \ {e}, inFlight' = inFlight - 1
          PROVE InFlightExact'
      <3>1. Cardinality(Outstanding \ {e}) = Cardinality(Outstanding) - 1
        BY <2>1, FS_RemoveElement
      <3> QED BY <2>5, <3>1 DEF InFlightExact
    <2> QED BY <2>3, <2>4, <2>5, OutstandingStep DEF SubmitInv
  <1> QED BY <1>1, <1>2, SubmitInvariant, PTL DEF Spec

\* A drain that ends before its deadline has waited for every event whose
\* submission had returned successfully.
THEOREM DrainKeepsItsPromise == Spec => DrainWaitsForAccepted
  <1>1. ASSUME SubmitInv, InFlightExact, DrainQuiet, NEW e \in Events,
               result[e] \in {"Accepted", "Decision"}
        PROVE wpc[e] \in {"notifying", "complete"}
    <2>1. IsFiniteSet(Outstanding)
      <3>1. Outstanding \subseteq Events
        BY DEF Outstanding
      <3> QED BY <3>1, FS_Subset, PipelineAssumption
    <2>2. Cardinality(Outstanding) = 0
      BY <1>1 DEF InFlightExact, DrainQuiet
    <2>3. Outstanding = {}
      BY <2>1, <2>2, FS_EmptySet
    <2>4. wpc[e] # "none"
      BY <1>1 DEF SubmitInv, CallInv
    <2> QED BY <2>3, <2>4 DEF Outstanding
  <1>2. SubmitInv /\ InFlightExact =>
          [DrainQuiet => \A e \in Events :
             result[e] \in {"Accepted", "Decision"} =>
               wpc[e] \in {"notifying", "complete"}]_vars
    BY <1>1
  <1> QED BY <1>2, SubmitInvariant, InFlightAccounting, PTL DEF DrainWaitsForAccepted

-------------------------------------------------------------------------------
(* The lifecycle. *)

\* Where the controller is determines state_ up to Stopped/Running, and until
\* start() has installed a new one the pool of a stopped pipeline takes no
\* coroutine.
LifecycleInv ==
  /\ ctl \in {"draining", "stopping", "joining"} => state = "Draining"
  /\ ctl \in {"starting", "installed", "marked"} => state = "Starting"
  /\ ctl = "idle" => state \in {"Stopped", "Running"}
  /\ ctl \in {"joining", "starting"} \/ state = "Stopped" => ~poolUp

\* No coroutine executes while the pipeline is stopped or start() replaces its
\* stages and its router.
THEOREM StoppedIsQuiet == Spec => []StoppedMeansQuiet
  <1> DEFINE Inv == LifecycleInv /\ StoppedMeansQuiet
  <1>1. Init => Inv
    BY DEF Init, LifecycleInv, StoppedMeansQuiet, Active, ActivePoints
  <1>2. TypeOK /\ Inv /\ [Next]_vars => Inv'
    <2> SUFFICES ASSUME TypeOK, Inv, [Next]_vars PROVE Inv'
      OBVIOUS
    <2> USE DEF LifecycleInv, StoppedMeansQuiet, Active, ActivePoints
    <2>1. CASE UNCHANGED <<ctl, state, poolUp, wpc>>
      BY <2>1
    <2>2. CASE StartBegin BY <2>2 DEF StartBegin, workerVars
    <2>3. CASE StartStep
      BY <2>3 DEF StartStep, StartInstall, StartMark, StartRun, workerVars
    <2>4. CASE DrainBegin BY <2>4 DEF DrainBegin, workerVars
    <2>5. CASE DrainStep
      BY <2>5 DEF DrainStep, DrainQuiet, DrainExpire, DrainStop, DrainJoin, workerVars
    <2>6. ASSUME NEW e \in Events, Spawn(e) \/ SpawnDangling(e) PROVE Inv'
      BY <2>6 DEF Spawn, SpawnDangling, lifecycleVars, TypeOK
    <2>7. ASSUME NEW e \in Events, EvaluationStep(e) \/ FinishStep(e) PROVE Inv'
      BY <2>7 DEF EvaluationStep, FinishStep, IngestReject, Evaluate, EvaluateThrows, Capture, EmitTarget, SignalDone, Complete, NotifyDrain, lifecycleVars, TypeOK
    <2>8. ASSUME NEW s \in Strands, RunBegin(s) PROVE Inv'
      BY <2>8 DEF RunBegin, lifecycleVars
    <2> QED
      BY <2>1, <2>2, <2>3, <2>4, <2>5, <2>6, <2>7, <2>8
      DEF Next, CallerStep, RequestStop, SubmitEnter, SubmitSyncEnter, TryAcquire,
          Count, CellsFor, Release, WakeDone, GiveUp, ReturnError, vars,
          lifecycleVars, workerVars
  <1> QED BY <1>1, <1>2, TypeCorrect, PTL DEF Spec

-------------------------------------------------------------------------------
(* The refinement of SubmitOutcome. *)

\* A step that changes neither a result, nor a SyncContext, nor an emission
\* position is a stutter of the contract.
LEMMA OutcomeStutter ==
  ASSUME UNCHANGED <<result, ctxDecision, ctxError, ctxCancelled, nextTarget>>
  PROVE  UNCHANGED Outcome!outcomeVars
  BY DEF Outcome!outcomeVars, Fate, AnswerOf

\* A step that concerns event e alone leaves the outcome of the others alone.
LEMMA OutcomeOthers ==
  ASSUME NEW e \in SyncEvents, NEW f \in SyncEvents, f # e,
         result'[f] = result[f],
         f \in ctxDecision' <=> f \in ctxDecision,
         f \in ctxError' <=> f \in ctxError,
         f \in ctxCancelled' <=> f \in ctxCancelled
  PROVE  Fate(f)' = Fate(f) /\ AnswerOf(f)' = AnswerOf(f)
  BY DEF Fate, AnswerOf

\* submit_sync() implements its contract, SubmitOutcome.
THEOREM PipelineImplementsOutcome == Spec => ImplementsOutcome
  <1>1. Init => Outcome!OutcomeInit
    BY PipelineAssumption DEF Init, Outcome!OutcomeInit, Fate, AnswerOf, SyncErrors
  <1>2. SubmitInv /\ [Next]_vars => [Outcome!OutcomeNext]_(Outcome!outcomeVars)
    <2> SUFFICES ASSUME SubmitInv, [Next]_vars
                 PROVE  Outcome!OutcomeNext \/ UNCHANGED Outcome!outcomeVars
      OBVIOUS
    <2> USE PipelineAssumption
    <2>a. SyncInv /\ CallInv /\ TypeOK
      BY DEF SubmitInv
    <2>1. CASE UNCHANGED <<result, ctxDecision, ctxError, ctxCancelled, nextTarget>>
      BY <2>1, OutcomeStutter
    <2>2. ASSUME NEW e \in SyncEvents, NEW r \in SyncErrors,
                 result[e] = "none", result' = [result EXCEPT ![e] = r],
                 UNCHANGED <<ctxDecision, ctxError, ctxCancelled, nextTarget>>,
                 e \notin ctxDecision
          PROVE Outcome!OutcomeNext
      <3>1. \A f \in SyncEvents \ {e} : Fate(f)' = Fate(f) /\ AnswerOf(f)' = AnswerOf(f)
        BY <2>2, <2>a, OutcomeOthers DEF TypeOK
      <3>2. AnswerOf(e) = "none" /\ AnswerOf(e)' = "error" /\ Fate(e)' = "drop"
        BY <2>2, <2>a DEF AnswerOf, Fate, SyncErrors, TypeOK
      <3>3. Fate(e) = "open" \/ Fate(e) = "drop"
        BY <2>2 DEF Fate
      <3>4. CASE Fate(e) = "open"
        <4>1. Outcome!Refuse(e)
          BY <2>2, <3>1, <3>2, <3>4 DEF Outcome!Refuse
        <4> QED BY <4>1 DEF Outcome!OutcomeNext
      <3>5. CASE Fate(e) = "drop"
        <4>1. Outcome!Answer(e)
          BY <2>2, <3>1, <3>2, <3>5 DEF Outcome!Answer
        <4> QED BY <4>1 DEF Outcome!OutcomeNext
      <3> QED BY <3>3, <3>4, <3>5
    <2>3. ASSUME NEW e \in SyncEvents,
                 result[e] = "none", result' = [result EXCEPT ![e] = "Decision"],
                 UNCHANGED <<ctxDecision, ctxError, nextTarget>>,
                 e \in ctxDecision, ctxCancelled' \in {ctxCancelled, ctxCancelled \cup {e}}
          PROVE Outcome!OutcomeNext
      <3>1. \A f \in SyncEvents \ {e} : Fate(f)' = Fate(f) /\ AnswerOf(f)' = AnswerOf(f)
        BY <2>3, <2>a, OutcomeOthers DEF TypeOK
      <3>2. /\ AnswerOf(e) = "none" /\ AnswerOf(e)' = "decision"
            /\ Fate(e) = "emit" /\ Fate(e)' = "emit"
        BY <2>3, <2>a DEF AnswerOf, Fate, SyncErrors, TypeOK
      <3>3. Outcome!Answer(e)
        BY <2>3, <3>1, <3>2 DEF Outcome!Answer
      <3> QED BY <3>3 DEF Outcome!OutcomeNext
    <2>4. ASSUME NEW e \in SyncEvents, e \notin ctxDecision,
                 UNCHANGED <<result, ctxDecision, nextTarget>>,
                 \/ ctxCancelled' = ctxCancelled \cup {e} /\ UNCHANGED ctxError
                 \/ ctxError' = ctxError \cup {e} /\ UNCHANGED ctxCancelled
          PROVE Outcome!OutcomeNext \/ UNCHANGED Outcome!outcomeVars
      <3>1. \A f \in SyncEvents \ {e} : Fate(f)' = Fate(f) /\ AnswerOf(f)' = AnswerOf(f)
        BY <2>4, <2>a, OutcomeOthers
      <3>2. AnswerOf(e)' = AnswerOf(e) /\ Fate(e)' = "drop"
        BY <2>4 DEF AnswerOf, Fate
      <3>3. CASE Fate(e) = "drop"
        BY <2>4, <3>1, <3>2, <3>3 DEF Outcome!outcomeVars
      <3>4. CASE Fate(e) = "open"
        <4>1. Outcome!Abandon(e)
          BY <2>4, <3>1, <3>2, <3>4 DEF Outcome!Abandon
        <4> QED BY <4>1 DEF Outcome!OutcomeNext
      <3> QED BY <2>4, <3>3, <3>4 DEF Fate
    <2>5. ASSUME NEW e \in SyncEvents, wpc[e] = "decided", e \notin ctxCancelled,
                 ctxDecision' = ctxDecision \cup {e},
                 UNCHANGED <<result, ctxError, ctxCancelled, nextTarget>>
          PROVE Outcome!OutcomeNext
      <3>1. \A f \in SyncEvents \ {e} : Fate(f)' = Fate(f) /\ AnswerOf(f)' = AnswerOf(f)
        BY <2>5, <2>a, OutcomeOthers
      <3>2. AnswerOf(e)' = AnswerOf(e) /\ Fate(e)' = "emit" /\ Fate(e) = "open"
        BY <2>5, <2>a DEF AnswerOf, Fate, SyncInv
      <3>3. Outcome!Commit(e)
        BY <2>5, <3>1, <3>2 DEF Outcome!Commit
      <3> QED BY <3>3 DEF Outcome!OutcomeNext
    <2>6. ASSUME NEW e \in Events, EmitTarget(e)
          PROVE Outcome!OutcomeNext \/ UNCHANGED Outcome!outcomeVars
      <3>1. UNCHANGED <<result, ctxDecision, ctxError, ctxCancelled>>
        BY <2>6 DEF EmitTarget, callerVars, ctxVars
      <3>2. \A f \in SyncEvents : Fate(f)' = Fate(f) /\ AnswerOf(f)' = AnswerOf(f)
        BY <3>1 DEF Fate, AnswerOf
      <3>3. \A f \in SyncEvents : nextTarget'[f] = IF f = e THEN nextTarget[f] + 1 ELSE nextTarget[f]
        BY <2>6, <2>a DEF EmitTarget, TypeOK
      <3>4. CASE e \in SyncEvents
        <4>1. Fate(e) = "emit"
          BY <2>6, <2>a, <3>4 DEF EmitTarget, SyncInv, Fate
        <4>2. {f \in SyncEvents : nextTarget'[f] > 1} = {f \in SyncEvents : nextTarget[f] > 1} \cup {e}
          BY <2>a, <3>3, <3>4 DEF TypeOK
        <4>3. Outcome!Emit(e)
          BY <3>2, <4>1, <4>2, <3>4 DEF Outcome!Emit
        <4> QED BY <3>4, <4>3 DEF Outcome!OutcomeNext
      <3>5. CASE e \notin SyncEvents
        <4>1. \A f \in SyncEvents : nextTarget'[f] = nextTarget[f]
          BY <3>3, <3>5
        <4> QED BY <3>2, <4>1 DEF Outcome!outcomeVars
      <3> QED BY <3>4, <3>5
    <2>7. ASSUME NEW e \in Events, CallerStep(e)
          PROVE Outcome!OutcomeNext \/ UNCHANGED Outcome!outcomeVars
      <3> USE <2>a DEF Return, ctxVars, emitVars, workerVars
      <3>1. CASE e \notin SyncEvents
        \* submit() returns a result no outcome is about.
        <4>1. \A f \in Events \ {e} : result'[f] = result[f]
          <5>1. CASE SubmitEnter(e) \/ SubmitSyncEnter(e) \/ TryAcquire(e)
            BY <5>1 DEF TypeOK, SubmitEnter, SubmitSyncEnter, TryAcquire
          <5>2. CASE Count(e) \/ CellsFor(e) \/ Spawn(e) \/ SpawnDangling(e)
            BY <5>2 DEF Count, CellsFor, Spawn, SpawnDangling
          <5>3. CASE Release(e) \/ WakeDone(e)
            BY <5>3 DEF TypeOK, Release, WakeDone
          <5>4. CASE GiveUp(e) \/ ReturnError(e)
            BY <5>4 DEF TypeOK, GiveUp, ReturnError
          <5> QED BY <2>7, <5>1, <5>2, <5>3, <5>4 DEF CallerStep
        <4>2. \A f \in SyncEvents : result'[f] = result[f]
          BY <3>1, <4>1
        <4>3. UNCHANGED <<ctxDecision, ctxError, ctxCancelled, nextTarget>>
          BY <2>7, <3>1 DEF CallerStep, SubmitEnter, SubmitSyncEnter, TryAcquire, Count,
             CellsFor, Spawn, SpawnDangling, Release, WakeDone, GiveUp, ReturnError
        <4>4. \A f \in SyncEvents : Fate(f)' = Fate(f) /\ AnswerOf(f)' = AnswerOf(f)
          BY <4>2, <4>3 DEF Fate, AnswerOf
        <4> QED BY <4>3, <4>4 DEF Outcome!outcomeVars
      <3>2. CASE e \in SyncEvents
        <4>0. pc[e] # "returned" => result[e] = "none"
          BY DEF CallInv
        <4>1. CASE SubmitEnter(e) BY <3>2, <4>1 DEF SubmitEnter
        <4>2. CASE SubmitSyncEnter(e)
          <5>1. e \notin ctxDecision
            BY <4>2 DEF SubmitSyncEnter, CallInv, SyncInv
          <5>2. CASE UNCHANGED result
            BY <4>2, <5>2, <2>1 DEF SubmitSyncEnter
          <5>3. CASE \E r \in SyncErrors : result' = [result EXCEPT ![e] = r]
            BY <4>2, <4>0, <5>1, <5>3, <3>2, <2>2 DEF SubmitSyncEnter
          <5> QED BY <4>2, <5>2, <5>3 DEF SubmitSyncEnter, SyncErrors
        <4>3. CASE TryAcquire(e)
          <5>1. e \notin ctxDecision
            BY <3>2, <4>3 DEF TryAcquire, CallInv, SyncInv
          <5>2. CASE UNCHANGED result
            BY <4>3, <5>2, <2>1 DEF TryAcquire
          <5>3. CASE result' = [result EXCEPT ![e] = "RateLimited"]
            BY <4>3, <4>0, <5>1, <5>3, <3>2, <2>2 DEF TryAcquire, SyncErrors
          <5> QED BY <4>3, <5>2, <5>3 DEF TryAcquire
        <4>4. CASE Count(e) \/ CellsFor(e) \/ Spawn(e) \/ SpawnDangling(e) \/ Release(e)
          BY <4>4, <3>2, <2>1 DEF Count, CellsFor, Spawn, SpawnDangling, Release
        <4>5. CASE WakeDone(e)
          <5>1. CASE e \in ctxError
            <6>1. e \notin ctxDecision
              BY <3>2, <5>1 DEF SyncInv
            <6> QED BY <4>5, <4>0, <5>1, <6>1, <3>2, <2>2 DEF WakeDone, SyncErrors
          <5>2. CASE e \notin ctxError
            <6>1. e \in ctxDecision
              BY <3>2, <4>5, <5>2 DEF SyncInv, WakeDone
            <6> QED BY <4>5, <4>0, <5>2, <6>1, <3>2, <2>3 DEF WakeDone
          <5> QED BY <5>1, <5>2
        <4>6. CASE GiveUp(e)
          <5>1. CASE e \in ctxDecision
            BY <4>6, <4>0, <5>1, <3>2, <2>3 DEF GiveUp
          <5>2. CASE e \notin ctxDecision
            BY <4>6, <5>2, <3>2, <2>4 DEF GiveUp
          <5> QED BY <5>1, <5>2
        <4>7. CASE ReturnError(e)
          <5>1. e \notin ctxDecision
            BY <3>2, <4>7 DEF ReturnError, SyncInv
          <5> QED BY <4>7, <4>0, <5>1, <3>2, <2>2 DEF ReturnError, SyncErrors
        <4> QED BY <2>7, <4>1, <4>2, <4>3, <4>4, <4>5, <4>6, <4>7 DEF CallerStep
      <3> QED BY <3>1, <3>2
    <2>8. ASSUME NEW e \in Events, EvaluationStep(e) \/ FinishStep(e)
          PROVE Outcome!OutcomeNext \/ UNCHANGED Outcome!outcomeVars
      <3> USE DEF callerVars, ctxVars, emitVars
      <3>1. CASE IngestReject(e)
        <4>1. e \in SyncEvents /\ e \notin ctxDecision
          BY <3>1, <2>a DEF IngestReject, SyncInv
        <4> QED BY <3>1, <4>1, <2>4 DEF IngestReject
      <3>2. CASE Capture(e)
        <4>1. CASE e \in SyncEvents /\ e \notin ctxCancelled
          BY <3>2, <4>1, <2>5 DEF Capture
        <4>2. CASE ~(e \in SyncEvents /\ e \notin ctxCancelled)
          BY <3>2, <4>2, <2>1 DEF Capture
        <4> QED BY <4>1, <4>2
      <3>3. CASE Evaluate(e) \/ EvaluateThrows(e) \/ SignalDone(e) \/ Complete(e) \/ NotifyDrain(e)
        BY <3>3, <2>1 DEF Evaluate, EvaluateThrows, SignalDone, Complete, NotifyDrain
      <3> QED BY <2>8, <2>6, <3>1, <3>2, <3>3 DEF EvaluationStep, FinishStep
    <2> QED
      BY <2>1, <2>7, <2>8
      DEF Next, StartBegin, StartStep, StartInstall, StartMark, StartRun, DrainBegin, DrainStep, DrainQuiet, DrainExpire,
          DrainStop, DrainJoin, RequestStop, RunBegin, vars, callerVars, ctxVars,
          emitVars, workerVars
  <1> QED
    BY <1>1, <1>2, SubmitInvariant, PTL
    DEF Spec, ImplementsOutcome, Outcome!OutcomeSpec
===============================================================================
