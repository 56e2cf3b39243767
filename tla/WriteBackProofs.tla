---------------------------- MODULE WriteBackProofs ----------------------------
(***************************************************************************)
(* Proofs about WriteBackStore: its type invariant, the exactness of the   *)
(* window counts, and that the table catches up with the memory and never  *)
(* goes back for a key that was not expired and that overlapping flushes   *)
(* did not hold, for any numbers of keys, writers and flushers.            *)
(***************************************************************************)
EXTENDS WriteBackStore, TLAPS

\* What the control points say about the locals: a writer still trying has an
\* attempt left, and only a flusher that is reading holds a snapshot.
LocalsOK ==
  /\ \A w \in Writers : wpc[w] \in {"idle", "get", "got"} => attempts[w] < MaxAttempts
  /\ \A f \in Flushers : fpc[f] # "reading" => dirtySnap[f] = {}

\* TypeOK is not inductive alone: the bound on attempts and the shape of a
\* batch need LocalsOK.
TypeInv == TypeOK /\ LocalsOK

\* The store before its first construction is well typed.
LEMMA InitTypeOK == Init => TypeInv
<1> SUFFICES ASSUME Init PROVE TypeInv
    OBVIOUS
<1>1. AnyKey \in Keys
    BY WriteBackAssumption DEF AnyKey
<1>2. Zero \in WindowValue
    BY DEF Zero, WindowValue
<1>3. NoBatch \in [{} -> WindowValue] /\ DOMAIN NoBatch = {}
    BY DEF NoBatch
<1>4. \A f \in Flushers : /\ DOMAIN batch[f] \subseteq dirtySnap[f]
                          /\ batch[f] \in [DOMAIN batch[f] -> WindowValue]
    BY <1>3 DEF Init
<1> QED BY <1>1, <1>2, <1>4, WriteBackAssumption
        DEF Init, TypeInv, LocalsOK, TypeOK, WriterPoints, FlusherPoints

\* The part of the type invariant about batches.
BatchOK ==
  /\ dirtySnap \in [Flushers -> SUBSET Keys]
  /\ DOMAIN batch = Flushers
  /\ \A f \in Flushers : /\ DOMAIN batch[f] \subseteq dirtySnap[f]
                         /\ batch[f] \in [DOMAIN batch[f] -> WindowValue]

\* A step that leaves the flushers alone keeps the batches well formed.
LEMMA BatchUnchanged ==
  ASSUME TypeOK, UNCHANGED <<dirtySnap, batch>> PROVE BatchOK'
BY DEF TypeOK, BatchOK

\* A flusher that throws its batch away keeps the batches well formed.
LEMMA BatchCleared ==
  ASSUME TypeOK, NEW f \in Flushers,
         batch' = [batch EXCEPT ![f] = NoBatch],
         dirtySnap' = [dirtySnap EXCEPT ![f] = {}]
  PROVE  BatchOK'
<1>1. NoBatch \in [{} -> WindowValue] /\ DOMAIN NoBatch = {}
    BY DEF NoBatch
<1>2. DOMAIN batch' = Flushers /\ dirtySnap' \in [Flushers -> SUBSET Keys]
    BY DEF TypeOK
<1>3. ASSUME NEW g \in Flushers
      PROVE  DOMAIN batch'[g] \subseteq dirtySnap'[g]
             /\ batch'[g] \in [DOMAIN batch'[g] -> WindowValue]
  <2>1. CASE g = f
    <3>1. batch'[g] = NoBatch
        BY <2>1 DEF TypeOK
    <3> QED BY <3>1, <1>1
  <2>2. CASE g # f
    <3>1. batch'[g] = batch[g] /\ dirtySnap'[g] = dirtySnap[g]
        BY <2>2 DEF TypeOK
    <3> QED BY <3>1 DEF TypeOK
  <2> QED BY <2>1, <2>2
<1> QED BY <1>2, <1>3 DEF BatchOK

\* Every step of writers, flushers and process preserves the type invariant.
LEMMA NextTypeOK == TypeInv /\ [Next]_vars => TypeOK'
<1> SUFFICES ASSUME TypeOK, LocalsOK, [Next]_vars PROVE TypeOK'
    BY DEF TypeInv
<1> USE DEF storeVars, setVars, writerVars, flusherVars, historyVars
<1>a. AnyKey \in Keys
    BY WriteBackAssumption DEF AnyKey
<1>z. Zero \in WindowValue
    BY DEF Zero, WindowValue
<1>b. NoBatch \in [{} -> WindowValue] /\ DOMAIN NoBatch = {}
    BY DEF NoBatch
<1>u. \A v \in WindowValue : Updated(v) \in WindowValue
    BY DEF Updated, WindowValue
<1>v. \A v \in WindowValue : v.aggregate \in Nat
    BY DEF WindowValue
<1>1. CASE Start
  <2>1. primary' \in [Keys -> WindowValue]
      BY <1>1, <1>z DEF Start, LoadWarmTier, TypeOK
  <2>2. counted' \in [Keys -> Nat]
      BY <1>1, <2>1, <1>v DEF Start
  <2>3. BatchOK'
      BY <1>1, BatchUnchanged DEF Start
  <2>4. tier' \in {"loaded", "unavailable", "unread"}
      BY <1>1 DEF Start, ScanOutcomes
  <2> QED BY <1>1, <2>1, <2>2, <2>3, <2>4 DEF Start, TypeOK, BatchOK
<1>2. CASE Crash
  <2>3. BatchOK'
      BY <1>2, <1>b DEF Crash, TypeOK, BatchOK
  <2> QED BY <1>2, <2>3, <1>a, <1>z, WriteBackAssumption
          DEF Crash, TypeOK, BatchOK, WriterPoints, FlusherPoints
<1>3. CASE Close
    BY <1>3, BatchUnchanged DEF Close, TypeOK, BatchOK
<1>4. CASE Closed
    BY <1>4, BatchUnchanged DEF Closed, TypeOK, BatchOK
<1>5. ASSUME NEW w \in Writers, NEW k \in Keys, Evaluate(w, k) PROVE TypeOK'
    BY <1>5, BatchUnchanged DEF Evaluate, TypeOK, BatchOK, WriterPoints
<1>6. ASSUME NEW w \in Writers, NEW k \in Keys, Expire(w, k) PROVE TypeOK'
  <2>1. BatchOK'
      BY <1>6, BatchUnchanged DEF Expire
  <2>2. primary' \in [Keys -> WindowValue] /\ counted' \in [Keys -> Nat]
      BY <1>6, <1>z DEF Expire, TypeOK
  <2>3. wpc' \in [Writers -> WriterPoints] /\ wkey' \in [Writers -> Keys]
      BY <1>6 DEF Expire, TypeOK, WriterPoints
  <2> QED BY <1>6, <2>1, <2>2, <2>3 DEF Expire, TypeOK, BatchOK
<1>7. ASSUME NEW w \in Writers, Get(w) PROVE TypeOK'
    BY <1>7, BatchUnchanged DEF Get, TypeOK, BatchOK, WriterPoints
<1>8. ASSUME NEW w \in Writers, Swap(w) PROVE TypeOK'
  <2>1. BatchOK'
      BY <1>8, BatchUnchanged DEF Swap
  <2>2. primary' \in [Keys -> WindowValue] /\ counted' \in [Keys -> Nat]
      BY <1>8, <1>u DEF Swap, TypeOK
  <2>3. current' \in [Writers -> WindowValue] /\ attempts' \in [Writers -> 0..MaxAttempts]
      BY <1>8, <1>z, WriteBackAssumption DEF Swap, TypeOK
  <2> QED BY <1>8, <2>1, <2>2, <2>3 DEF Swap, TypeOK, BatchOK, WriterPoints
<1>9. ASSUME NEW w \in Writers, SwapFails(w) PROVE TypeOK'
  <2>1. BatchOK'
      BY <1>9, BatchUnchanged DEF SwapFails
  <2>2. current' \in [Writers -> WindowValue]
      BY <1>9, <1>z DEF SwapFails, TypeOK
  <2>3. attempts' \in [Writers -> 0..MaxAttempts]
      BY <1>9, WriteBackAssumption DEF SwapFails, LocalsOK, TypeOK
  <2> QED BY <1>9, <2>1, <2>2, <2>3 DEF SwapFails, TypeOK, BatchOK, WriterPoints
<1>10. ASSUME NEW w \in Writers, MarkDirty(w) PROVE TypeOK'
    BY <1>10, <1>a, <1>z, WriteBackAssumption, BatchUnchanged
    DEF MarkDirty, WriterDone, TypeOK, BatchOK, WriterPoints
<1>11. ASSUME NEW w \in Writers, Contended(w) PROVE TypeOK'
    BY <1>11, <1>a, <1>z, WriteBackAssumption, BatchUnchanged
    DEF Contended, WriterDone, TypeOK, BatchOK, WriterPoints
<1>12. ASSUME NEW w \in Writers, MarkExpired(w) PROVE TypeOK'
    BY <1>12, <1>a, <1>z, WriteBackAssumption, BatchUnchanged
    DEF MarkExpired, WriterDone, TypeOK, BatchOK, WriterPoints
<1>13. ASSUME NEW f \in Flushers, FlushSwap(f) PROVE TypeOK'
  <2>1. BatchOK'
      BY <1>13 DEF FlushSwap, LocalsOK, TypeOK, BatchOK
  <2> QED BY <1>13, <2>1 DEF FlushSwap, TypeOK, BatchOK, FlusherPoints
<1>14. ASSUME NEW f \in Flushers, NEW k \in Keys, FlushRead(f, k) PROVE TypeOK'
  <2>1. BatchOK'
      BY <1>14 DEF FlushRead, TypeOK, BatchOK
  <2> QED BY <1>14, <2>1 DEF FlushRead, TypeOK, BatchOK
<1>15. ASSUME NEW f \in Flushers, FlushUpsert(f) PROVE TypeOK'
  <2>1. BatchOK'
      BY <1>15, BatchCleared DEF FlushUpsert
  <2>2. warm' \in [Keys -> WindowValue]
      BY <1>15 DEF FlushUpsert, TypeOK
  <2> QED BY <1>15, <2>1, <2>2 DEF FlushUpsert, TypeOK, BatchOK, FlusherPoints
<1>16. ASSUME NEW f \in Flushers, FlushRequeue(f) PROVE TypeOK'
  <2>1. BatchOK'
      BY <1>16, BatchCleared DEF FlushRequeue
  <2> QED BY <1>16, <2>1 DEF FlushRequeue, TypeOK, BatchOK, FlusherPoints
<1>17. ASSUME NEW f \in Flushers, NEW k \in Keys, FlushDelete(f, k) PROVE TypeOK'
    BY <1>17, <1>z, BatchUnchanged DEF FlushDelete, TypeOK, BatchOK
<1>18. ASSUME NEW f \in Flushers, FlushReturn(f) PROVE TypeOK'
    BY <1>18, BatchUnchanged DEF FlushReturn, TypeOK, BatchOK, FlusherPoints
<1>19. CASE UNCHANGED vars
    BY <1>19, BatchUnchanged DEF vars, TypeOK, BatchOK
<1> QED BY <1>1, <1>2, <1>3, <1>4, <1>5, <1>6, <1>7, <1>8, <1>9, <1>10, <1>11, <1>12,
           <1>13, <1>14, <1>15, <1>16, <1>17, <1>18, <1>19
        DEF Next, WriterStep, FlushStep

\* ... and LocalsOK with it.
LEMMA NextLocalsOK == TypeInv /\ [Next]_vars => LocalsOK'
<1> SUFFICES ASSUME TypeOK, LocalsOK, [Next]_vars PROVE LocalsOK'
    BY DEF TypeInv
<1> USE DEF storeVars, setVars, writerVars, flusherVars, historyVars
<1>1. CASE Start
    BY <1>1 DEF Start, LocalsOK
<1>2. CASE Crash
    BY <1>2, WriteBackAssumption DEF Crash, LocalsOK
<1>3. CASE Close \/ Closed
    BY <1>3 DEF Close, Closed, LocalsOK
<1>4. ASSUME NEW w \in Writers, NEW k \in Keys, Evaluate(w, k) \/ Expire(w, k)
      PROVE  LocalsOK'
    BY <1>4 DEF Evaluate, Expire, LocalsOK, TypeOK
<1>5. ASSUME NEW w \in Writers, Get(w) \/ Swap(w) PROVE LocalsOK'
    BY <1>5 DEF Get, Swap, LocalsOK, TypeOK
<1>6. ASSUME NEW w \in Writers, SwapFails(w) PROVE LocalsOK'
    BY <1>6 DEF SwapFails, LocalsOK, TypeOK
<1>7. ASSUME NEW w \in Writers, MarkDirty(w) \/ Contended(w) \/ MarkExpired(w)
      PROVE  LocalsOK'
    BY <1>7, WriteBackAssumption
    DEF MarkDirty, Contended, MarkExpired, WriterDone, LocalsOK, TypeOK
<1>8. ASSUME NEW f \in Flushers, FlushSwap(f) PROVE LocalsOK'
    BY <1>8 DEF FlushSwap, LocalsOK, TypeOK
<1>9. ASSUME NEW f \in Flushers, NEW k \in Keys, FlushRead(f, k) \/ FlushDelete(f, k)
      PROVE  LocalsOK'
    BY <1>9 DEF FlushRead, FlushDelete, LocalsOK
<1>10. ASSUME NEW f \in Flushers, FlushUpsert(f) \/ FlushRequeue(f) PROVE LocalsOK'
    BY <1>10 DEF FlushUpsert, FlushRequeue, LocalsOK, TypeOK
<1>11. ASSUME NEW f \in Flushers, FlushReturn(f) PROVE LocalsOK'
    BY <1>11 DEF FlushReturn, LocalsOK, TypeOK
<1>12. CASE UNCHANGED vars
    BY <1>12 DEF vars, LocalsOK
<1> QED BY <1>1, <1>2, <1>3, <1>4, <1>5, <1>6, <1>7, <1>8, <1>9, <1>10, <1>11, <1>12
        DEF Next, WriterStep, FlushStep

\* The strengthened type invariant.
THEOREM TypeInvariant == Spec => []TypeInv
<1>1. TypeInv /\ [Next]_vars => TypeInv'
    BY NextTypeOK, NextLocalsOK DEF TypeInv
<1> QED BY <1>1, InitTypeOK, PTL DEF Spec

\* The type invariant holds for every number of keys, writers and flushers.
THEOREM TypeCorrect == Spec => []TypeOK
<1>1. TypeInv => TypeOK
    BY DEF TypeInv
<1> QED BY <1>1, TypeInvariant, PTL

-------------------------------------------------------------------------------
(* The counts. *)

\* CountExact made inductive: every value that can still be written to a key,
\* the one an evaluation has read, a row of the table, a row of a batch, counts
\* as many evaluations as its version says.
Even(v) == v.aggregate = v.version

CountInv ==
  /\ CountExact
  /\ \A w \in Writers : Even(current[w])
  /\ \A k \in Keys : Even(warm[k])
  /\ \A f \in Flushers : \A k \in DOMAIN batch[f] : Even(batch[f][k])

\* The counts start exact and every step keeps them so.
LEMMA CountStep ==
  /\ Init => CountInv
  /\ TypeInv /\ CountInv /\ [Next]_vars => CountInv'
<1> USE DEF storeVars, setVars, writerVars, flusherVars, historyVars
<1>z. Even(Zero) /\ Zero.aggregate = 0 /\ Zero.version = 0 /\ DOMAIN NoBatch = {}
    BY DEF Even, Zero, NoBatch
<1>i. Init => CountInv
    BY <1>z DEF Init, CountInv, CountExact
<1>n. ASSUME TypeOK, LocalsOK, CountInv, [Next]_vars PROVE CountInv'
  <2>1. CASE Start
    <3>1. CountExact'
        BY <1>n, <2>1, <1>z DEF Start, LoadWarmTier, CountInv, CountExact, Even, TypeOK
    <3> QED BY <1>n, <2>1, <3>1 DEF Start, CountInv
  <2>2. CASE Crash
      BY <1>n, <2>2, <1>z DEF Crash, CountInv, CountExact
  <2>3. CASE Close \/ Closed
      BY <1>n, <2>3 DEF Close, Closed, CountInv, CountExact
  <2>4. ASSUME NEW w \in Writers, NEW k \in Keys, Evaluate(w, k) PROVE CountInv'
      BY <1>n, <2>4 DEF Evaluate, CountInv, CountExact
  <2>5. ASSUME NEW w \in Writers, NEW k \in Keys, Expire(w, k) PROVE CountInv'
      BY <1>n, <2>5, <1>z DEF Expire, CountInv, CountExact, TypeOK
  <2>6. ASSUME NEW w \in Writers, Get(w) PROVE CountInv'
      BY <1>n, <2>6 DEF Get, CountInv, CountExact, Even, TypeOK
  <2>7. ASSUME NEW w \in Writers, Swap(w) PROVE CountInv'
    <3>1. /\ wkey[w] \in Keys
          /\ Updated(current[w]).aggregate = counted[wkey[w]] + 1
          /\ Updated(current[w]).version = counted[wkey[w]] + 1
        BY <1>n, <2>7 DEF Swap, CountInv, CountExact, Even, Updated, TypeOK
    <3>2. CountExact'
        BY <1>n, <2>7, <3>1 DEF Swap, CountInv, CountExact, TypeOK
    <3> QED BY <1>n, <2>7, <3>2, <1>z DEF Swap, CountInv, TypeOK
  <2>8. ASSUME NEW w \in Writers, SwapFails(w) PROVE CountInv'
      BY <1>n, <2>8, <1>z DEF SwapFails, CountInv, CountExact, TypeOK
  <2>9. ASSUME NEW w \in Writers, MarkDirty(w) \/ Contended(w) \/ MarkExpired(w)
        PROVE  CountInv'
      BY <1>n, <2>9, <1>z
      DEF MarkDirty, Contended, MarkExpired, WriterDone, CountInv, CountExact, TypeOK
  <2>10. ASSUME NEW f \in Flushers, FlushSwap(f) \/ FlushReturn(f) PROVE CountInv'
      BY <1>n, <2>10 DEF FlushSwap, FlushReturn, CountInv, CountExact
  <2>11. ASSUME NEW f \in Flushers, NEW k \in Keys, FlushRead(f, k) PROVE CountInv'
      BY <1>n, <2>11 DEF FlushRead, CountInv, CountExact, Even, TypeOK
  <2>12. ASSUME NEW f \in Flushers, FlushUpsert(f) PROVE CountInv'
      BY <1>n, <2>12, <1>z DEF FlushUpsert, CountInv, CountExact, TypeOK
  <2>13. ASSUME NEW f \in Flushers, FlushRequeue(f) PROVE CountInv'
      BY <1>n, <2>13, <1>z DEF FlushRequeue, CountInv, CountExact, TypeOK
  <2>14. ASSUME NEW f \in Flushers, NEW k \in Keys, FlushDelete(f, k) PROVE CountInv'
      BY <1>n, <2>14, <1>z DEF FlushDelete, CountInv, CountExact, TypeOK
  <2>15. CASE UNCHANGED vars
      BY <1>n, <2>15 DEF vars, CountInv, CountExact
  <2> QED BY <1>n, <2>1, <2>2, <2>3, <2>4, <2>5, <2>6, <2>7, <2>8, <2>9, <2>10, <2>11,
             <2>12, <2>13, <2>14, <2>15
          DEF Next, WriterStep, FlushStep
<1> QED BY <1>i, <1>n DEF TypeInv

\* No update is lost: the window counts are exact for any number of writers,
\* with expirations, crashes, failed writes and restarts.
THEOREM CountsAreExact == Spec => []CountExact
<1>1. CountInv => CountExact
    BY DEF CountInv
<1> QED BY <1>1, CountStep, TypeInvariant, PTL DEF Spec
-------------------------------------------------------------------------------
(* The table. *)

\* The deletion half of flush_sync() is only ever about keys that were expired
\* since the start; while the store is down no flush is under way.
OnlyExpired ==
  /\ expired \subseteq expiredOnce
  /\ \A w \in Writers : wpc[w] = "removed" => wkey[w] \in expiredOnce
  /\ \A f \in Flushers : expSnap[f] \subseteq expiredOnce
  /\ ctl = "down" => \A f \in Flushers : fpc[f] = "idle"
  /\ ctl # "up" =>
       /\ \A w \in Writers : wpc[w] = "idle"
       /\ \A f \in Flushers : f = Background \/ fpc[f] = "idle"
  /\ \A f \in Flushers : fpc[f] = "idle" => expSnap[f] = {}

\* Two flushes hold a key at the same time only after overlapping.
HeldOnce(k) ==
  k \in overlapped
    \/ \A f, g \in Flushers : k \in dirtySnap[f] /\ k \in dirtySnap[g] => f = g

\* WarmCaughtUp made inductive, for a lasting key flushed in turn: where its
\* latest value is on its way.
OnItsWay(k) ==
  \/ k \in dirty \cup overlapped
  \/ \E w \in Writers : wkey[w] = k /\ wpc[w] = "swapped"
  \/ \E f \in Flushers :
       /\ k \in dirtySnap[f]
       /\ k \in DOMAIN batch[f] => batch[f][k] = primary[k]
  \/ (\A f \in Flushers : k \notin dirtySnap[f]) /\ warm[k] = primary[k]

\* Neither a row nor a batch is ever newer than the memory, and a row is not
\* newer than the one batch that will replace it.
InOrder(k) ==
  /\ warm[k].version <= primary[k].version
  /\ \A f \in Flushers : k \in DOMAIN batch[f] =>
       /\ batch[f][k].version <= primary[k].version
       /\ k \in overlapped \/ warm[k].version <= batch[f][k].version

FlushInv ==
  /\ OnlyExpired
  /\ \A k \in Keys : HeldOnce(k)
  /\ tier = "loaded" => \A k \in Lasting : OnItsWay(k) /\ InOrder(k)

\* No step schedules a deletion for a key that was not expired.
LEMMA OnlyExpiredStep ==
  /\ Init => OnlyExpired
  /\ TypeInv /\ OnlyExpired /\ [Next]_vars => OnlyExpired'
<1> USE DEF storeVars, setVars, writerVars, flusherVars, historyVars
<1>i. Init => OnlyExpired
    BY DEF Init, OnlyExpired
<1>n. ASSUME TypeOK, LocalsOK, OnlyExpired, [Next]_vars PROVE OnlyExpired'
  <2>1. CASE Start
      BY <1>n, <2>1 DEF Start, OnlyExpired, TypeOK
  <2>2. CASE Crash
      BY <1>n, <2>2 DEF Crash, OnlyExpired, TypeOK
  <2>3. CASE Close \/ Closed
      BY <1>n, <2>3 DEF Close, Closed, OnlyExpired
  <2>4. ASSUME NEW w \in Writers, NEW k \in Keys, Evaluate(w, k) PROVE OnlyExpired'
      BY <1>n, <2>4 DEF Evaluate, OnlyExpired, TypeOK
  <2>4a. ASSUME NEW w \in Writers, NEW k \in Keys, Expire(w, k) PROVE OnlyExpired'
      BY <1>n, <2>4a DEF Expire, OnlyExpired, TypeOK
  <2>5. ASSUME NEW w \in Writers, Get(w) \/ Swap(w) \/ SwapFails(w) PROVE OnlyExpired'
      BY <1>n, <2>5 DEF Get, Swap, SwapFails, OnlyExpired, TypeOK
  <2>6. ASSUME NEW w \in Writers, MarkDirty(w) \/ Contended(w) \/ MarkExpired(w)
        PROVE  OnlyExpired'
      BY <1>n, <2>6 DEF MarkDirty, Contended, MarkExpired, WriterDone, OnlyExpired, TypeOK
  <2>7. ASSUME NEW f \in Flushers, FlushSwap(f) PROVE OnlyExpired'
      BY <1>n, <2>7 DEF FlushSwap, OnlyExpired, TypeOK
  <2>8. ASSUME NEW f \in Flushers, FlushUpsert(f) \/ FlushRequeue(f) \/ FlushReturn(f)
        PROVE  OnlyExpired'
      BY <1>n, <2>8 DEF FlushUpsert, FlushRequeue, FlushReturn, OnlyExpired, TypeOK
  <2>9. ASSUME NEW f \in Flushers, NEW k \in Keys, FlushRead(f, k) \/ FlushDelete(f, k)
        PROVE  OnlyExpired'
      BY <1>n, <2>9 DEF FlushRead, FlushDelete, OnlyExpired, TypeOK
  <2>10. CASE UNCHANGED vars
      BY <1>n, <2>10 DEF vars, OnlyExpired
  <2> QED BY <1>n, <2>1, <2>2, <2>3, <2>4, <2>4a, <2>5, <2>6, <2>7, <2>8, <2>9, <2>10
          DEF Next, WriterStep, FlushStep
<1> QED BY <1>i, <1>n DEF TypeInv

\* A flush takes only keys that overlap or that nobody else holds, and every other
\* step only gives keys back.
LEMMA HeldOnceStep ==
  ASSUME TypeInv, OnlyExpired, [Next]_vars, \A k \in Keys : HeldOnce(k)
  PROVE  \A k \in Keys : HeldOnce(k)'
<1> USE DEF storeVars, setVars, writerVars, flusherVars, historyVars
<1> SUFFICES ASSUME NEW k \in Keys PROVE HeldOnce(k)'
    OBVIOUS
<1>t. TypeOK /\ LocalsOK /\ HeldOnce(k)
    BY DEF TypeInv
<1>1. CASE UNCHANGED <<dirtySnap, overlapped>>
    BY <1>1, <1>t DEF HeldOnce
<1>2. CASE Start
  <2>1. overlapped' = {} /\ dirtySnap' = dirtySnap /\ ctl = "down"
      BY <1>2 DEF Start
  <2>2. \A f \in Flushers : dirtySnap[f] = {}
      BY <1>t, <2>1 DEF LocalsOK, OnlyExpired
  <2> QED BY <2>1, <2>2 DEF HeldOnce
<1>3. CASE Crash
    BY <1>3 DEF Crash, HeldOnce
<1>4. ASSUME NEW f \in Flushers, FlushSwap(f) PROVE HeldOnce(k)'
  <2>1. /\ dirtySnap' = [dirtySnap EXCEPT ![f] = dirty] /\ dirtySnap[f] = {}
        /\ overlapped' = (overlapped \ dirty) \cup (dirty \cap HeldBesides(f))
        /\ DOMAIN dirtySnap = Flushers
      BY <1>4, <1>t DEF FlushSwap, LocalsOK, TypeOK
  <2>2. \A g \in Flushers : g # f => dirtySnap'[g] = dirtySnap[g]
      BY <2>1
  <2>3. dirtySnap'[f] = dirty
      BY <2>1
  <2>4. CASE k \notin dirty
      BY <1>t, <2>1, <2>2, <2>3, <2>4 DEF HeldOnce
  <2>5. CASE k \in dirty /\ k \in HeldBesides(f)
      BY <2>1, <2>5 DEF HeldOnce
  <2>6. CASE k \in dirty /\ k \notin HeldBesides(f)
    <3>1. \A g \in Flushers : g # f => k \notin dirtySnap[g]
        BY <2>6 DEF HeldBesides
    <3> QED BY <2>2, <3>1 DEF HeldOnce
  <2> QED BY <2>4, <2>5, <2>6
<1>5. ASSUME NEW f \in Flushers, FlushUpsert(f) \/ FlushRequeue(f) PROVE HeldOnce(k)'
  <2>1. /\ dirtySnap' = [dirtySnap EXCEPT ![f] = {}] /\ overlapped' = overlapped
        /\ DOMAIN dirtySnap = Flushers
      BY <1>5, <1>t DEF FlushUpsert, FlushRequeue, TypeOK
  <2>2. \A g \in Flushers : k \in dirtySnap'[g] => k \in dirtySnap[g]
      BY <2>1
  <2> QED BY <1>t, <2>1, <2>2 DEF HeldOnce
<1> QED
    BY <1>1, <1>2, <1>3, <1>4, <1>5
    DEF Next, WriterStep, FlushStep, Close, Closed, Evaluate, Expire, Get, Swap, SwapFails,
        MarkDirty, Contended, MarkExpired, FlushRead, FlushDelete, FlushReturn, vars

\* What a step that leaves the table and the memory of a key alone may do to its
\* flushes: nothing.
LEMMA FlushUntouched ==
  ASSUME NEW k \in Keys, OnItsWay(k), InOrder(k),
         \A f \in Flushers :
           /\ k \in dirtySnap'[f] <=> k \in dirtySnap[f]
           /\ k \in DOMAIN batch'[f] <=> k \in DOMAIN batch[f]
           /\ k \in DOMAIN batch[f] => batch'[f][k] = batch[f][k],
         warm'[k] = warm[k], primary'[k] = primary[k],
         k \in overlapped' <=> k \in overlapped,
         k \in dirty => k \in dirty',
         (\E w \in Writers : wkey[w] = k /\ wpc[w] = "swapped") =>
           k \in dirty' \/ \E w \in Writers : wkey'[w] = k /\ wpc'[w] = "swapped"
  PROVE  OnItsWay(k)' /\ InOrder(k)'
<1>1. OnItsWay(k)'
  <2>1. CASE k \in dirty \cup overlapped
      BY <2>1 DEF OnItsWay
  <2>2. CASE \E w \in Writers : wkey[w] = k /\ wpc[w] = "swapped"
      BY <2>2 DEF OnItsWay
  <2>3. ASSUME NEW f \in Flushers, k \in dirtySnap[f],
               k \in DOMAIN batch[f] => batch[f][k] = primary[k]
        PROVE  OnItsWay(k)'
      BY <2>3 DEF OnItsWay
  <2>4. CASE (\A f \in Flushers : k \notin dirtySnap[f]) /\ warm[k] = primary[k]
      BY <2>4 DEF OnItsWay
  <2> QED BY <2>1, <2>2, <2>3, <2>4 DEF OnItsWay
<1>2. InOrder(k)'
    BY DEF InOrder
<1> QED BY <1>1, <1>2

\* Every step keeps the latest value of each key on its way to the table, and
\* the table behind the memory.
LEMMA FlushStepInv ==
  /\ Init => FlushInv
  /\ TypeInv /\ FlushInv /\ [Next]_vars => FlushInv'
<1> USE DEF storeVars, setVars, writerVars, flusherVars, historyVars
<1>i. Init => FlushInv
    BY OnlyExpiredStep DEF Init, FlushInv, HeldOnce
<1>n. ASSUME TypeOK, LocalsOK, FlushInv, [Next]_vars PROVE FlushInv'
  <2>e. OnlyExpired /\ OnlyExpired'
      BY <1>n, OnlyExpiredStep DEF FlushInv, TypeInv
  <2>h. \A k \in Keys : HeldOnce(k) /\ HeldOnce(k)'
      BY <1>n, <2>e, HeldOnceStep DEF FlushInv, TypeInv
  <2>v. \A v \in WindowValue : v.version \in Nat
      BY DEF WindowValue
  <2> SUFFICES ASSUME tier' = "loaded", NEW k \in Keys, k \notin expiredOnce'
               PROVE  OnItsWay(k)' /\ InOrder(k)'
      BY <2>e, <2>h DEF FlushInv, Lasting
  <2>d. DOMAIN NoBatch = {}
      BY DEF NoBatch
  <2>w. /\ primary[k].version \in Nat /\ warm[k].version \in Nat
        /\ \A f \in Flushers : k \in DOMAIN batch[f] => batch[f][k].version \in Nat
      BY <1>n, <2>v DEF TypeOK
  <2>s. \A f \in Flushers : DOMAIN batch[f] \subseteq dirtySnap[f]
      BY <1>n DEF TypeOK
  <2>1. CASE Start
    <3>1. /\ ctl = "down" /\ primary' = warm /\ warm' = warm
          /\ dirtySnap' = dirtySnap /\ batch' = batch
        BY <2>1 DEF Start, LoadWarmTier
    <3>2. \A f \in Flushers : dirtySnap[f] = {}
        BY <3>1, <1>n, <2>e DEF OnlyExpired, LocalsOK
    <3> QED BY <3>1, <3>2, <2>s, <2>w DEF OnItsWay, InOrder
  <2>2. CASE Crash
      BY <2>2 DEF Crash
  <2>p. ASSUME tier = "loaded", k \notin expiredOnce PROVE OnItsWay(k) /\ InOrder(k)
      BY <2>p, <1>n DEF FlushInv, Lasting
  <2>3. CASE Close \/ Closed
      BY <2>3, <2>p DEF Close, Closed, OnItsWay, InOrder
  <2>4. ASSUME NEW w \in Writers, NEW j \in Keys, Evaluate(w, j) \/ Expire(w, j)
        PROVE  OnItsWay(k)' /\ InOrder(k)'
      BY <2>4, <2>p, <1>n, FlushUntouched DEF Evaluate, Expire, TypeOK
  <2>5. ASSUME NEW w \in Writers, Get(w) \/ SwapFails(w)
        PROVE  OnItsWay(k)' /\ InOrder(k)'
      BY <2>5, <2>p, <1>n, FlushUntouched DEF Get, SwapFails, TypeOK
  <2>6. ASSUME NEW w \in Writers, Swap(w) PROVE OnItsWay(k)' /\ InOrder(k)'
    <3>1. OnItsWay(k) /\ InOrder(k)
        BY <2>6, <2>p DEF Swap
    <3>2. CASE k = wkey[w]
      <4>1. OnItsWay(k)'
          BY <2>6, <3>2, <1>n DEF Swap, OnItsWay, TypeOK
      <4>2. primary'[k] = Updated(current[w]) /\ current[w].version = primary[k].version
          BY <2>6, <3>2, <1>n DEF Swap, TypeOK
      <4>3. primary'[k].version = primary[k].version + 1
          BY <4>2 DEF Updated
      <4>4. UNCHANGED <<warm, batch, overlapped>>
          BY <2>6 DEF Swap
      <4>5. InOrder(k)'
          BY <3>1, <4>3, <4>4, <2>w DEF InOrder
      <4> QED BY <4>1, <4>5
    <3>3. CASE k # wkey[w]
        BY <2>6, <3>1, <3>3, <1>n, FlushUntouched DEF Swap, TypeOK
    <3> QED BY <3>2, <3>3
  <2>7. ASSUME NEW w \in Writers, MarkDirty(w) PROVE OnItsWay(k)' /\ InOrder(k)'
      BY <2>7, <2>p, <1>n, FlushUntouched DEF MarkDirty, WriterDone, TypeOK
  <2>8. ASSUME NEW w \in Writers, Contended(w) PROVE OnItsWay(k)' /\ InOrder(k)'
      BY <2>8, <2>p, <1>n, FlushUntouched DEF Contended, WriterDone, TypeOK
  <2>9. ASSUME NEW w \in Writers, MarkExpired(w) PROVE OnItsWay(k)' /\ InOrder(k)'
    <3>1. k # wkey[w]
        BY <2>9, <2>e DEF MarkExpired, OnlyExpired
    <3> QED BY <2>9, <2>p, <3>1, <1>n, FlushUntouched DEF MarkExpired, WriterDone, TypeOK
  <2>10. ASSUME NEW f \in Flushers, FlushSwap(f) PROVE OnItsWay(k)' /\ InOrder(k)'
    <3>1. OnItsWay(k) /\ InOrder(k)
        BY <2>10, <2>p DEF FlushSwap
    <3>2. /\ dirtySnap[f] = {} /\ dirtySnap' = [dirtySnap EXCEPT ![f] = dirty]
          /\ overlapped' = (overlapped \ dirty) \cup (dirty \cap HeldBesides(f))
          /\ DOMAIN dirtySnap = Flushers
          /\ UNCHANGED <<primary, warm, batch, wkey, wpc>>
        BY <2>10, <1>n DEF FlushSwap, LocalsOK, TypeOK
    <3>3. dirtySnap'[f] = dirty /\ \A g \in Flushers : g # f => dirtySnap'[g] = dirtySnap[g]
        BY <3>2
    <3>4. CASE k \notin dirty
      <4>1. \A g \in Flushers : k \in dirtySnap'[g] <=> k \in dirtySnap[g]
          BY <3>2, <3>3, <3>4
      <4> QED BY <3>1, <3>2, <3>4, <4>1, FlushUntouched
    <3>5. CASE k \in dirty /\ k \in HeldBesides(f)
        BY <3>1, <3>2, <3>5 DEF OnItsWay, InOrder
    <3>6. CASE k \in dirty /\ k \notin HeldBesides(f)
      <4>1. \A g \in Flushers : k \notin dirtySnap[g]
          BY <3>2, <3>6 DEF HeldBesides
      <4>2. \A g \in Flushers : k \notin DOMAIN batch'[g]
          BY <3>2, <4>1, <2>s
      <4>3. OnItsWay(k)'
          BY <3>3, <3>6, <4>2 DEF OnItsWay
      <4>4. InOrder(k)'
          BY <3>1, <3>2, <4>2 DEF InOrder
      <4> QED BY <4>3, <4>4
    <3> QED BY <3>4, <3>5, <3>6
  <2>11. ASSUME NEW f \in Flushers, NEW j \in Keys, FlushRead(f, j)
         PROVE  OnItsWay(k)' /\ InOrder(k)'
    <3>1. OnItsWay(k) /\ InOrder(k)
        BY <2>11, <2>p DEF FlushRead
    <3>2. /\ UNCHANGED <<primary, warm, dirtySnap, dirty, overlapped, wkey, wpc>>
          /\ DOMAIN batch = Flushers /\ j \in dirtySnap[f]
          /\ batch' = [batch EXCEPT ![f] = [i \in DOMAIN batch[f] \cup {j} |->
                          IF i = j THEN primary[j] ELSE batch[f][i]]]
        BY <2>11, <1>n DEF FlushRead, TypeOK
    <3>3. /\ batch'[f] = [i \in DOMAIN batch[f] \cup {j} |->
                          IF i = j THEN primary[j] ELSE batch[f][i]]
          /\ \A g \in Flushers : g # f => batch'[g] = batch[g]
        BY <3>2
    <3>4. CASE j = k
      <4>1. k \in DOMAIN batch'[f] /\ batch'[f][k] = primary[k]
          BY <3>3, <3>4
      <4>2. OnItsWay(k)'
          BY <3>2, <3>4, <4>1 DEF OnItsWay
      <4>3. InOrder(k)'
          BY <3>1, <3>2, <3>3, <4>1, <2>w DEF InOrder
      <4> QED BY <4>2, <4>3
    <3>5. CASE j # k
      <4>1. \A g \in Flushers : /\ k \in DOMAIN batch'[g] <=> k \in DOMAIN batch[g]
                                /\ k \in DOMAIN batch[g] => batch'[g][k] = batch[g][k]
          BY <3>3, <3>5
      <4> QED BY <3>1, <3>2, <4>1, FlushUntouched
    <3> QED BY <3>4, <3>5
  <2>12. ASSUME NEW f \in Flushers, FlushUpsert(f) PROVE OnItsWay(k)' /\ InOrder(k)'
    <3>1. OnItsWay(k) /\ InOrder(k)
        BY <2>12, <2>p DEF FlushUpsert
    <3>2. /\ UNCHANGED <<primary, dirty, overlapped, wkey, wpc>>
          /\ DOMAIN batch[f] = dirtySnap[f]
          /\ warm'[k] = IF k \in DOMAIN batch[f] THEN batch[f][k] ELSE warm[k]
          /\ batch' = [batch EXCEPT ![f] = NoBatch] /\ DOMAIN batch = Flushers
          /\ dirtySnap' = [dirtySnap EXCEPT ![f] = {}] /\ DOMAIN dirtySnap = Flushers
        BY <2>12, <1>n DEF FlushUpsert, TypeOK
    <3>3. /\ batch'[f] = NoBatch /\ dirtySnap'[f] = {}
          /\ \A g \in Flushers : g # f => batch'[g] = batch[g] /\ dirtySnap'[g] = dirtySnap[g]
        BY <3>2
    <3>4. CASE k \notin dirtySnap[f]
      <4>1. \A g \in Flushers :
              /\ k \in dirtySnap'[g] <=> k \in dirtySnap[g]
              /\ k \in DOMAIN batch'[g] <=> k \in DOMAIN batch[g]
              /\ k \in DOMAIN batch[g] => batch'[g][k] = batch[g][k]
          BY <3>2, <3>3, <3>4, <2>d
      <4> QED BY <3>1, <3>2, <3>4, <4>1, FlushUntouched
    <3>5. CASE k \in dirtySnap[f] /\ k \in overlapped
      <4>1. warm'[k] = batch[f][k] /\ k \in DOMAIN batch[f]
          BY <3>2, <3>5
      <4>2. \A g \in Flushers : k \in DOMAIN batch'[g] => g # f
          BY <3>3, <2>d
      <4> QED BY <3>1, <3>2, <3>3, <3>5, <4>1, <4>2 DEF OnItsWay, InOrder
    <3>6. CASE k \in dirtySnap[f] /\ k \notin overlapped
      <4>1. warm'[k] = batch[f][k] /\ k \in DOMAIN batch[f]
          BY <3>2, <3>6
      <4>2. \A g \in Flushers : k \in dirtySnap[g] => g = f
          BY <3>6, <2>h DEF HeldOnce
      <4>3. \A g \in Flushers : k \notin dirtySnap'[g]
          BY <3>3, <4>2
      <4>4. \A g \in Flushers : k \notin DOMAIN batch'[g]
          BY <3>3, <4>2, <2>d, <2>s
      <4>5. InOrder(k)'
          BY <3>1, <3>2, <4>1, <4>4 DEF InOrder
      <4>6. OnItsWay(k)'
        <5>1. CASE k \in dirty \/ \E w \in Writers : wkey[w] = k /\ wpc[w] = "swapped"
            BY <5>1, <3>2 DEF OnItsWay
        <5>2. ASSUME NEW g \in Flushers, k \in dirtySnap[g],
                     k \in DOMAIN batch[g] => batch[g][k] = primary[k]
              PROVE  OnItsWay(k)'
          <6>1. g = f
              BY <5>2, <4>2
          <6> QED BY <5>2, <6>1, <3>2, <4>1, <4>3 DEF OnItsWay
        <5> QED BY <3>1, <3>6, <5>1, <5>2 DEF OnItsWay
      <4> QED BY <4>5, <4>6
    <3> QED BY <3>4, <3>5, <3>6
  <2>13. ASSUME NEW f \in Flushers, FlushRequeue(f) PROVE OnItsWay(k)' /\ InOrder(k)'
    <3>1. OnItsWay(k) /\ InOrder(k)
        BY <2>13, <2>p DEF FlushRequeue
    <3>2. /\ UNCHANGED <<primary, warm, overlapped, wkey, wpc>>
          /\ dirty' = dirty \cup dirtySnap[f]
          /\ batch' = [batch EXCEPT ![f] = NoBatch] /\ DOMAIN batch = Flushers
          /\ dirtySnap' = [dirtySnap EXCEPT ![f] = {}] /\ DOMAIN dirtySnap = Flushers
        BY <2>13, <1>n DEF FlushRequeue, TypeOK
    <3>3. /\ batch'[f] = NoBatch /\ dirtySnap'[f] = {}
          /\ \A g \in Flushers : g # f => batch'[g] = batch[g] /\ dirtySnap'[g] = dirtySnap[g]
        BY <3>2
    <3>4. CASE k \in dirtySnap[f]
      <4>1. \A g \in Flushers : k \in DOMAIN batch'[g] => batch'[g] = batch[g]
          BY <3>3, <2>d
      <4> QED BY <3>1, <3>2, <3>4, <4>1 DEF OnItsWay, InOrder
    <3>5. CASE k \notin dirtySnap[f]
      <4>1. \A g \in Flushers :
              /\ k \in dirtySnap'[g] <=> k \in dirtySnap[g]
              /\ k \in DOMAIN batch'[g] <=> k \in DOMAIN batch[g]
              /\ k \in DOMAIN batch[g] => batch'[g][k] = batch[g][k]
          BY <3>3, <3>5, <2>d, <2>s
      <4> QED BY <3>1, <3>2, <4>1, FlushUntouched
    <3> QED BY <3>4, <3>5
  <2>14. ASSUME NEW f \in Flushers, NEW j \in Keys, FlushDelete(f, j)
         PROVE  OnItsWay(k)' /\ InOrder(k)'
    <3>1. k # j
        BY <2>14, <2>e DEF FlushDelete, OnlyExpired
    <3> QED BY <2>14, <2>p, <3>1, <1>n, FlushUntouched DEF FlushDelete, TypeOK
  <2>15. ASSUME NEW f \in Flushers, FlushReturn(f) PROVE OnItsWay(k)' /\ InOrder(k)'
      BY <2>15, <2>p, FlushUntouched DEF FlushReturn
  <2>16. CASE UNCHANGED vars
      BY <2>16, <2>p, FlushUntouched DEF vars
  <2> QED BY <1>n, <2>1, <2>2, <2>3, <2>4, <2>5, <2>6, <2>7, <2>8, <2>9, <2>10,
             <2>11, <2>12, <2>13, <2>14, <2>15, <2>16
          DEF Next, WriterStep, FlushStep
<1> QED BY <1>i, <1>n DEF TypeInv

\* The table catches up with the memory for every lasting key whose latest flush
\* did not begin inside another one of the key, for any number of keys, writers
\* and flushers, with failed writes and expirations of other keys.
THEOREM TableCatchesUp == Spec => []WarmCaughtUp
<1>1. FlushInv => WarmCaughtUp
    BY DEF FlushInv, OnItsWay, WarmCaughtUp, Settled, FlushedInTurn, Lasting
<1> QED BY <1>1, FlushStepInv, TypeInvariant, PTL DEF Spec

\* A persisted count of such a key is never replaced by an older one, across
\* crashes and restarts, while the table could be read.
THEOREM TableNeverRegresses == Spec => WarmNeverRegresses
<1>2. TypeInv /\ FlushInv /\ [Next]_vars =>
        [tier # "unread" =>
           \A k \in FlushedInTurn : warm'[k].version >= warm[k].version]_vars
  <2> SUFFICES ASSUME TypeOK, FlushInv, Next, tier # "unread", NEW k \in FlushedInTurn
               PROVE  warm'[k].version >= warm[k].version
      BY DEF TypeInv
  <2>k. k \in Keys /\ k \in Lasting /\ k \notin overlapped
      BY DEF FlushedInTurn, Lasting
  <2>v. warm[k].version \in Nat
      BY <2>k DEF TypeOK, WindowValue
  <2>1. ASSUME NEW f \in Flushers, FlushUpsert(f) PROVE warm'[k].version >= warm[k].version
    <3>1. warm'[k] = IF k \in DOMAIN batch[f] THEN batch[f][k] ELSE warm[k]
        BY <2>1, <2>k DEF FlushUpsert
    <3>2. CASE tier = "loaded" /\ k \in DOMAIN batch[f]
      <4>1. warm[k].version <= batch[f][k].version
          BY <3>2, <2>k DEF FlushInv, InOrder
      <4>2. batch[f][k].version \in Nat
          BY <3>2 DEF TypeOK, WindowValue
      <4> QED BY <3>1, <3>2, <4>1, <4>2, <2>v
    <3>3. CASE k \notin DOMAIN batch[f]
        BY <3>1, <3>3, <2>v
    <3>4. CASE tier # "loaded"
        BY <2>1, <3>1, <3>3, <3>4, <2>v DEF FlushUpsert, TypeOK
    <3> QED BY <3>2, <3>3, <3>4
  <2>2. ASSUME NEW f \in Flushers, NEW j \in Keys, FlushDelete(f, j)
        PROVE  warm'[k].version >= warm[k].version
    <3>1. k # j
        BY <2>2, <2>k DEF FlushDelete, FlushInv, OnlyExpired, Lasting
    <3> QED BY <2>2, <3>1, <2>k, <2>v DEF FlushDelete, TypeOK
  <2>3. CASE warm' = warm
      BY <2>3, <2>v
  <2> QED BY <2>1, <2>2, <2>3
          DEF Next, WriterStep, FlushStep, Start, Crash, Close, Closed, Evaluate, Expire,
              Get, Swap, SwapFails, MarkDirty, Contended, MarkExpired, FlushSwap,
              FlushRead, FlushRequeue, FlushReturn
<1> QED BY <1>2, FlushStepInv, TypeInvariant, PTL DEF Spec, WarmNeverRegresses
===============================================================================
