---------------------------- MODULE WriteBackStore ----------------------------
(***************************************************************************)
(* WriteBackWindowStore: an InProcessWindowStore on the hot path and a     *)
(* DuckDB table behind it, written by flush_sync() and read back when the  *)
(* process starts again.                                                   *)
(*                                                                         *)
(* Actors.  Writers run ThresholdEvaluator::evaluate() (get, then          *)
(* compare_and_swap, retried) or call expire(); flushers run flush_sync(): *)
(* the background thread, callers of query_range(), callers of flush_sync()*)
(* itself.  The process may crash, or destroy the store, at any time, and  *)
(* start again on the same database file.                                  *)
(*                                                                         *)
(* Grain.  One action per critical section of a shard mutex, of dirty_mu_  *)
(* or of the database.  A missing key and a row of zeros read the same     *)
(* through get(), so both are Zero here.                                   *)
(***************************************************************************)
EXTENDS Integers, FiniteSets

CONSTANTS
  Keys,          \* window keys (tenant, entity, window, epoch)
  Writers,
  Flushers,
  Background,    \* the flusher that is the background thread
  MaxAttempts,   \* evaluate() retries its compare-and-swap this often (10)
  MaxVersion,    \* bound: no evaluation begins on a key at this version
  MaxStarts,     \* bound: how often the process starts
  WriteMayFail,  \* whether a database write may fail
  ScanMayFail    \* whether scan_warm_tier() may fail on an open database

ASSUME WriteBackAssumption ==
  /\ Keys # {}
  /\ Background \in Flushers
  /\ MaxAttempts \in Nat \ {0}
  /\ MaxVersion \in Nat
  /\ MaxStarts \in Nat
  /\ WriteMayFail \in BOOLEAN
  /\ ScanMayFail \in BOOLEAN

VARIABLES
  ctl,       \* the store object: not constructed, in use, being destroyed
  tier,      \* what the constructor found: the database and its rows
  starts,    \* how often the process has started
  primary,   \* InProcessWindowStore: the shards' data
  warm,      \* the window_state table
  dirty,     \* dirty_set_
  expired,   \* expired_set_
  wpc,       \* where each writer is
  wkey,      \* the key it works on
  current,   \* the value evaluate() read last; Zero once it has been used
  attempts,  \* its failed compare-and-swaps; 0 once one has succeeded
  fpc,       \* where each flusher is inside flush_sync()
  dirtySnap, \* its dirty_snap
  batch,     \* the rows of its batch
  expSnap,   \* the keys of expired_snap it has not deleted
  counted,   \* history: evaluations of the key since it was (re)created,
             \* on top of what the start loaded
  expiredOnce,\* history: keys expire() was called for since the start
  overlapped \* history: keys whose latest flush began inside another one's

storeVars   == <<ctl, tier, starts>>
setVars     == <<dirty, expired>>
writerVars  == <<wpc, wkey, current, attempts>>
flusherVars == <<fpc, dirtySnap, batch, expSnap>>
historyVars == <<counted, expiredOnce, overlapped>>
vars == <<storeVars, primary, warm, setVars, writerVars, flusherVars, historyVars>>

WindowValue == [aggregate : Nat, version : Nat]

Zero == [aggregate |-> 0, version |-> 0]

\* The value evaluate() writes: aggregate_value() adds one for every
\* AggregationFn.
Updated(v) == [aggregate |-> v.aggregate + 1, version |-> v.version + 1]

WriterPoints == {"idle", "get", "got", "swapped", "contended", "removed"}

FlusherPoints == {"idle", "reading", "deleting"}

NoBatch == [k \in {} |-> Zero]

AnyKey == CHOOSE k \in Keys : TRUE

\* The writer's call returns: its locals are gone.
WriterDone(w) ==
  /\ wpc' = [wpc EXCEPT ![w] = "idle"]
  /\ wkey' = [wkey EXCEPT ![w] = AnyKey]
  /\ current' = [current EXCEPT ![w] = Zero]
  /\ attempts' = [attempts EXCEPT ![w] = 0]

Init ==
  /\ ctl = "down"
  /\ tier = "unavailable"
  /\ starts = 0
  /\ primary = [k \in Keys |-> Zero]
  /\ warm = [k \in Keys |-> Zero]
  /\ dirty = {}
  /\ expired = {}
  /\ wpc = [w \in Writers |-> "idle"]
  /\ wkey = [w \in Writers |-> AnyKey]
  /\ current = [w \in Writers |-> Zero]
  /\ attempts = [w \in Writers |-> 0]
  /\ fpc = [f \in Flushers |-> "idle"]
  /\ dirtySnap = [f \in Flushers |-> {}]
  /\ batch = [f \in Flushers |-> NoBatch]
  /\ expSnap = [f \in Flushers |-> {}]
  /\ counted = [k \in Keys |-> 0]
  /\ expiredOnce = {}
  /\ overlapped = {}

-------------------------------------------------------------------------------
\* What scan_warm_tier() can find: the database was not opened, all the rows, or
\* an error on an open database.
ScanOutcomes ==
  {"unavailable", "loaded"} \cup (IF ScanMayFail THEN {"unread"} ELSE {})

\* Mutant: nothing is loaded.
LoadNothing(found) == [k \in Keys |-> Zero]

\* load_warm_tier(): compare-and-swaps from the zero value seed an empty primary
\* with every row; after an error nothing is loaded.
LoadWarmTier(found) == IF found = "loaded" THEN warm ELSE [k \in Keys |-> Zero]

(* The process: construction, destruction, crash. *)

\* The constructor, in a new process with an empty primary; the background
\* thread starts with it.
Start ==
  /\ ctl = "down"
  /\ starts < MaxStarts
  /\ starts' = starts + 1
  /\ ctl' = "up"
  /\ tier' \in ScanOutcomes
  /\ primary' = LoadWarmTier(tier')
  /\ counted' = [k \in Keys |-> primary'[k].aggregate]
  /\ expiredOnce' = {}
  /\ overlapped' = {}
  /\ dirty' = {}
  /\ expired' = {}
  /\ UNCHANGED <<warm, writerVars, flusherVars>>

\* The process dies: everything but the table is gone.
Crash ==
  /\ ctl # "down"
  /\ ctl' = "down"
  /\ tier' = "unavailable"
  /\ primary' = [k \in Keys |-> Zero]
  /\ counted' = [k \in Keys |-> 0]
  /\ expiredOnce' = {}
  /\ overlapped' = {}
  /\ dirty' = {}
  /\ expired' = {}
  /\ wpc' = [w \in Writers |-> "idle"]
  /\ wkey' = [w \in Writers |-> AnyKey]
  /\ current' = [w \in Writers |-> Zero]
  /\ attempts' = [w \in Writers |-> 0]
  /\ fpc' = [f \in Flushers |-> "idle"]
  /\ dirtySnap' = [f \in Flushers |-> {}]
  /\ batch' = [f \in Flushers |-> NoBatch]
  /\ expSnap' = [f \in Flushers |-> {}]
  /\ UNCHANGED <<starts, warm>>

\* The destructor begins (nobody else uses the store any more) and asks the
\* background thread to stop; that thread may be in a flush, or about to begin
\* one it decided on before.
Close ==
  /\ ctl = "up"
  /\ \A w \in Writers : wpc[w] = "idle"
  /\ \A f \in Flushers \ {Background} : fpc[f] = "idle"
  /\ ctl' = "closing"
  /\ UNCHANGED <<tier, starts, primary, warm, setVars, writerVars, flusherVars, historyVars>>

\* The destructor has finished its own flush_sync().
Closed ==
  /\ ctl = "final"
  /\ fpc[Background] = "idle"
  /\ ctl' = "down"
  /\ UNCHANGED <<tier, starts, primary, warm, setVars, writerVars, flusherVars, historyVars>>

-------------------------------------------------------------------------------
(* The writers: ThresholdEvaluator::evaluate() and expire(). *)

\* evaluate() computes its key.
Evaluate(w, k) ==
  /\ ctl = "up"
  /\ wpc[w] = "idle"
  /\ primary[k].version < MaxVersion
  /\ wpc' = [wpc EXCEPT ![w] = "get"]
  /\ wkey' = [wkey EXCEPT ![w] = k]
  /\ UNCHANGED <<storeVars, primary, warm, setVars, current, attempts, flusherVars,
                 historyVars>>

\* store->get(key), under the shard's mutex.
Get(w) ==
  /\ wpc[w] = "get"
  /\ current' = [current EXCEPT ![w] = primary[wkey[w]]]
  /\ wpc' = [wpc EXCEPT ![w] = "got"]
  /\ UNCHANGED <<storeVars, primary, warm, setVars, wkey, attempts, flusherVars, historyVars>>

\* Mutant: the version is not compared.
SwapBlindly(w) ==
  LET k == wkey[w] IN
  /\ wpc[w] = "got"
  /\ primary' = [primary EXCEPT ![k] = Updated(current[w])]
  /\ counted' = [counted EXCEPT ![k] = @ + 1]
  /\ wpc' = [wpc EXCEPT ![w] = "swapped"]
  /\ current' = [current EXCEPT ![w] = Zero]
  /\ attempts' = [attempts EXCEPT ![w] = 0]
  /\ UNCHANGED <<storeVars, warm, setVars, wkey, flusherVars, expiredOnce, overlapped>>

\* primary_->compare_and_swap(): the versions match, the value is replaced.
Swap(w) ==
  LET k == wkey[w] IN
  /\ wpc[w] = "got"
  /\ primary[k].version = current[w].version
  /\ primary' = [primary EXCEPT ![k] = Updated(current[w])]
  /\ counted' = [counted EXCEPT ![k] = @ + 1]
  /\ wpc' = [wpc EXCEPT ![w] = "swapped"]
  /\ current' = [current EXCEPT ![w] = Zero]
  /\ attempts' = [attempts EXCEPT ![w] = 0]
  /\ UNCHANGED <<storeVars, warm, setVars, wkey, flusherVars, expiredOnce, overlapped>>

\* Mutant: one attempt too many.
SwapFailsOffByOne(w) ==
  /\ wpc[w] = "got"
  /\ primary[wkey[w]].version # current[w].version
  /\ attempts' = [attempts EXCEPT ![w] = @ + 1]
  /\ current' = [current EXCEPT ![w] = Zero]
  /\ wpc' = [wpc EXCEPT ![w] = IF attempts[w] < MaxAttempts THEN "get" ELSE "contended"]
  /\ UNCHANGED <<storeVars, primary, warm, setVars, wkey, flusherVars, historyVars>>

\* The versions differ: evaluate() tries again, or gives up after MaxAttempts
\* ("cas_contention", a Pass that was not counted).
SwapFails(w) ==
  /\ wpc[w] = "got"
  /\ primary[wkey[w]].version # current[w].version
  /\ attempts' = [attempts EXCEPT ![w] = @ + 1]
  /\ current' = [current EXCEPT ![w] = Zero]
  /\ wpc' = [wpc EXCEPT ![w] = IF attempts[w] + 1 < MaxAttempts THEN "get" ELSE "contended"]
  /\ UNCHANGED <<storeVars, primary, warm, setVars, wkey, flusherVars, historyVars>>

\* WriteBackWindowStore::compare_and_swap() after the primary's: the key is
\* marked dirty, and evaluate() returns.
MarkDirty(w) ==
  /\ wpc[w] = "swapped"
  /\ dirty' = dirty \cup {wkey[w]}
  /\ WriterDone(w)
  /\ UNCHANGED <<storeVars, primary, warm, expired, flusherVars, historyVars>>

Contended(w) ==
  /\ wpc[w] = "contended"
  /\ WriterDone(w)
  /\ UNCHANGED <<storeVars, primary, warm, setVars, flusherVars, historyVars>>

\* expire(): primary_->expire() removes the key ...
Expire(w, k) ==
  /\ ctl = "up"
  /\ wpc[w] = "idle"
  /\ primary' = [primary EXCEPT ![k] = Zero]
  /\ counted' = [counted EXCEPT ![k] = 0]
  /\ expiredOnce' = expiredOnce \cup {k}
  /\ wpc' = [wpc EXCEPT ![w] = "removed"]
  /\ wkey' = [wkey EXCEPT ![w] = k]
  /\ UNCHANGED <<storeVars, warm, setVars, current, attempts, flusherVars, overlapped>>

\* ... and then the two sets are updated under dirty_mu_.
MarkExpired(w) ==
  /\ wpc[w] = "removed"
  /\ dirty' = dirty \ {wkey[w]}
  /\ expired' = expired \cup {wkey[w]}
  /\ WriterDone(w)
  /\ UNCHANGED <<storeVars, primary, warm, flusherVars, historyVars>>

-------------------------------------------------------------------------------
(* The flushers: flush_sync() and do_flush(). *)

\* The keys some flush other than f's has taken and not written or given back.
HeldBesides(f) == UNION {dirtySnap[g] : g \in Flushers \ {f}}

\* flush_sync(): both sets are swapped out under dirty_mu_.  Any flusher while
\* the store is in use; while it is destroyed, the background thread's last
\* flush and then the destructor's own, which runs after the join and is the
\* Background flusher too.
FlushSwap(f) ==
  /\ fpc[f] = "idle"
  /\ \/ ctl = "up" /\ UNCHANGED ctl
     \/ ctl = "closing" /\ f = Background /\ ctl' \in {"closing", "final"}
  /\ dirtySnap' = [dirtySnap EXCEPT ![f] = dirty]
  /\ expSnap' = [expSnap EXCEPT ![f] = expired]
  /\ dirty' = {}
  /\ expired' = {}
  /\ fpc' = [fpc EXCEPT ![f] = "reading"]
  /\ overlapped' = (overlapped \ dirty) \cup (dirty \cap HeldBesides(f))
  /\ UNCHANGED <<tier, starts, primary, warm, writerVars, batch, counted, expiredOnce>>

\* primary_->get(key) for one key of dirty_snap; only with the database open.
FlushRead(f, k) ==
  /\ fpc[f] = "reading"
  /\ tier # "unavailable"
  /\ k \in dirtySnap[f] \ DOMAIN batch[f]
  /\ batch' = [batch EXCEPT ![f] =
                 [j \in DOMAIN @ \cup {k} |-> IF j = k THEN primary[k] ELSE @[j]]]
  /\ UNCHANGED <<storeVars, primary, warm, setVars, writerVars, fpc, dirtySnap, expSnap,
                 historyVars>>

\* upsert_batch(): one transaction that overwrites the rows whatever their
\* version.  (With an empty dirty_snap there is nothing to write.)
FlushUpsert(f) ==
  /\ fpc[f] = "reading"
  /\ tier # "unavailable" \/ dirtySnap[f] = {}
  /\ DOMAIN batch[f] = dirtySnap[f]
  /\ warm' = [k \in Keys |-> IF k \in DOMAIN batch[f] THEN batch[f][k] ELSE warm[k]]
  /\ batch' = [batch EXCEPT ![f] = NoBatch]
  /\ dirtySnap' = [dirtySnap EXCEPT ![f] = {}]
  /\ fpc' = [fpc EXCEPT ![f] = "deleting"]
  /\ UNCHANGED <<storeVars, primary, setVars, writerVars, expSnap, historyVars>>

\* Mutant: a failed batch is forgotten.
FlushDropped(f) ==
  /\ fpc[f] = "reading"
  /\ dirtySnap[f] # {}
  /\ \/ tier = "unavailable"
     \/ WriteMayFail /\ DOMAIN batch[f] = dirtySnap[f]
  /\ batch' = [batch EXCEPT ![f] = NoBatch]
  /\ dirtySnap' = [dirtySnap EXCEPT ![f] = {}]
  /\ fpc' = [fpc EXCEPT ![f] = "deleting"]
  /\ UNCHANGED <<storeVars, primary, warm, setVars, writerVars, expSnap, historyVars>>

\* The database is not available, or the transaction failed and was rolled
\* back: the keys go back to dirty_set_.
FlushRequeue(f) ==
  /\ fpc[f] = "reading"
  /\ dirtySnap[f] # {}
  /\ \/ tier = "unavailable"
     \/ WriteMayFail /\ DOMAIN batch[f] = dirtySnap[f]
  /\ dirty' = dirty \cup dirtySnap[f]
  /\ batch' = [batch EXCEPT ![f] = NoBatch]
  /\ dirtySnap' = [dirtySnap EXCEPT ![f] = {}]
  /\ fpc' = [fpc EXCEPT ![f] = "deleting"]
  /\ UNCHANGED <<storeVars, primary, warm, expired, writerVars, expSnap, historyVars>>

\* warm_->expire(key) for one key of expired_snap; a failure is ignored.
FlushDelete(f, k) ==
  /\ fpc[f] = "deleting"
  /\ k \in expSnap[f]
  /\ \/ tier # "unavailable" /\ warm' = [warm EXCEPT ![k] = Zero]
     \/ (tier = "unavailable" \/ WriteMayFail) /\ UNCHANGED warm
  /\ expSnap' = [expSnap EXCEPT ![f] = @ \ {k}]
  /\ UNCHANGED <<storeVars, primary, setVars, writerVars, fpc, dirtySnap, batch, historyVars>>

FlushReturn(f) ==
  /\ fpc[f] = "deleting"
  /\ expSnap[f] = {}
  /\ fpc' = [fpc EXCEPT ![f] = "idle"]
  /\ UNCHANGED <<storeVars, primary, warm, setVars, writerVars, dirtySnap, batch, expSnap,
                 historyVars>>
-------------------------------------------------------------------------------
WriterStep(w) ==
  \/ Get(w)
  \/ Swap(w)
  \/ SwapFails(w)
  \/ MarkDirty(w)
  \/ Contended(w)
  \/ MarkExpired(w)

FlushStep(f) ==
  \/ FlushUpsert(f)
  \/ FlushRequeue(f)
  \/ FlushReturn(f)
  \/ \E k \in Keys : FlushRead(f, k) \/ FlushDelete(f, k)

Next ==
  \/ Start
  \/ Crash
  \/ Close
  \/ Closed
  \/ \E w \in Writers :
       WriterStep(w) \/ \E k \in Keys : Evaluate(w, k) \/ Expire(w, k)
  \/ \E f \in Flushers : FlushSwap(f) \/ FlushStep(f)

Spec == Init /\ [][Next]_vars

\* Writers inside a call are scheduled; the background thread wakes up every
\* flush_interval_ms for as long as the store is in use; a write that is tried
\* again and again is not refused for ever.
Fairness ==
  /\ \A w \in Writers : WF_vars(WriterStep(w))
  /\ \A f \in Flushers :
       WF_vars(FlushStep(f)) /\ SF_vars(dirtySnap[f] # {} /\ FlushUpsert(f))
  /\ WF_vars(ctl = "up" /\ FlushSwap(Background))

FairSpec == Spec /\ Fairness

-------------------------------------------------------------------------------
(* Properties. *)

\* Type invariant: a batch holds only keys of its snapshot, and evaluate() never
\* makes more than MaxAttempts attempts.
TypeOK ==
  /\ ctl \in {"down", "up", "closing", "final"}
  /\ tier \in {"loaded", "unavailable", "unread"}
  /\ starts \in Nat
  /\ primary \in [Keys -> WindowValue]
  /\ warm \in [Keys -> WindowValue]
  /\ dirty \subseteq Keys
  /\ expired \subseteq Keys
  /\ wpc \in [Writers -> WriterPoints]
  /\ wkey \in [Writers -> Keys]
  /\ current \in [Writers -> WindowValue]
  /\ attempts \in [Writers -> 0..MaxAttempts]
  /\ fpc \in [Flushers -> FlusherPoints]
  /\ dirtySnap \in [Flushers -> SUBSET Keys]
  /\ expSnap \in [Flushers -> SUBSET Keys]
  /\ DOMAIN batch = Flushers
  /\ \A f \in Flushers :
       /\ DOMAIN batch[f] \subseteq dirtySnap[f]
       /\ batch[f] \in [DOMAIN batch[f] -> WindowValue]
  /\ counted \in [Keys -> Nat]
  /\ expiredOnce \subseteq Keys
  /\ overlapped \subseteq Keys

\* No update is lost and none is applied twice: a window's aggregate is what the
\* start loaded plus one per evaluation whose compare-and-swap succeeded since
\* the key was created, however gets, swaps and expirations interleave.
CountExact ==
  \A k \in Keys : primary[k].aggregate = counted[k] /\ primary[k].version = counted[k]

\* Nothing is on its way to the table for this key.
Settled(k) ==
  /\ k \notin dirty \cup expired
  /\ \A w \in Writers : wkey[w] = k => wpc[w] \notin {"swapped", "removed"}
  /\ \A f \in Flushers : k \notin dirtySnap[f] \cup expSnap[f]

\* Keys that live from one start to the next.  A key that was expired and then
\* evaluated again is not among them: one flush upserts its row and then deletes
\* it, and the key is not dirty any more.
Lasting == Keys \ expiredOnce

\* Lasting keys whose latest flush did not begin while another flush held them.
\* The background thread, query_range() and flush_sync() run side by side, and of
\* two batches that hold the same key the older may be written last: for such a
\* key the table stays behind the memory until the key is flushed again.
FlushedInTurn == Lasting \ overlapped

\* User story 2 of the write-back specification ("After flush_sync(),
\* DuckDbWindowStore::get(key) returns the value written via compare_and_swap"):
\* once nothing is pending for a lasting key, the table holds its latest
\* in-memory value, also after failed writes, after the destructor's last flush
\* and beside other flushes, as long as the last one of this key was not begun
\* inside another one of the same key.
WarmCaughtUp ==
  tier = "loaded" => \A k \in FlushedInTurn : Settled(k) => warm[k] = primary[k]

\* A count that reached the table is never replaced by an older one, nor deleted
\* without an expire(), across crashes and restarts, unless a start could not
\* read the table or two flushes held the key at the same time.
WarmNeverRegresses ==
  [][tier # "unread" =>
       \A k \in FlushedInTurn : warm'[k].version >= warm[k].version]_vars

\* Every evaluation of a lasting key reaches the table and stays there if the
\* process lives and the key's latest flush was not begun inside another one: the
\* background thread retries what failed.
EventuallyPersisted ==
  \A k \in Keys : \A n \in 1..MaxVersion :
    (tier = "loaded" /\ primary[k].version >= n)
      ~> (warm[k].version >= n \/ ctl # "up" \/ k \notin FlushedInTurn)
===============================================================================
