----------------------------- MODULE WarmArchive ------------------------------
(***************************************************************************)
(* DuckDbWindowStore used directly as a window store: the window_state     *)
(* table (warm), the background thread that moves old epochs into parquet  *)
(* files (cold), query_range() over both, and its reader                   *)
(* WindowedHistoricalEvaluator.                                            *)
(*                                                                         *)
(* One (tenant, entity, window); a key is then an epoch.  A row is one     *)
(* number: aggregate and version both start at zero and every evaluation   *)
(* adds one to both.  The database is a file and archival is configured.   *)
(*                                                                         *)
(* Grain.  get(), compare_and_swap() and expire() hold mutex_ and are one  *)
(* step each.  The archiver and query_range() have connections of their    *)
(* own and do not take mutex_: each of their SQL statements is a step.     *)
(***************************************************************************)
EXTENDS Integers, FiniteSets

CONSTANTS
  Writers,       \* threads that evaluate events against the store
  MaxEpoch,      \* bound: the clock stops in this epoch
  MaxCount,      \* bound: no evaluation begins on an epoch counted this often
  MaxStarts,     \* bound: how often the process starts
  Retention,     \* warm_epoch_retention
  WindowCounts,  \* num_windows of the historical evaluators on the store
  Threshold,     \* it flags sums of at least this
  DbMayFail      \* whether a statement may fail

ASSUME ArchiveAssumption ==
  /\ MaxEpoch \in Nat
  /\ MaxCount \in Nat
  /\ MaxStarts \in Nat
  /\ Retention \in Nat
  /\ WindowCounts \subseteq Nat \ {0}
  /\ Threshold \in Nat
  /\ DbMayFail \in BOOLEAN

VARIABLES
  clock,     \* the epoch of system_clock::now()
  status,    \* the process is down, its store open, or the open failed
  starts,
  warm,      \* window_state: the rows of the table
  parquet,   \* the archive: epoch=N/part-0000.parquet
  wpc,       \* where each writer is
  wepoch,    \* the epoch of its event
  read,      \* what its get() returned
  apc,       \* where the archiver is
  pending,   \* epochs of its result set still to be moved
  moving,    \* the epoch it copied and has not deleted
  qpc,       \* where query_range() is
  range,     \* the epochs the evaluation asked it for
  seen,      \* the rows its first statement summed
  answer,    \* the historical evaluator's verdict
  counted,   \* history: successful compare-and-swaps of each epoch
  disturbed, \* history: epochs expired, exported with an error, written after
             \* their file was, or with a count whose COMMIT failed
  asked,     \* history: counted when the evaluation began
  windows,   \* history: the last num_windows windows at that time
  coldOk     \* history: its read of the archive succeeded

storeVars   == <<clock, status, starts>>
writerVars  == <<wpc, wepoch, read>>
archiveVars == <<apc, pending, moving>>
queryVars   == <<qpc, range, seen, answer, asked, windows, coldOk>>
vars == <<storeVars, warm, parquet, writerVars, archiveVars, queryVars, counted, disturbed>>

Epochs == 0..MaxEpoch

NoRows == [e \in {} |-> 0]

Put(rows, e, n) == [x \in DOMAIN rows \cup {e} |-> IF x = e THEN n ELSE rows[x]]

Without(rows, e) == [x \in DOMAIN rows \ {e} |-> rows[x]]

\* A missing row reads as zero.
CountIn(rows, e) == IF e \in DOMAIN rows THEN rows[e] ELSE 0

\* Every evaluation that f counts in the epochs of S.
Evaluations(f, S) == UNION {{e} \X (1..f[e]) : e \in S}

\* SELECT COALESCE(SUM(aggregate), 0.0).
Sum(f, S) == Cardinality(Evaluations(f, S))

Init ==
  /\ clock = 0
  /\ status = "down"
  /\ starts = 0
  /\ warm = NoRows
  /\ parquet = NoRows
  /\ wpc = [w \in Writers |-> "idle"]
  /\ wepoch = [w \in Writers |-> 0]
  /\ read = [w \in Writers |-> 0]
  /\ apc = "asleep"
  /\ pending = {}
  /\ moving = 0
  /\ qpc = "idle"
  /\ range = {}
  /\ seen = NoRows
  /\ answer = "Pass"
  /\ counted = [e \in Epochs |-> 0]
  /\ disturbed = {}
  /\ asked = counted
  /\ windows = {}
  /\ coldOk = TRUE

\* The constructor: the file may not open; the archiver starts with an open one.
Open ==
  /\ status = "down"
  /\ starts < MaxStarts
  /\ starts' = starts + 1
  /\ status' \in {"open", "failed"}
  /\ UNCHANGED <<clock, warm, parquet, writerVars, archiveVars, queryVars, counted, disturbed>>

\* No evaluation of the historical evaluator is under way or on record.
QueryGone ==
  /\ qpc' = "idle"
  /\ range' = {}
  /\ seen' = NoRows
  /\ answer' = "Pass"
  /\ asked' = [e \in Epochs |-> 0]
  /\ windows' = {}
  /\ coldOk' = TRUE

\* The process dies, or destroys the store: the table and the files remain.
Crash ==
  /\ status # "down"
  /\ status' = "down"
  /\ wpc' = [w \in Writers |-> "idle"]
  /\ wepoch' = [w \in Writers |-> 0]
  /\ read' = [w \in Writers |-> 0]
  /\ apc' = "asleep"
  /\ pending' = {}
  /\ moving' = 0
  /\ QueryGone
  /\ UNCHANGED <<clock, starts, warm, parquet, counted, disturbed>>

Tick ==
  /\ clock < MaxEpoch
  /\ clock' = clock + 1
  /\ UNCHANGED <<status, starts, warm, parquet, writerVars, archiveVars, queryVars, counted,
                 disturbed>>

-------------------------------------------------------------------------------
(* The writers: ThresholdEvaluator::evaluate() on get() and compare_and_swap(),
   and expire(). *)

WriterReturns(w) ==
  /\ wpc' = [wpc EXCEPT ![w] = "idle"]
  /\ wepoch' = [wepoch EXCEPT ![w] = 0]
  /\ read' = [read EXCEPT ![w] = 0]

\* An event of this or an earlier epoch: its own timestamp decides.
Evaluate(w, e) ==
  /\ status = "open"
  /\ wpc[w] = "idle"
  /\ e <= clock
  /\ counted[e] < MaxCount
  /\ wpc' = [wpc EXCEPT ![w] = "get"]
  /\ wepoch' = [wepoch EXCEPT ![w] = e]
  /\ UNCHANGED <<storeVars, warm, parquet, read, archiveVars, queryVars, counted, disturbed>>

Get(w) ==
  /\ wpc[w] = "get"
  /\ read' = [read EXCEPT ![w] = CountIn(warm, wepoch[w])]
  /\ wpc' = [wpc EXCEPT ![w] = "swap"]
  /\ UNCHANGED <<storeVars, warm, parquet, wepoch, archiveVars, queryVars, counted, disturbed>>

\* A write to an epoch that has a file will be lost to the next export, or is
\* counted twice until then.
WrittenLate(e) == IF e \in DOMAIN parquet THEN {e} ELSE {}

\* compare_and_swap(): the row is seeded if it is missing, and its version is
\* the one read.
Swap(w) ==
  LET e == wepoch[w] IN
  /\ wpc[w] = "swap"
  /\ CountIn(warm, e) = read[w]
  /\ warm' = Put(warm, e, read[w] + 1)
  /\ counted' = [counted EXCEPT ![e] = @ + 1]
  /\ disturbed' = disturbed \cup WrittenLate(e)
  /\ WriterReturns(w)
  /\ UNCHANGED <<storeVars, parquet, archiveVars, queryVars>>

\* The version is another: the transaction still commits the seeded row.  The
\* evaluator tries again or has used up its attempts.
SwapFails(w) ==
  LET e == wepoch[w] IN
  /\ wpc[w] = "swap"
  /\ CountIn(warm, e) # read[w]
  /\ warm' = Put(warm, e, CountIn(warm, e))
  /\ disturbed' = IF e \in DOMAIN warm THEN disturbed ELSE disturbed \cup WrittenLate(e)
  /\ \/ wpc' = [wpc EXCEPT ![w] = "get"] /\ UNCHANGED <<wepoch, read>>
     \/ WriterReturns(w)
  /\ UNCHANGED <<storeVars, parquet, archiveVars, queryVars, counted>>

\* The COMMIT fails and nothing is written, but its result is ignored: the answer
\* is still the one of the UPDATE.  A swap that is answered with true counts for
\* its evaluation and is not in the table.
CommitFails(w) ==
  LET e == wepoch[w] IN
  /\ DbMayFail
  /\ wpc[w] = "swap"
  /\ \/ /\ CountIn(warm, e) = read[w]
        /\ counted' = [counted EXCEPT ![e] = @ + 1]
        /\ disturbed' = disturbed \cup {e}
        /\ WriterReturns(w)
     \/ /\ CountIn(warm, e) # read[w]
        /\ wpc' = [wpc EXCEPT ![w] = "get"]
        /\ UNCHANGED <<wepoch, read, counted, disturbed>>
  /\ UNCHANGED <<storeVars, warm, parquet, archiveVars, queryVars>>

\* Another statement failed: the transaction is rolled back and evaluate() returns
\* an error.  (A contended swap that is not retried returns like this too.)
CallFails(w) ==
  /\ DbMayFail
  /\ wpc[w] # "idle"
  /\ WriterReturns(w)
  /\ UNCHANGED <<storeVars, warm, parquet, archiveVars, queryVars, counted, disturbed>>

Expire(e) ==
  /\ status = "open"
  /\ e \in DOMAIN warm
  /\ warm' = Without(warm, e)
  /\ disturbed' = disturbed \cup {e}
  /\ UNCHANGED <<storeVars, parquet, writerVars, archiveVars, queryVars, counted>>

-------------------------------------------------------------------------------
(* The archiver: run_flush_loop() and flush_old_epochs(). *)

\* Mutant: one epoch more is kept.
CutoffTooLow == clock - Retention - 1

CutoffEpoch == clock - Retention

\* The result set of SELECT DISTINCT epoch ... WHERE epoch < cutoff.
SelectOld ==
  /\ status = "open"
  /\ apc = "asleep"
  /\ clock >= Retention
  /\ pending' = {e \in DOMAIN warm : e < CutoffEpoch}
  /\ pending' # {}
  /\ apc' = "copying"
  /\ UNCHANGED <<storeVars, warm, parquet, writerVars, moving, queryVars, counted, disturbed>>

\* Mutant: the epoch is deleted before it is exported.
CopyAfterDelete ==
  /\ apc = "copying"
  /\ \E e \in pending :
       /\ moving' = e
       /\ pending' = pending \ {e}
       /\ warm' = Without(warm, e)
       /\ parquet' = Put(parquet, e, CountIn(warm', e))
  /\ apc' = "deleting"
  /\ UNCHANGED <<storeVars, writerVars, queryVars, counted, disturbed>>

\* Mutant: the rows are appended to what the file holds.
CopyAppending ==
  /\ apc = "copying"
  /\ \E e \in pending :
       /\ moving' = e
       /\ pending' = pending \ {e}
       /\ parquet' = Put(parquet, e, CountIn(parquet, e) + CountIn(warm, e))
  /\ apc' = "deleting"
  /\ UNCHANGED <<storeVars, warm, writerVars, queryVars, counted, disturbed>>

\* COPY ... TO epoch=N/part-0000.parquet replaces the file; an error is ignored.
Copy ==
  /\ apc = "copying"
  /\ \E e \in pending :
       /\ moving' = e
       /\ pending' = pending \ {e}
       /\ \/ parquet' = Put(parquet, e, CountIn(warm, e)) /\ UNCHANGED disturbed
          \/ DbMayFail /\ disturbed' = disturbed \cup {e} /\ UNCHANGED parquet
  /\ apc' = "deleting"
  /\ UNCHANGED <<storeVars, warm, writerVars, queryVars, counted>>

\* DELETE ... WHERE epoch = N, whatever became of the export.
Delete ==
  /\ apc = "deleting"
  /\ warm' = Without(warm, moving)
  /\ apc' = IF pending = {} THEN "asleep" ELSE "copying"
  /\ moving' = 0
  /\ UNCHANGED <<storeVars, parquet, writerVars, pending, queryVars, counted, disturbed>>

\* The DELETE fails and is tried again in a later cycle.
DeleteFails ==
  /\ DbMayFail
  /\ apc = "deleting"
  /\ apc' = IF pending = {} THEN "asleep" ELSE "copying"
  /\ moving' = 0
  /\ UNCHANGED <<storeVars, warm, parquet, writerVars, pending, queryVars, counted, disturbed>>

-------------------------------------------------------------------------------
(* WindowedHistoricalEvaluator::evaluate() and query_range(). *)

StartEpoch(now, n) == IF now >= n THEN now - n + 1 ELSE 0

\* An evaluator that looks back n windows.
Ask(n) ==
  /\ status = "open"
  /\ qpc \in {"idle", "done"}
  /\ qpc' = "warm"
  /\ range' = StartEpoch(clock, n)..clock
  /\ seen' = NoRows
  /\ answer' = "Pass"
  /\ asked' = counted
  /\ windows' = {e \in Epochs : e <= clock /\ clock - e < n}
  /\ coldOk' = TRUE
  /\ UNCHANGED <<storeVars, warm, parquet, writerVars, archiveVars, counted, disturbed>>

Verdict(sum) == IF sum >= Threshold THEN "Flag" ELSE "Pass"

\* Mutant: the archive is read first (seen then holds its rows).
ReadArchiveFirst ==
  /\ qpc = "warm"
  /\ seen' = [e \in DOMAIN parquet \cap range |-> parquet[e]]
  /\ qpc' = "cold"
  /\ UNCHANGED <<storeVars, warm, parquet, writerVars, archiveVars, range, answer, asked, windows,
                 coldOk, counted, disturbed>>

\* The first statement sums the table.
ReadWarm ==
  /\ qpc = "warm"
  /\ seen' = [e \in DOMAIN warm \cap range |-> warm[e]]
  /\ qpc' = "cold"
  /\ UNCHANGED <<storeVars, warm, parquet, writerVars, archiveVars, range, answer, asked, windows,
                 coldOk, counted, disturbed>>

\* The second sums the files; when it fails the archive counts as zero.
ReadCold ==
  /\ qpc = "cold"
  /\ coldOk' \in (IF DbMayFail THEN BOOLEAN ELSE {TRUE})
  /\ answer' = Verdict(Sum(seen, DOMAIN seen)
                       + (IF coldOk' THEN Sum(parquet, DOMAIN parquet \cap range) ELSE 0))
  /\ qpc' = "done"
  /\ UNCHANGED <<storeVars, warm, parquet, writerVars, archiveVars, range, seen, asked, windows,
                 counted, disturbed>>

\* The first statement fails: evaluate() returns an error.
QueryFails ==
  /\ DbMayFail
  /\ qpc = "warm"
  /\ QueryGone
  /\ UNCHANGED <<storeVars, warm, parquet, writerVars, archiveVars, counted, disturbed>>

-------------------------------------------------------------------------------
WriterStep(w) == Get(w) \/ Swap(w) \/ SwapFails(w) \/ CommitFails(w) \/ CallFails(w)

ArchiveStep == SelectOld \/ Copy \/ Delete \/ DeleteFails

QueryStep == ReadWarm \/ ReadCold \/ QueryFails

Next ==
  \/ Open \/ Crash \/ Tick
  \/ \E w \in Writers : WriterStep(w) \/ \E e \in Epochs : Evaluate(w, e)
  \/ \E e \in Epochs : Expire(e)
  \/ ArchiveStep
  \/ \E n \in WindowCounts : Ask(n)
  \/ QueryStep

Spec == Init /\ [][Next]_vars

\* The background thread wakes up every flush_interval_ms, and a DELETE that is
\* tried again in every cycle does not fail for ever.
FairSpec == Spec /\ WF_vars(ArchiveStep) /\ SF_vars(Delete)

-------------------------------------------------------------------------------
(* Properties. *)

\* Type invariant.
TypeOK ==
  /\ clock \in Epochs
  /\ status \in {"down", "open", "failed"}
  /\ starts \in 0..MaxStarts
  /\ DOMAIN warm \subseteq Epochs /\ \A e \in DOMAIN warm : warm[e] \in Nat
  /\ DOMAIN parquet \subseteq Epochs /\ \A e \in DOMAIN parquet : parquet[e] \in Nat
  /\ wpc \in [Writers -> {"idle", "get", "swap"}]
  /\ wepoch \in [Writers -> Epochs]
  /\ read \in [Writers -> Nat]
  /\ apc \in {"asleep", "copying", "deleting"}
  /\ pending \subseteq Epochs
  /\ moving \in Epochs
  /\ apc = "copying" => pending # {}
  /\ qpc \in {"idle", "warm", "cold", "done"}
  /\ range \subseteq Epochs
  /\ DOMAIN seen \subseteq Epochs
  /\ answer \in {"Flag", "Pass"}
  /\ counted \in [Epochs -> Nat]
  /\ asked \in [Epochs -> Nat]
  /\ windows \subseteq Epochs
  /\ disturbed \subseteq Epochs
  /\ coldOk \in BOOLEAN

\* No count is lost and none is doubled by the move: an epoch that was never
\* expired, never exported with an error, never written after its file was and
\* whose every COMMIT succeeded has its exact count in the table until it is
\* deleted there, and in its file from the export on, also when the process died
\* between COPY and DELETE.
MovedIntact ==
  \A e \in Epochs \ disturbed :
    /\ e \in DOMAIN warm => warm[e] = counted[e]
    /\ e \in DOMAIN parquet => parquet[e] = counted[e]
    /\ e \notin DOMAIN warm \cup DOMAIN parquet => counted[e] = 0

\* query_range() reads the table before the archive, so a Pass of the historical
\* evaluator is never due to an epoch on its way from the one to the other: the
\* counts of the last num_windows windows when it began were below the threshold,
\* without the windows whose counts were already disturbed (a failed COMMIT or
\* export, a late write, an expiration: there a Pass can be wrong).
FlagNotMissed ==
  (qpc = "done" /\ coldOk /\ answer = "Pass")
    => Sum(asked, windows \ disturbed) < Threshold

\* A Flag is due to counts that were made, unless an epoch was both among the rows
\* summed and in the archive: only an epoch being moved is counted twice.
FlagJustified ==
  (qpc = "done" /\ answer = "Flag")
    => \/ Sum(counted, windows) >= Threshold
       \/ DOMAIN seen \cap DOMAIN parquet # {}

\* Epochs past the retention leave the table while the store stays open (FR-006:
\* "MUST flush epochs older than warm_epoch_retention ... and delete them").
OldEpochsLeave ==
  \A e \in Epochs :
    (status = "open" /\ e \in DOMAIN warm /\ clock - Retention > e)
      ~> (status # "open" \/ e \notin DOMAIN warm)
===============================================================================
