----------------------------- MODULE TenantRouter -----------------------------
(***************************************************************************)
(* One tenant's TenantState: its creation under the tenant mutex, with the *)
(* cells shuffle sharding assigns to it, and the lock-free token bucket and*)
(* concurrency counter that TenantRouter::try_acquire() and release() work *)
(* on.  Tenants share nothing but that mutex.                              *)
(*                                                                         *)
(* The cell drawn in each round of assign_cells() is a parameter, Draws:   *)
(* the seeds repeat, modulo the number of cells, from RepeatFrom on.       *)
(*                                                                         *)
(* Each submitting thread reads the clock, tries to claim the time since   *)
(* the last refill with one compare-exchange, deposits the tokens it       *)
(* claimed, consumes one, and takes a concurrency slot.  The retry loops of*)
(* the deposit and the consumption succeed as one atomic update.           *)
(*                                                                         *)
(* Time is counted in ticks since the bucket was made; Word stands for     *)
(* 2^64, TicksPerSecond for 10^9 and Scale for TOKEN_SCALE.                *)
(***************************************************************************)
EXTENDS Integers, FiniteSets, Sequences, Functions

CONSTANTS
  Threads,          \* threads submitting events of the tenant
  NumCells,         \* ShardingConfig::num_cells
  CellsPerTenant,   \* ShardingConfig::cells_per_tenant
  Draws,            \* the cell each round of assign_cells() draws
  RepeatFrom,       \* the round after the last one of Draws
  Capacity,         \* RateLimitConfig::bucket_capacity
  TokensPerSecond,  \* RateLimitConfig::tokens_per_second
  MaxConcurrent,    \* RateLimitConfig::max_concurrent
  Scale,
  TicksPerSecond,
  Word,
  MaxClock          \* bound on the clock

ASSUME RouterAssumption ==
  /\ IsFiniteSet(Threads)
  /\ NumCells \in Nat
  /\ CellsPerTenant \in Nat
  /\ CellsPerTenant < NumCells    \* PipelineConfig::Builder::validate()
  /\ Draws \in Seq(0..NumCells - 1)
  /\ RepeatFrom \in 1..Len(Draws)
  /\ Capacity \in Nat
  /\ TokensPerSecond \in Nat
  /\ MaxConcurrent \in Nat
  /\ Scale \in Nat \ {0}
  /\ TicksPerSecond \in Nat \ {0}
  /\ MaxClock \in Nat
  /\ Word \in Nat
  /\ Word > 2 * MaxClock + 1

VARIABLES
  created,   \* whether the tenant is in the map of tenants
  cells,     \* TenantState::cell_indices; while it is created, assign_cells()'s
  round,     \* the next round of assign_cells()
  clock,     \* steady_clock
  tokens,    \* TokenBucket::tokens, fixed point
  last,      \* TokenBucket::last_refill_ns
  inFlight,  \* TenantState::in_flight
  pc,        \* where each thread is in try_acquire()
  now,       \* per thread: now_ns
  prev,      \* per thread: prev_ns
  add,       \* per thread: tokens it has claimed and not deposited
  claimed,   \* history: the sum of add
  granted,   \* history: number of tokens consumed
  grantedAt  \* history: when the last token was consumed

shardVars == <<created, cells, round>>
vars == <<shardVars, clock, tokens, last, inFlight, pc, now, prev, add, claimed, granted,
          grantedAt>>

Points == {"idle", "lock", "assign", "found", "read", "refill", "deposit", "consume", "refused",
           "granted", "over", "holding"}

CapacityFp == Capacity * Scale

\* rate_fp_per_ns: the integer division of the constructor.
Rate == (TokensPerSecond * Scale) \div TicksPerSecond

\* Mutant: the unsigned difference is used as it is.
ElapsedUnsigned(n, p) == (n - p) % Word

\* static_cast<int64_t>(now_ns - prev_ns): the unsigned difference wraps when
\* another thread has claimed up to a later time, and the cast makes it
\* negative.
SignedElapsed(n, p) ==
  LET d == (n - p) % Word IN IF 2 * d < Word THEN d ELSE d - Word

Goto(th, point) == pc' = [pc EXCEPT ![th] = point]

\* Back to the caller: the locals of try_consume() are gone.
Leave(th) ==
  /\ pc' = [pc EXCEPT ![th] = "idle"]
  /\ now' = [now EXCEPT ![th] = 0]
  /\ prev' = [prev EXCEPT ![th] = 0]

Init ==
  /\ created = FALSE
  /\ cells = <<>>
  /\ round = 1
  /\ clock = 0
  /\ tokens = CapacityFp
  /\ last = 0
  /\ inFlight = 0
  /\ pc = [th \in Threads |-> "idle"]
  /\ now = [th \in Threads |-> 0]
  /\ prev = [th \in Threads |-> 0]
  /\ add = [th \in Threads |-> 0]
  /\ claimed = 0
  /\ granted = 0
  /\ grantedAt = 0

Tick ==
  /\ created
  /\ clock < MaxClock
  /\ clock' = clock + 1
  /\ UNCHANGED <<shardVars, tokens, last, inFlight, pc, now, prev, add, claimed, granted, grantedAt>>

(* get_or_create_tenant(). *)

bucketVars == <<clock, tokens, last, inFlight, now, prev, add, claimed, granted, grantedAt>>

\* tenant_mutex is held for longer than one step only while the tenant is
\* created.
MutexFree == \A th \in Threads : pc[th] # "assign"

\* try_acquire() is called.
Call(th) ==
  /\ pc[th] = "idle"
  /\ Goto(th, "lock")
  /\ UNCHANGED <<shardVars, bucketVars>>

FindTenant(th) ==
  /\ pc[th] = "lock"
  /\ MutexFree
  /\ created
  /\ Goto(th, "found")
  /\ UNCHANGED <<shardVars, bucketVars>>

BeginCreate(th) ==
  /\ pc[th] = "lock"
  /\ MutexFree
  /\ ~created
  /\ Goto(th, "assign")
  /\ UNCHANGED <<shardVars, bucketVars>>

\* Mutant: a cell is taken every time it is drawn.
DrawRepeated(th) ==
  /\ pc[th] = "assign"
  /\ Len(cells) < CellsPerTenant
  /\ cells' = Append(cells, Draws[round])
  /\ round' = IF round = Len(Draws) THEN RepeatFrom ELSE round + 1
  /\ UNCHANGED <<created, pc, bucketVars>>

\* One round of assign_cells(): the cell drawn is kept unless it is there.  (All
\* the cells are never assigned, CellsPerTenant being less.)
DrawCell(th) ==
  /\ pc[th] = "assign"
  /\ Len(cells) < CellsPerTenant
  /\ cells' = IF Draws[round] \in Range(cells) THEN cells ELSE Append(cells, Draws[round])
  /\ round' = IF round = Len(Draws) THEN RepeatFrom ELSE round + 1
  /\ UNCHANGED <<created, pc, bucketVars>>

\* assign_cells() has all its cells; the TenantState is put into the map.
Emplace(th) ==
  /\ pc[th] = "assign"
  /\ Len(cells) = CellsPerTenant
  /\ created' = TRUE
  /\ Goto(th, "found")
  /\ UNCHANGED <<cells, round, bucketVars>>

-------------------------------------------------------------------------------
(* TokenBucket::try_consume(), the concurrency cap, release(). *)

\* try_consume(): now_ns, read before anything else.
ReadClock(th) ==
  /\ pc[th] = "found"
  /\ now' = [now EXCEPT ![th] = clock]
  /\ Goto(th, "read")
  /\ UNCHANGED <<shardVars, clock, tokens, last, inFlight, prev, add, claimed, granted, grantedAt>>

LoadLast(th) ==
  /\ pc[th] = "read"
  /\ prev' = [prev EXCEPT ![th] = last]
  /\ Goto(th, "refill")
  /\ UNCHANGED <<shardVars, clock, tokens, last, inFlight, now, add, claimed, granted, grantedAt>>

\* elapsed == 0 or add <= 0: nothing to refill.
SkipRefill(th) ==
  /\ pc[th] = "refill"
  /\ SignedElapsed(now[th], prev[th]) * Rate <= 0
  /\ Goto(th, "consume")
  /\ UNCHANGED <<shardVars, clock, tokens, last, inFlight, now, prev, add, claimed, granted, grantedAt>>

\* Mutant: the claim is a plain store, not a compare-exchange.
StoreRefill(th) ==
  LET amount == SignedElapsed(now[th], prev[th]) * Rate IN
  /\ pc[th] = "refill"
  /\ amount > 0
  /\ last' = now[th]
  /\ add' = [add EXCEPT ![th] = amount]
  /\ claimed' = claimed + amount
  /\ Goto(th, "deposit")
  /\ UNCHANGED <<shardVars, clock, tokens, inFlight, now, prev, granted, grantedAt>>

\* The compare-exchange on last_refill_ns succeeds: the interval is this
\* thread's to deposit.
ClaimRefill(th) ==
  LET amount == SignedElapsed(now[th], prev[th]) * Rate IN
  /\ pc[th] = "refill"
  /\ amount > 0
  /\ last = prev[th]
  /\ last' = now[th]
  /\ add' = [add EXCEPT ![th] = amount]
  /\ claimed' = claimed + amount
  /\ Goto(th, "deposit")
  /\ UNCHANGED <<shardVars, clock, tokens, inFlight, now, prev, granted, grantedAt>>

\* Mutant: prev_ns is not reloaded.
RetryStale(th) ==
  /\ pc[th] = "refill"
  /\ SignedElapsed(now[th], prev[th]) * Rate > 0
  /\ last # prev[th]
  /\ UNCHANGED <<shardVars, clock, tokens, last, inFlight, pc, now, prev, add, claimed, granted, grantedAt>>

\* It fails: prev_ns is reloaded and the loop goes round.
RetryRefill(th) ==
  /\ pc[th] = "refill"
  /\ SignedElapsed(now[th], prev[th]) * Rate > 0
  /\ last # prev[th]
  /\ prev' = [prev EXCEPT ![th] = last]
  /\ UNCHANGED <<shardVars, clock, tokens, last, inFlight, pc, now, add, claimed, granted, grantedAt>>

\* Mutant: the deposit is not clamped.
DepositUnclamped(th) ==
  /\ pc[th] = "deposit"
  /\ tokens' = tokens + add[th]
  /\ add' = [add EXCEPT ![th] = 0]
  /\ claimed' = claimed - add[th]
  /\ Goto(th, "consume")
  /\ UNCHANGED <<shardVars, clock, last, inFlight, now, prev, granted, grantedAt>>

\* tokens := min(tokens + add, capacity).
Deposit(th) ==
  /\ pc[th] = "deposit"
  /\ tokens' = IF tokens + add[th] <= CapacityFp THEN tokens + add[th] ELSE CapacityFp
  /\ add' = [add EXCEPT ![th] = 0]
  /\ claimed' = claimed - add[th]
  /\ Goto(th, "consume")
  /\ UNCHANGED <<shardVars, clock, last, inFlight, now, prev, granted, grantedAt>>

Consume(th) ==
  /\ pc[th] = "consume"
  /\ tokens >= Scale
  /\ tokens' = tokens - Scale
  /\ granted' = granted + 1
  /\ grantedAt' = clock
  /\ Goto(th, "granted")
  /\ UNCHANGED <<shardVars, clock, last, inFlight, now, prev, add, claimed>>

\* try_acquire() returns Exhausted.
Exhausted(th) ==
  /\ pc[th] = "consume"
  /\ tokens < Scale
  /\ Goto(th, "refused")
  /\ UNCHANGED <<shardVars, clock, tokens, last, inFlight, now, prev, add, claimed, granted, grantedAt>>

\* Mutant: off by one in the concurrency check.
TakeSlotOffByOne(th) ==
  /\ pc[th] = "granted"
  /\ inFlight' = inFlight + 1
  /\ Goto(th, IF inFlight > MaxConcurrent THEN "over" ELSE "holding")
  /\ UNCHANGED <<shardVars, clock, tokens, last, now, prev, add, claimed, granted, grantedAt>>

\* in_flight.fetch_add(1) and the test of its previous value.
TakeSlot(th) ==
  /\ pc[th] = "granted"
  /\ inFlight' = inFlight + 1
  /\ Goto(th, IF inFlight >= MaxConcurrent THEN "over" ELSE "holding")
  /\ UNCHANGED <<shardVars, clock, tokens, last, now, prev, add, claimed, granted, grantedAt>>

\* Mutant: the refused thread keeps its increment.
KeepSlot(th) ==
  /\ pc[th] = "over"
  /\ Goto(th, "refused")
  /\ UNCHANGED <<shardVars, clock, tokens, last, inFlight, now, prev, add, claimed, granted, grantedAt>>

\* The refused thread takes its increment back: ConcurrencyCapReached.  The
\* consumed token is not returned.
GiveBackSlot(th) ==
  /\ pc[th] = "over"
  /\ inFlight' = inFlight - 1
  /\ Goto(th, "refused")
  /\ UNCHANGED <<shardVars, clock, tokens, last, now, prev, add, claimed, granted, grantedAt>>

\* release().
Release(th) ==
  /\ pc[th] = "holding"
  /\ MutexFree
  /\ inFlight' = inFlight - 1
  /\ Leave(th)
  /\ UNCHANGED <<shardVars, clock, tokens, last, add, claimed, granted, grantedAt>>

\* The refused caller may submit again.
Again(th) ==
  /\ pc[th] = "refused"
  /\ Leave(th)
  /\ UNCHANGED <<shardVars, clock, tokens, last, inFlight, add, claimed, granted, grantedAt>>

TryAcquire(th) ==
  \/ FindTenant(th)
  \/ BeginCreate(th)
  \/ DrawCell(th)
  \/ Emplace(th)
  \/ ReadClock(th)
  \/ LoadLast(th)
  \/ SkipRefill(th)
  \/ ClaimRefill(th)
  \/ RetryRefill(th)
  \/ Deposit(th)
  \/ Consume(th)
  \/ Exhausted(th)
  \/ TakeSlot(th)
  \/ GiveBackSlot(th)

Next ==
  \/ Tick
  \/ \E th \in Threads : Call(th) \/ TryAcquire(th) \/ Release(th) \/ Again(th)

Spec == Init /\ [][Next]_vars

\* A thread inside try_acquire() is scheduled.
FairSpec == Spec /\ \A th \in Threads : WF_vars(TryAcquire(th))

-------------------------------------------------------------------------------
(* Properties. *)

\* Type invariant: the bucket never holds more than its capacity nor less than
\* nothing.
TypeOK ==
  /\ created \in BOOLEAN
  /\ cells \in Seq(0..NumCells - 1)
  /\ round \in 1..Len(Draws)
  /\ clock \in 0..MaxClock
  /\ tokens \in 0..CapacityFp
  /\ last \in 0..MaxClock
  /\ inFlight \in Int
  /\ pc \in [Threads -> Points]
  /\ now \in [Threads -> 0..MaxClock]
  /\ prev \in [Threads -> 0..MaxClock]
  /\ add \in [Threads -> Nat]
  /\ claimed \in Int
  /\ granted \in Nat
  /\ grantedAt \in 0..MaxClock

\* Rate limiting: what has been consumed, is in the bucket, or has been claimed
\* and not deposited never exceeds the initial burst plus the refill for the
\* time claimed.  No interval is credited twice, however the threads' clock
\* readings, claims and deposits interleave.
GrantsWithinBudget ==
  tokens + Scale * granted + claimed <= CapacityFp + Rate * last

\* Shuffle sharding: a tenant that can be found has exactly cells_per_tenant
\* different cells, whoever created it and whatever the draws repeat.
ShardExact ==
  /\ IsInjective(cells)
  /\ created => Len(cells) = CellsPerTenant

\* last_refill_ns never goes back, although threads claim with clock readings
\* that may be older than the last claim.
RefillTimeAdvances == [][last' >= last]_last

Holders == {th \in Threads : pc[th] = "holding"}

Overshoot == {th \in Threads : pc[th] = "over"}

\* At most max_concurrent threads of a tenant are between try_acquire() and
\* release(), also while refused threads' increments are still in the counter.
HoldersWithinCap == Cardinality(Holders) <= MaxConcurrent

\* The counter counts the holders and the refused threads that have not taken
\* their increment back: no slot leaks.
SlotsExact == inFlight = Cardinality(Holders \cup Overshoot)

\* try_acquire() decides: every thread gets the tenant mutex, and leaves the draw
\* of the cells ("Safety: if all N cells are assigned before K unique ones,
\* stop.") and the refill loop.
TryAcquireDecides ==
  \A th \in Threads : pc[th] = "lock" ~> pc[th] \in {"refused", "holding"}

\* What ARCHITECTURE.md documents about the refill ("tokens_per_second *
\* elapsed_ns / 1e9 * 1024"): a thread alone with the bucket is not refused once
\* the time for one token has passed since the last token was consumed.
RefilledAfterInterval ==
  \A th \in Threads :
    pc[th] = "refused" =>
      (now[th] - grantedAt) * TokensPerSecond < TicksPerSecond
===============================================================================
