-------------------------- MODULE TenantRouterProofs --------------------------
(***************************************************************************)
(* Proofs about TenantRouter: the token bucket stays within its capacity   *)
(* and grants no more than was refilled, the refill time never goes back,  *)
(* the concurrency counter admits at most max_concurrent holders and leaks *)
(* no slot, and a tenant gets exactly its number of different cells.       *)
(***************************************************************************)
EXTENDS TenantRouter, FiniteSetTheorems, TLAPS

\* For a natural number below the modulus, % does nothing.
LEMMA SmallMod ==
  ASSUME NEW x \in Nat, NEW m \in Nat, x < m PROVE x % m = x
BY Z3

\* One modulus below zero, % adds the modulus.
LEMMA NegativeMod ==
  ASSUME NEW x \in Int, NEW m \in Nat, x < 0, -m < x PROVE x % m = x + m
BY Z3
\* The signed difference of two clock readings is their difference, although it
\* is computed modulo Word.
LEMMA ElapsedIsDifference ==
  ASSUME NEW n \in 0..MaxClock, NEW p \in 0..MaxClock
  PROVE  SignedElapsed(n, p) = n - p
<1>1. MaxClock \in Nat /\ Word \in Nat /\ Word > 2 * MaxClock + 1
    BY RouterAssumption
<1>2. CASE p <= n
  <2>1. (n - p) % Word = n - p
      BY <1>1, <1>2, SmallMod
  <2> QED BY <1>1, <1>2, <2>1 DEF SignedElapsed
<1>3. CASE n < p
  <2>1. (n - p) % Word = n - p + Word
      BY <1>1, <1>3, NegativeMod
  <2> QED BY <1>1, <1>3, <2>1 DEF SignedElapsed
<1> QED BY <1>1, <1>2, <1>3

\* The derived constants are natural numbers.
LEMMA Constants == CapacityFp \in Nat /\ Rate \in Nat
<1>1. \A x \in Nat, y \in Nat : x * y \in Nat
    BY Z3
<1>2. \A x \in Nat, y \in Nat \ {0} : x \div y \in Nat
    BY Z3
<1> QED BY <1>1, <1>2, RouterAssumption DEF CapacityFp, Rate

\* What a thread claims: a whole number of tokens, positive only if its clock
\* reading is later than the last refill it knows.
LEMMA ClaimedAmount ==
  ASSUME NEW n \in 0..MaxClock, NEW p \in 0..MaxClock,
         SignedElapsed(n, p) * Rate > 0
  PROVE  SignedElapsed(n, p) * Rate \in Nat /\ n > p
<1>1. \A x \in Int, y \in Nat : x * y \in Int /\ (x * y > 0 => x > 0)
    BY Z3
<1>2. SignedElapsed(n, p) = n - p /\ n \in Int /\ p \in Int
    BY ElapsedIsDifference, RouterAssumption
<1> QED BY <1>1, <1>2, Constants

\* Every draw is a cell.
LEMMA DrawsAreCells ==
  ASSUME NEW i \in 1..Len(Draws)
  PROVE  Draws[i] \in 0..NumCells - 1 /\ Len(Draws) \in Nat /\ RepeatFrom \in 1..Len(Draws)
<1>1. \A S : \A q \in Seq(S) : \A j \in 1..Len(q) : q[j] \in S /\ Len(q) \in Nat
    OBVIOUS
<1> QED BY <1>1, RouterAssumption

\* The tenant's state is built well typed.
LEMMA InitTypeOK == Init => TypeOK
<1> SUFFICES ASSUME Init PROVE TypeOK
    OBVIOUS
<1>1. round \in 1..Len(Draws)
    BY RouterAssumption DEF Init
<1>2. cells \in Seq(0..NumCells - 1)
    BY DEF Init
<1>3. created \in BOOLEAN
    BY DEF Init
<1>4. tokens \in 0..CapacityFp /\ clock \in 0..MaxClock /\ last \in 0..MaxClock
      /\ grantedAt \in 0..MaxClock /\ 0 \in 0..MaxClock
    BY Constants, RouterAssumption DEF Init
<1> QED BY <1>1, <1>2, <1>3, <1>4 DEF Init, TypeOK, Points

\* Every step of a thread and every tick preserves the type invariant.
LEMMA NextTypeOK == TypeOK /\ [Next]_vars => TypeOK'
<1> SUFFICES ASSUME TypeOK, [Next]_vars PROVE TypeOK'
    OBVIOUS
<1> USE DEF shardVars, bucketVars
<1>c. CapacityFp \in Nat /\ MaxClock \in Nat /\ Scale \in Nat
    BY Constants, RouterAssumption
<1>1. CASE Tick
    BY <1>1, <1>c DEF Tick, TypeOK
<1>a. ASSUME NEW th \in Threads, Call(th) \/ FindTenant(th) \/ BeginCreate(th) \/ Emplace(th)
      PROVE  TypeOK'
    BY <1>a DEF Call, FindTenant, BeginCreate, Emplace, Goto, TypeOK, Points
<1>b. ASSUME NEW th \in Threads, DrawCell(th) PROVE TypeOK'
  <2>1. Draws[round] \in 0..NumCells - 1 /\ round' \in 1..Len(Draws)
      BY <1>b, DrawsAreCells DEF DrawCell, TypeOK
  <2>a. \A S : \A q \in Seq(S), x \in S : Append(q, x) \in Seq(S)
      OBVIOUS
  <2>2. cells' \in Seq(0..NumCells - 1)
      BY <1>b, <2>1, <2>a DEF DrawCell, TypeOK
  <2> QED BY <1>b, <2>1, <2>2 DEF DrawCell, TypeOK
<1>2. ASSUME NEW th \in Threads, ReadClock(th) PROVE TypeOK'
    BY <1>2 DEF ReadClock, Goto, TypeOK, Points
<1>3. ASSUME NEW th \in Threads, LoadLast(th) PROVE TypeOK'
    BY <1>3 DEF LoadLast, Goto, TypeOK, Points
<1>4. ASSUME NEW th \in Threads, SkipRefill(th) PROVE TypeOK'
    BY <1>4 DEF SkipRefill, Goto, TypeOK, Points
<1>5. ASSUME NEW th \in Threads, ClaimRefill(th) PROVE TypeOK'
  <2>1. now[th] \in 0..MaxClock /\ prev[th] \in 0..MaxClock
      BY DEF TypeOK
  <2>2. SignedElapsed(now[th], prev[th]) * Rate \in Nat
      BY <1>5, <2>1, ClaimedAmount DEF ClaimRefill
  <2>3. claimed' \in Int /\ add' \in [Threads -> Nat]
      BY <1>5, <2>2 DEF ClaimRefill, TypeOK
  <2> QED BY <1>5, <2>1, <2>3 DEF ClaimRefill, Goto, TypeOK, Points
<1>6. ASSUME NEW th \in Threads, RetryRefill(th) PROVE TypeOK'
    BY <1>6 DEF RetryRefill, TypeOK
<1>7. ASSUME NEW th \in Threads, Deposit(th) PROVE TypeOK'
  <2>1. claimed' \in Int /\ tokens' \in 0..CapacityFp
      BY <1>7, <1>c DEF Deposit, TypeOK
  <2> QED BY <1>7, <2>1 DEF Deposit, Goto, TypeOK, Points
<1>8. ASSUME NEW th \in Threads, Consume(th) PROVE TypeOK'
    BY <1>8, <1>c DEF Consume, Goto, TypeOK, Points
<1>9. ASSUME NEW th \in Threads, Exhausted(th) PROVE TypeOK'
    BY <1>9 DEF Exhausted, Goto, TypeOK, Points
<1>10. ASSUME NEW th \in Threads, TakeSlot(th) PROVE TypeOK'
    BY <1>10 DEF TakeSlot, Goto, TypeOK, Points
<1>11. ASSUME NEW th \in Threads, GiveBackSlot(th) PROVE TypeOK'
    BY <1>11 DEF GiveBackSlot, Goto, TypeOK, Points
<1>12. ASSUME NEW th \in Threads, Release(th) PROVE TypeOK'
    BY <1>12, <1>c DEF Release, Leave, TypeOK, Points
<1>13. ASSUME NEW th \in Threads, Again(th) PROVE TypeOK'
    BY <1>13, <1>c DEF Again, Leave, TypeOK, Points
<1>14. CASE UNCHANGED vars
    BY <1>14 DEF vars, TypeOK
<1> QED BY <1>1, <1>a, <1>b, <1>2, <1>3, <1>4, <1>5, <1>6, <1>7, <1>8, <1>9, <1>10,
           <1>11, <1>12, <1>13, <1>14
        DEF Next, TryAcquire

\* The bucket holds between nothing and its capacity, for any number of threads
\* and any configuration.
THEOREM TypeCorrect == Spec => []TypeOK
BY InitTypeOK, NextTypeOK, PTL DEF Spec

\* last_refill_ns never goes back.
THEOREM RefillNeverGoesBack == Spec => RefillTimeAdvances
<1>1. TypeOK /\ [Next]_vars => [last' >= last]_last
  <2> SUFFICES ASSUME TypeOK, [Next]_vars, last' # last PROVE last' >= last
      OBVIOUS
  <2>1. PICK th \in Threads : ClaimRefill(th)
      BY DEF Next, TryAcquire, Tick, ReadClock, LoadLast, SkipRefill, RetryRefill, Deposit,
             Consume, Exhausted, TakeSlot, GiveBackSlot, Release, Again, Call, FindTenant,
             BeginCreate, DrawCell, Emplace, bucketVars, vars
  <2>2. now[th] \in 0..MaxClock /\ prev[th] \in 0..MaxClock
      BY DEF TypeOK
  <2>3. now[th] > prev[th]
      BY <2>1, <2>2, ClaimedAmount DEF ClaimRefill
  <2> QED BY <2>1, <2>2, <2>3, RouterAssumption DEF ClaimRefill
<1> QED BY <1>1, TypeCorrect, PTL DEF Spec, RefillTimeAdvances

-------------------------------------------------------------------------------
(* The concurrency counter. *)

Slots == Holders \cup Overshoot

\* HoldersWithinCap needs the exact count: a thread is admitted on the counter,
\* not on the number of holders.
SlotInv == SlotsExact /\ HoldersWithinCap

\* The sets whose sizes are compared are finite.
LEMMA SlotsFinite == IsFiniteSet(Holders) /\ IsFiniteSet(Slots)
<1>1. Holders \subseteq Threads /\ Slots \subseteq Threads
    BY DEF Holders, Overshoot, Slots
<1> QED BY <1>1, FS_Subset, RouterAssumption

\* No thread holds a slot at first, and every step keeps the counter exact and
\* the holders within the cap.
LEMMA SlotStep ==
  /\ Init => SlotInv
  /\ TypeOK /\ SlotInv /\ [Next]_vars => SlotInv'
<1>m. MaxConcurrent \in Nat
    BY RouterAssumption
<1>i. ASSUME Init PROVE SlotInv
  <2>1. Holders = {} /\ Overshoot = {}
      BY <1>i DEF Init, Holders, Overshoot
  <2>2. Cardinality({}) = 0
      BY FS_EmptySet
  <2> QED BY <1>i, <1>m, <2>1, <2>2 DEF Init, SlotInv, SlotsExact, HoldersWithinCap
<1>n. ASSUME TypeOK, SlotInv, [Next]_vars PROVE SlotInv'
  <2>s. inFlight = Cardinality(Slots) /\ Cardinality(Holders) <= MaxConcurrent
      BY <1>n DEF SlotInv, SlotsExact, HoldersWithinCap, Slots
  <2>f. IsFiniteSet(Holders) /\ IsFiniteSet(Slots)
        /\ Cardinality(Holders) \in Nat /\ Cardinality(Slots) \in Nat
      BY SlotsFinite, FS_CardinalityType
  <2> SUFFICES inFlight' = Cardinality(Slots') /\ Cardinality(Holders') <= MaxConcurrent
      BY DEF SlotInv, SlotsExact, HoldersWithinCap, Slots
  <2>1. CASE Holders' = Holders /\ Slots' = Slots /\ inFlight' = inFlight
      BY <2>1, <2>s
  <2>2. ASSUME NEW th \in Threads, TakeSlot(th)
        PROVE  inFlight' = Cardinality(Slots') /\ Cardinality(Holders') <= MaxConcurrent
    <3>1. th \notin Slots /\ Slots' = Slots \cup {th} /\ th \notin Holders
        BY <1>n, <2>2 DEF TakeSlot, Goto, TypeOK, Slots, Holders, Overshoot
    <3>2. Cardinality(Slots') = Cardinality(Slots) + 1
        BY <3>1, <2>f, FS_AddElement
    <3>3. CASE inFlight >= MaxConcurrent
      <4>1. Holders' = Holders
          BY <1>n, <2>2, <3>3 DEF TakeSlot, Goto, TypeOK, Holders
      <4> QED BY <4>1, <3>2, <2>2, <2>s DEF TakeSlot
    <3>4. CASE ~(inFlight >= MaxConcurrent)
      <4>1. Holders' = Holders \cup {th}
          BY <1>n, <2>2, <3>4 DEF TakeSlot, Goto, TypeOK, Holders
      <4>2. Cardinality(Holders') = Cardinality(Holders) + 1
          BY <4>1, <3>1, <2>f, FS_AddElement
      <4>3. Cardinality(Holders) <= Cardinality(Slots)
          BY <2>f, FS_Subset DEF Slots
      <4> QED BY <4>2, <4>3, <3>2, <3>4, <2>2, <2>s, <2>f, <1>m DEF TakeSlot
    <3> QED BY <3>3, <3>4
  <2>3. ASSUME NEW th \in Threads, GiveBackSlot(th)
        PROVE  inFlight' = Cardinality(Slots') /\ Cardinality(Holders') <= MaxConcurrent
    <3>1. th \in Slots /\ Slots' = Slots \ {th} /\ Holders' = Holders
        BY <1>n, <2>3 DEF GiveBackSlot, Goto, TypeOK, Slots, Holders, Overshoot
    <3>2. Cardinality(Slots') = Cardinality(Slots) - 1
        BY <3>1, <2>f, FS_RemoveElement
    <3> QED BY <3>1, <3>2, <2>3, <2>s DEF GiveBackSlot
  <2>4. ASSUME NEW th \in Threads, Release(th)
        PROVE  inFlight' = Cardinality(Slots') /\ Cardinality(Holders') <= MaxConcurrent
    <3>1. th \in Slots /\ Slots' = Slots \ {th} /\ Holders' \subseteq Holders
        BY <1>n, <2>4 DEF Release, Leave, TypeOK, Slots, Holders, Overshoot
    <3>2. Cardinality(Slots') = Cardinality(Slots) - 1
        BY <3>1, <2>f, FS_RemoveElement
    <3>3. Cardinality(Holders') <= Cardinality(Holders) /\ Cardinality(Holders') \in Nat
        BY <3>1, <2>f, FS_Subset, FS_CardinalityType
    <3> QED BY <3>2, <3>3, <2>4, <2>s, <2>f, <1>m DEF Release
  <2>5. CASE Tick \/ UNCHANGED vars
      BY <2>5, <2>1 DEF Tick, vars, Slots, Holders, Overshoot
  <2>7. ASSUME NEW th \in Threads,
               Call(th) \/ FindTenant(th) \/ BeginCreate(th) \/ DrawCell(th) \/ Emplace(th)
        PROVE  Holders' = Holders /\ Slots' = Slots /\ inFlight' = inFlight
      BY <1>n, <2>7 DEF Call, FindTenant, BeginCreate, DrawCell, Emplace, bucketVars, Goto,
                        TypeOK, Slots, Holders, Overshoot
  <2>6. ASSUME NEW th \in Threads,
               \/ ReadClock(th) \/ LoadLast(th) \/ SkipRefill(th) \/ ClaimRefill(th)
               \/ RetryRefill(th) \/ Deposit(th) \/ Consume(th) \/ Exhausted(th)
               \/ Again(th)
        PROVE  Holders' = Holders /\ Slots' = Slots /\ inFlight' = inFlight
      BY <1>n, <2>6
      DEF ReadClock, LoadLast, SkipRefill, ClaimRefill, RetryRefill, Deposit, Consume,
          Exhausted, Again, Goto, Leave, TypeOK, Slots, Holders, Overshoot
  <2> QED BY <1>n, <2>1, <2>2, <2>3, <2>4, <2>5, <2>6, <2>7 DEF Next, TryAcquire
<1> QED BY <1>i, <1>n

\* The concurrency cap is never exceeded, for any number of threads.
THEOREM CapIsKept == Spec => []HoldersWithinCap
<1>1. SlotInv => HoldersWithinCap
    BY DEF SlotInv
<1> QED BY <1>1, SlotStep, TypeCorrect, PTL DEF Spec

\* No slot leaks: in_flight counts the holders and the refused threads that have
\* still to take their increment back.
THEOREM NoSlotLeaks == Spec => []SlotsExact
<1>1. SlotInv => SlotsExact
    BY DEF SlotInv
<1> QED BY <1>1, SlotStep, TypeCorrect, PTL DEF Spec

-------------------------------------------------------------------------------
(* The cells. *)

\* ShardExact made inductive: until the tenant is in the map the draw has not
\* gone past cells_per_tenant, and one thread at a time draws, none afterwards.
ShardInv ==
  /\ ShardExact
  /\ Len(cells) <= CellsPerTenant
  /\ created => MutexFree
  /\ \A t, u \in Threads : pc[t] = "assign" /\ pc[u] = "assign" => t = u

\* Appending a value that is not there keeps a sequence free of repetitions.
LEMMA AppendInjective ==
  ASSUME NEW S, NEW q \in Seq(S), NEW x \in S, IsInjective(q), x \notin Range(q)
  PROVE  IsInjective(Append(q, x))
BY DEF IsInjective, Range

\* A draw, the creation of the tenant and everything after keep ShardInv.
LEMMA ShardStep ==
  /\ Init => ShardInv
  /\ TypeOK /\ ShardInv /\ [Next]_vars => ShardInv'
<1> USE DEF shardVars, bucketVars
<1>i. Init => ShardInv
    BY RouterAssumption DEF Init, ShardInv, ShardExact, IsInjective
<1>n. ASSUME TypeOK, ShardInv, [Next]_vars PROVE ShardInv'
  <2>1. ASSUME NEW th \in Threads, DrawCell(th) PROVE ShardInv'
    <3>1. Draws[round] \in 0..NumCells - 1
        BY <1>n, DrawsAreCells DEF TypeOK
    <3>2. IsInjective(cells') /\ Len(cells') <= CellsPerTenant
      <4>1. CASE Draws[round] \in Range(cells)
          BY <4>1, <1>n, <2>1 DEF DrawCell, ShardInv, ShardExact
      <4>2. CASE Draws[round] \notin Range(cells)
        <5>1. cells' = Append(cells, Draws[round]) /\ cells \in Seq(0..NumCells - 1)
            BY <4>2, <1>n, <2>1 DEF DrawCell, TypeOK
        <5>2. IsInjective(cells')
            BY <5>1, <3>1, <4>2, <1>n, AppendInjective DEF ShardInv, ShardExact
        <5>3. Len(cells') = Len(cells) + 1 /\ Len(cells) \in Nat
            BY <5>1, <3>1
        <5> QED BY <5>2, <5>3, <2>1, RouterAssumption DEF DrawCell
      <4> QED BY <4>1, <4>2
    <3>3. ~created /\ ~created'
        BY <1>n, <2>1 DEF DrawCell, ShardInv, MutexFree
    <3> QED BY <3>2, <3>3, <1>n, <2>1 DEF DrawCell, ShardInv, ShardExact
  <2>2. ASSUME NEW th \in Threads, Emplace(th) PROVE ShardInv'
      BY <1>n, <2>2, RouterAssumption
      DEF Emplace, Goto, ShardInv, ShardExact, MutexFree, TypeOK
  <2>3. ASSUME NEW th \in Threads, BeginCreate(th) PROVE ShardInv'
      BY <1>n, <2>3 DEF BeginCreate, Goto, ShardInv, ShardExact, MutexFree, TypeOK
  <2>4. CASE /\ UNCHANGED <<cells, created>>
             /\ \A t \in Threads : pc'[t] = "assign" => pc[t] = "assign"
      BY <1>n, <2>4 DEF ShardInv, ShardExact, MutexFree
  <2>5. CASE Tick \/ UNCHANGED vars
      BY <2>4, <2>5 DEF Tick, vars
  <2>6. ASSUME NEW th \in Threads,
               \/ Call(th) \/ FindTenant(th) \/ ReadClock(th) \/ LoadLast(th)
               \/ SkipRefill(th) \/ ClaimRefill(th) \/ RetryRefill(th) \/ Deposit(th)
               \/ Consume(th) \/ Exhausted(th) \/ TakeSlot(th) \/ GiveBackSlot(th)
               \/ Release(th) \/ Again(th)
        PROVE  /\ UNCHANGED <<cells, created>>
               /\ \A t \in Threads : pc'[t] = "assign" => pc[t] = "assign"
      BY <1>n, <2>6
      DEF Call, FindTenant, ReadClock, LoadLast, SkipRefill, ClaimRefill, RetryRefill,
          Deposit, Consume, Exhausted, TakeSlot, GiveBackSlot, Release, Again, Goto, Leave,
          TypeOK
  <2> QED BY <1>n, <2>1, <2>2, <2>3, <2>4, <2>5, <2>6 DEF Next, TryAcquire
<1> QED BY <1>i, <1>n

\* A tenant that is in the map has exactly cells_per_tenant different cells, for
\* every list of draws.
THEOREM ShardIsExact == Spec => []ShardExact
<1>1. ShardInv => ShardExact
    BY DEF ShardInv
<1> QED BY <1>1, ShardStep, TypeCorrect, PTL DEF Spec

-------------------------------------------------------------------------------
(* The rate limit. *)

\* Multiplication distributes: the two facts the provers need about Rate and
\* Scale.
LEMMA Distribute ==
  ASSUME NEW x \in Int, NEW y \in Int, NEW z \in Int
  PROVE  x * (y + z) = x * y + x * z /\ (y - z) * x = x * y - x * z
BY Z3

\* No interval is credited twice: what was consumed, is in the bucket or is
\* about to be deposited stays within the burst and the refill of the time
\* claimed, for any number of threads and any rate.
THEOREM RateIsKept == Spec => []GrantsWithinBudget
<1> USE DEF shardVars, bucketVars
<1>c. CapacityFp \in Nat /\ Rate \in Nat /\ Scale \in Nat /\ MaxClock \in Nat
    BY Constants, RouterAssumption
<1>m. \A x \in Nat, y \in Int : x * y \in Int
    BY Z3
<1>i. Init => GrantsWithinBudget
  <2>1. Scale * 0 = 0 /\ Rate * 0 = 0
      BY <1>c
  <2> QED BY <2>1, <1>c DEF Init, GrantsWithinBudget
<1>n. ASSUME TypeOK, GrantsWithinBudget, [Next]_vars PROVE GrantsWithinBudget'
  <2>t. /\ tokens \in Int /\ claimed \in Int /\ granted \in Int /\ last \in Int
        /\ Scale * granted \in Int /\ Rate * last \in Int
      BY <1>n, <1>c, <1>m DEF TypeOK
  <2>1. ASSUME NEW th \in Threads, ClaimRefill(th) PROVE GrantsWithinBudget'
    <3>1. now[th] \in 0..MaxClock /\ prev[th] \in 0..MaxClock
        BY <1>n DEF TypeOK
    <3>2. SignedElapsed(now[th], prev[th]) = now[th] - prev[th]
        BY <3>1, ElapsedIsDifference
    <3>3. (now[th] - prev[th]) * Rate = Rate * now[th] - Rate * prev[th]
        BY <3>1, <1>c, Distribute
    <3>4. claimed' = claimed + (Rate * last' - Rate * last)
        BY <2>1, <3>2, <3>3 DEF ClaimRefill
    <3>5. Rate * last' \in Int
        BY <2>1, <3>1, <1>c, <1>m DEF ClaimRefill
    <3> QED BY <1>n, <2>1, <2>t, <3>4, <3>5, <1>c DEF ClaimRefill, GrantsWithinBudget
  <2>2. ASSUME NEW th \in Threads, Deposit(th) PROVE GrantsWithinBudget'
    <3>1. tokens' <= tokens + add[th] /\ tokens' \in Int /\ add[th] \in Int
        BY <1>n, <2>2, <2>t, <1>c DEF Deposit, TypeOK
    <3> QED BY <1>n, <2>2, <2>t, <3>1, <1>c DEF Deposit, GrantsWithinBudget
  <2>3. ASSUME NEW th \in Threads, Consume(th) PROVE GrantsWithinBudget'
    <3>1. Scale * (granted + 1) = Scale * granted + Scale
        BY <2>t, <1>c, Distribute
    <3> QED BY <1>n, <2>3, <2>t, <3>1, <1>c DEF Consume, GrantsWithinBudget
  <2>4. CASE UNCHANGED <<tokens, granted, claimed, last>>
      BY <1>n, <2>4 DEF GrantsWithinBudget
  <2> QED BY <1>n, <2>1, <2>2, <2>3, <2>4
          DEF Next, TryAcquire, Tick, Call, FindTenant, BeginCreate, DrawCell, Emplace,
              ReadClock, LoadLast, SkipRefill, RetryRefill, Exhausted, TakeSlot,
              GiveBackSlot, Release, Again, vars
<1> QED BY <1>i, <1>n, TypeCorrect, PTL DEF Spec
===============================================================================
