--------------------------- MODULE WarmArchiveProofs ---------------------------
(***************************************************************************)
(* Proofs about WarmArchive, for any numbers of writers, epochs, counts,   *)
(* restarts and windows: the move of an epoch into the archive loses and   *)
(* doubles no count, and the historical evaluator neither misses a flag    *)
(* because of a move nor raises one without counts behind it.              *)
(***************************************************************************)
EXTENDS WarmArchive, FiniteSetTheorems, TLAPS

-------------------------------------------------------------------------------
(* Sums.  A sum is the number of evaluations counted, so sums are compared by
   comparing sets of evaluations. *)

\* An evaluation is an epoch and a number up to the epoch's count.
LEMMA EvaluationsMember ==
  ASSUME NEW f, NEW S, NEW x
  PROVE  x \in Evaluations(f, S) <=> \E e \in S : \E k \in 1..f[e] : x = <<e, k>>
BY DEF Evaluations

\* There are finitely many.
LEMMA EvaluationsFinite ==
  ASSUME NEW f, NEW S, S \subseteq Epochs, \A e \in S : f[e] \in Nat
  PROVE  /\ IsFiniteSet(Evaluations(f, S))
         /\ Sum(f, S) \in Nat
<1> DEFINE Parts == {{e} \X (1..f[e]) : e \in S}
<1>1. IsFiniteSet(S)
  <2>1. IsFiniteSet(Epochs)
      BY FS_Interval, ArchiveAssumption DEF Epochs
  <2> QED BY <2>1, FS_Subset
<1>2. IsFiniteSet(Parts)
  <2> DEFINE g == [e \in S |-> {e} \X (1..f[e])]
  <2>1. Parts = {g[e] : e \in S}
      OBVIOUS
  <2>2. g \in Surjection(S, Parts)
      BY DEF Surjection
  <2> QED BY <1>1, <2>2, FS_Surjection
<1>3. ASSUME NEW T \in Parts PROVE IsFiniteSet(T)
  <2>1. PICK e \in S : T = {e} \X (1..f[e])
      BY <1>3
  <2>2. IsFiniteSet({e})
      BY FS_Singleton
  <2>3. IsFiniteSet(1..f[e])
      BY FS_Interval
  <2> QED BY <2>1, <2>2, <2>3, FS_Product
<1>4. IsFiniteSet(Evaluations(f, S))
    BY <1>2, <1>3, FS_UNION DEF Evaluations
<1> QED BY <1>4, FS_CardinalityType DEF Sum

\* A sum grows with its epochs and with the count of each.
LEMMA SumMonotone ==
  ASSUME NEW f, NEW S, NEW g, NEW T, S \subseteq T, T \subseteq Epochs,
         \A e \in S : f[e] \in Nat /\ f[e] <= g[e],
         \A e \in T : g[e] \in Nat
  PROVE  Sum(f, S) <= Sum(g, T)
<1>1. Evaluations(f, S) \subseteq Evaluations(g, T)
    BY EvaluationsMember
<1>2. IsFiniteSet(Evaluations(g, T))
    BY EvaluationsFinite
<1> QED BY <1>1, <1>2, FS_Subset DEF Sum

\* Each epoch of S has its count in f in one of two tables at least.
InEither(f, S, g, A, h, B) ==
  \A e \in S :
    \/ f[e] = 0
    \/ e \in A /\ f[e] <= g[e]
    \/ e \in B /\ f[e] <= h[e]

\* What is counted in one of two tables at least is in the sum of both.
LEMMA SumCovered ==
  ASSUME NEW f, NEW S, NEW g, NEW A, NEW h, NEW B,
         S \subseteq Epochs, A \subseteq Epochs, B \subseteq Epochs,
         \A e \in S : f[e] \in Nat, \A e \in A : g[e] \in Nat, \A e \in B : h[e] \in Nat,
         InEither(f, S, g, A, h, B)
  PROVE  Sum(f, S) <= Sum(g, A) + Sum(h, B)
<1> DEFINE EF == Evaluations(f, S)
           EG == Evaluations(g, A)
           EH == Evaluations(h, B)
<1>1. EF \subseteq EG \cup EH
  <2> SUFFICES ASSUME NEW x \in EF PROVE x \in EG \/ x \in EH
      OBVIOUS
  <2>1. PICK e \in S : \E k \in 1..f[e] : x = <<e, k>>
      BY EvaluationsMember
  <2>2. PICK k \in 1..f[e] : x = <<e, k>>
      BY <2>1
  <2>3. CASE e \in A /\ f[e] <= g[e]
      BY <2>2, <2>3, EvaluationsMember
  <2>4. CASE e \in B /\ f[e] <= h[e]
      BY <2>2, <2>4, EvaluationsMember
  <2> QED BY <2>2, <2>3, <2>4 DEF InEither
<1>2. IsFiniteSet(EG) /\ IsFiniteSet(EH)
    BY EvaluationsFinite
<1>3. /\ IsFiniteSet(EG \cup EH)
      /\ Cardinality(EG \cup EH) = Cardinality(EG) + Cardinality(EH) - Cardinality(EG \cap EH)
    BY <1>2, FS_Union
<1>4. IsFiniteSet(EG \cap EH)
    BY <1>2, FS_Subset, EG \cap EH \subseteq EG
<1>5. Cardinality(EF) <= Cardinality(EG \cup EH)
    BY <1>1, <1>3, FS_Subset
<1>6. /\ Cardinality(EF) \in Nat /\ Cardinality(EG) \in Nat /\ Cardinality(EH) \in Nat
      /\ Cardinality(EG \cap EH) \in Nat
    BY <1>1, <1>2, <1>3, <1>4, FS_Subset, FS_CardinalityType
<1> QED BY <1>3, <1>5, <1>6 DEF Sum

\* Two tables without an epoch in common sum to no more than what bounds both.
LEMMA SumDisjoint ==
  ASSUME NEW g, NEW A, NEW h, NEW B, NEW f, NEW S,
         S \subseteq Epochs, A \subseteq S, B \subseteq S, A \cap B = {},
         \A e \in S : f[e] \in Nat,
         \A e \in A : g[e] \in Nat /\ g[e] <= f[e],
         \A e \in B : h[e] \in Nat /\ h[e] <= f[e]
  PROVE  Sum(g, A) + Sum(h, B) <= Sum(f, S)
<1> DEFINE EF == Evaluations(f, S)
           EG == Evaluations(g, A)
           EH == Evaluations(h, B)
<1>1. EG \subseteq EF /\ EH \subseteq EF
    BY EvaluationsMember
<1>2. EG \cap EH = {}
  <2> SUFFICES ASSUME NEW x \in EG, x \in EH PROVE FALSE
      OBVIOUS
  <2>1. PICK a \in A : \E k \in 1..g[a] : x = <<a, k>>
      BY EvaluationsMember
  <2>2. PICK b \in B : \E k \in 1..h[b] : x = <<b, k>>
      BY EvaluationsMember
  <2> QED BY <2>1, <2>2
<1>3. IsFiniteSet(EG) /\ IsFiniteSet(EH) /\ IsFiniteSet(EF)
    BY EvaluationsFinite
<1>4. Cardinality(EG \cup EH) = Cardinality(EG) + Cardinality(EH) - Cardinality({})
    BY <1>2, <1>3, FS_Union
<1>5. Cardinality(EG \cup EH) <= Cardinality(EF)
    BY <1>1, <1>3, FS_Subset
<1>6. Cardinality(EG) \in Nat /\ Cardinality(EH) \in Nat /\ Cardinality({}) = 0
    BY <1>3, FS_CardinalityType, FS_EmptySet
<1> QED BY <1>4, <1>5, <1>6 DEF Sum

-------------------------------------------------------------------------------
(* Type correctness. *)

LEMMA WithoutMap ==
  ASSUME NEW rows, NEW e
  PROVE  /\ DOMAIN Without(rows, e) = DOMAIN rows \ {e}
         /\ \A x \in DOMAIN rows \ {e} : Without(rows, e)[x] = rows[x]
BY DEF Without

LEMMA NoRowsMap == DOMAIN NoRows = {}
BY DEF NoRows

LEMMA CountInNat ==
  ASSUME NEW rows, NEW e, \A x \in DOMAIN rows : rows[x] \in Nat
  PROVE  CountIn(rows, e) \in Nat
BY DEF CountIn

\* A table of counts by epoch.
IsTable(rows) == DOMAIN rows \subseteq Epochs /\ \A x \in DOMAIN rows : rows[x] \in Nat

LEMMA PutTable ==
  ASSUME NEW rows, IsTable(rows), NEW e \in Epochs, NEW n \in Nat
  PROVE  IsTable(Put(rows, e, n))
BY DEF Put, IsTable

LEMMA WithoutTable ==
  ASSUME NEW rows, IsTable(rows), NEW e
  PROVE  IsTable(Without(rows, e))
BY DEF Without, IsTable

\* The type invariant with the values of the rows that were summed.
Types ==
  /\ TypeOK
  /\ \A e \in DOMAIN seen : seen[e] \in Nat

LEMMA WriterReturnsType ==
  ASSUME TypeOK, NEW w \in Writers, WriterReturns(w)
  PROVE  /\ wpc' \in [Writers -> {"idle", "get", "swap"}]
         /\ wepoch' \in [Writers -> Epochs]
         /\ read' \in [Writers -> Nat]
BY ArchiveAssumption DEF WriterReturns, TypeOK, Epochs

LEMMA QueryGoneType ==
  ASSUME QueryGone
  PROVE  /\ qpc' \in {"idle", "warm", "cold", "done"}
         /\ range' \subseteq Epochs
         /\ DOMAIN seen' \subseteq Epochs
         /\ \A e \in DOMAIN seen' : seen'[e] \in Nat
         /\ answer' \in {"Flag", "Pass"}
         /\ asked' \in [Epochs -> Nat]
         /\ windows' \subseteq Epochs
         /\ coldOk' \in BOOLEAN
BY NoRowsMap DEF QueryGone

LEMMA InitTypes == Init => Types
<1> SUFFICES ASSUME Init PROVE Types
    OBVIOUS
<1>1. clock \in Epochs /\ moving \in Epochs /\ starts \in 0..MaxStarts
    BY ArchiveAssumption DEF Init, Epochs
<1>2. coldOk \in BOOLEAN
    BY Zenon DEF Init
<1>3. wepoch \in [Writers -> Epochs]
    BY ArchiveAssumption DEF Init, Epochs
<1> QED BY <1>1, <1>2, <1>3, NoRowsMap DEF Init, TypeOK, Types

LEMMA NextTypes == Types /\ [Next]_vars => Types'
<1> SUFFICES ASSUME Types, [Next]_vars PROVE Types'
    OBVIOUS
<1> USE ArchiveAssumption DEF Types
<1> USE DEF storeVars, writerVars, archiveVars, queryVars
<1>0. 0 \in Epochs
    BY DEF Epochs
<1>1. CASE Open
    BY <1>1 DEF Open, TypeOK
<1>2. CASE Crash
    BY <1>0, <1>2, QueryGoneType DEF Crash, TypeOK
<1>3. CASE Tick
  <2>1. clock' \in Epochs
      BY <1>3 DEF Tick, TypeOK, Epochs
  <2> QED BY <1>3, <2>1 DEF Tick, TypeOK
<1>4. ASSUME NEW w \in Writers, NEW e \in Epochs, Evaluate(w, e) PROVE Types'
    BY <1>4 DEF Evaluate, TypeOK
<1>5. ASSUME NEW w \in Writers, Get(w) PROVE Types'
  <2>1. CountIn(warm, wepoch[w]) \in Nat
      BY CountInNat DEF TypeOK
  <2> QED BY <1>5, <2>1 DEF Get, TypeOK
<1>6. ASSUME NEW w \in Writers, Swap(w) PROVE Types'
  <2>0. IsTable(warm) /\ wepoch[w] \in Epochs /\ read[w] + 1 \in Nat
      BY DEF TypeOK, IsTable
  <2>1. IsTable(warm')
      BY <1>6, <2>0, PutTable DEF Swap
  <2>2. disturbed' \subseteq Epochs
      BY <1>6 DEF Swap, TypeOK, WrittenLate
  <2>3. counted' \in [Epochs -> Nat]
      BY <1>6 DEF Swap, TypeOK
  <2> QED BY <1>6, <2>1, <2>2, <2>3, WriterReturnsType DEF Swap, TypeOK, IsTable
<1>7. ASSUME NEW w \in Writers, SwapFails(w) PROVE Types'
  <2>1. CountIn(warm, wepoch[w]) \in Nat
      BY CountInNat DEF TypeOK
  <2>2. disturbed' \subseteq Epochs
      BY <1>7 DEF SwapFails, TypeOK, WrittenLate
  <2>3. /\ wpc' \in [Writers -> {"idle", "get", "swap"}]
        /\ wepoch' \in [Writers -> Epochs]
        /\ read' \in [Writers -> Nat]
      BY <1>7, WriterReturnsType DEF SwapFails, TypeOK
  <2>4. IsTable(warm')
      BY <1>7, <2>1, PutTable DEF SwapFails, TypeOK, IsTable
  <2> QED BY <1>7, <2>2, <2>3, <2>4 DEF SwapFails, TypeOK, IsTable
<1>8. ASSUME NEW w \in Writers, CallFails(w) PROVE Types'
    BY <1>8, WriterReturnsType DEF CallFails, TypeOK
<1>19. ASSUME NEW w \in Writers, CommitFails(w) PROVE Types'
  <2>1. /\ wpc' \in [Writers -> {"idle", "get", "swap"}]
        /\ wepoch' \in [Writers -> Epochs]
        /\ read' \in [Writers -> Nat]
      BY <1>19, WriterReturnsType DEF CommitFails, TypeOK
  <2>2. disturbed' \subseteq Epochs /\ counted' \in [Epochs -> Nat]
      BY <1>19 DEF CommitFails, TypeOK
  <2> QED BY <1>19, <2>1, <2>2 DEF CommitFails, TypeOK
<1>9. ASSUME NEW e \in Epochs, Expire(e) PROVE Types'
  <2>1. IsTable(warm')
      BY <1>9, WithoutTable DEF Expire, TypeOK, IsTable
  <2> QED BY <1>9, <2>1 DEF Expire, TypeOK, IsTable
<1>10. CASE SelectOld
    BY <1>10 DEF SelectOld, TypeOK
<1>11. CASE Copy
  <2>1. PICK e \in pending :
          /\ moving' = e
          /\ pending' = pending \ {e}
          /\ \/ parquet' = Put(parquet, e, CountIn(warm, e)) /\ UNCHANGED disturbed
             \/ disturbed' = disturbed \cup {e} /\ UNCHANGED parquet
      BY <1>11 DEF Copy
  <2>2. CountIn(warm, e) \in Nat
      BY CountInNat DEF TypeOK
  <2>3. disturbed' \subseteq Epochs /\ IsTable(parquet')
      BY <2>1, <2>2, PutTable DEF TypeOK, IsTable
  <2> QED BY <1>11, <2>1, <2>3 DEF Copy, TypeOK, IsTable
<1>12. CASE Delete
  <2>1. IsTable(warm')
      BY <1>12, WithoutTable DEF Delete, TypeOK, IsTable
  <2> QED BY <1>0, <1>12, <2>1 DEF Delete, TypeOK, IsTable
<1>13. CASE DeleteFails
    BY <1>0, <1>13 DEF DeleteFails, TypeOK
<1>14. ASSUME NEW n \in WindowCounts, Ask(n) PROVE Types'
  <2>1. range' \subseteq Epochs
      BY <1>14 DEF Ask, StartEpoch, Epochs, TypeOK
  <2>2. coldOk' \in BOOLEAN
      BY <1>14, Zenon DEF Ask
  <2> QED BY <1>14, <2>1, <2>2, NoRowsMap DEF Ask, TypeOK
<1>15. CASE ReadWarm
    BY <1>15 DEF ReadWarm, TypeOK
<1>16. CASE ReadCold
  <2>1. coldOk' \in BOOLEAN
      BY <1>16 DEF ReadCold
  <2>2. answer' \in {"Flag", "Pass"}
      BY <1>16 DEF ReadCold, Verdict
  <2> QED BY <1>16, <2>1, <2>2 DEF ReadCold, TypeOK
<1>17. CASE QueryFails
    BY <1>17, QueryGoneType DEF QueryFails, TypeOK
<1>18. CASE UNCHANGED vars
    BY <1>18 DEF vars, TypeOK
<1> QED BY <1>1, <1>2, <1>3, <1>4, <1>5, <1>6, <1>7, <1>8, <1>9, <1>10, <1>11, <1>12, <1>13,
           <1>14, <1>15, <1>16, <1>17, <1>18, <1>19 DEF Next, WriterStep, ArchiveStep, QueryStep

\* The type invariant: the clock, the epochs of rows, files, results and ranges
\* stay within the epochs there are.
THEOREM TypeCorrect == Spec => []TypeOK
<1>1. Types => TypeOK
    BY DEF Types
<1> QED BY <1>1, InitTypes, NextTypes, PTL DEF Spec

-------------------------------------------------------------------------------
(* The move into the archive. *)

\* MovedIntact made inductive.  An undisturbed epoch still to be moved has its
\* row; the epoch between COPY and DELETE is not selected again and, undisturbed,
\* has its file, so that the DELETE loses nothing.
MoveInv ==
  /\ MovedIntact
  /\ pending \ disturbed \subseteq DOMAIN warm
  /\ apc = "deleting" => moving \notin pending /\ moving \in disturbed \cup DOMAIN parquet

LEMMA InitMoveInv == Init => MoveInv
BY NoRowsMap DEF Init, MoveInv, MovedIntact

\* A write by compare_and_swap() of the count that the row should have.
LEMMA WriteKeepsMoveInv ==
  ASSUME Types, MoveInv, NEW e \in Epochs, NEW n \in Nat,
         warm' = Put(warm, e, n),
         disturbed \subseteq disturbed',
         e \in DOMAIN parquet => e \in disturbed' \/ (e \in DOMAIN warm /\ counted'[e] = counted[e]),
         n - CountIn(warm, e) = counted'[e] - counted[e],
         counted' \in [Epochs -> Nat],
         \A x \in Epochs \ {e} : counted'[x] = counted[x],
         UNCHANGED <<parquet, archiveVars>>
  PROVE  MoveInv'
<1> USE DEF archiveVars
<1>0. /\ DOMAIN warm' = DOMAIN warm \cup {e}
      /\ warm'[e] = n
      /\ \A x \in DOMAIN warm : x # e => warm'[x] = warm[x]
    BY DEF Put
<1>1. ASSUME NEW x \in Epochs \ disturbed'
      PROVE  /\ x \in DOMAIN warm' => warm'[x] = counted'[x]
             /\ x \in DOMAIN parquet' => parquet'[x] = counted'[x]
             /\ x \notin DOMAIN warm' \cup DOMAIN parquet' => counted'[x] = 0
  <2>0. x \in Epochs \ disturbed
      OBVIOUS
  <2>1. CASE x # e
      BY <1>0, <2>0, <2>1 DEF MoveInv, MovedIntact
  <2>2. CASE x = e
    <3>1. /\ e \in DOMAIN warm => warm[e] = counted[e]
          /\ e \in DOMAIN parquet => parquet[e] = counted[e]
          /\ e \notin DOMAIN warm \cup DOMAIN parquet => counted[e] = 0
        BY <2>0, <2>2 DEF MoveInv, MovedIntact
    <3>2. counted[e] \in Nat /\ counted'[e] \in Nat
        BY DEF Types, TypeOK
    <3>3. CountIn(warm, e) = counted[e]
        BY <2>2, <3>1 DEF CountIn
    <3>4. n = counted'[e]
        BY <3>2, <3>3
    <3> QED BY <1>0, <2>2, <3>1, <3>4
  <2> QED BY <2>1, <2>2
<1>2. MovedIntact'
    BY <1>1 DEF MovedIntact
<1> QED BY <1>0, <1>2 DEF MoveInv

LEMMA NextMoveInv == Types /\ Types' /\ MoveInv /\ [Next]_vars => MoveInv'
<1> SUFFICES ASSUME Types, Types', MoveInv, [Next]_vars PROVE MoveInv'
    OBVIOUS
<1> USE ArchiveAssumption
<1> USE DEF storeVars, writerVars, archiveVars, queryVars
<1>1. CASE UNCHANGED <<warm, parquet, archiveVars, counted, disturbed>>
    BY <1>1 DEF MoveInv, MovedIntact
<1>2. CASE Crash
    BY <1>2 DEF Crash, MoveInv, MovedIntact
<1>3. ASSUME NEW w \in Writers, Swap(w) PROVE MoveInv'
  <2> DEFINE e == wepoch[w]
  <2>1. e \in Epochs /\ read[w] \in Nat
      BY DEF Types, TypeOK
  <2>2. /\ warm' = Put(warm, e, read[w] + 1)
        /\ CountIn(warm, e) = read[w]
        /\ counted' = [counted EXCEPT ![e] = @ + 1]
        /\ disturbed' = disturbed \cup WrittenLate(e)
        /\ UNCHANGED <<parquet, archiveVars>>
      BY <1>3 DEF Swap
  <2>3. e \in DOMAIN parquet => e \in disturbed'
      BY <2>2 DEF WrittenLate
  <2>4. /\ counted' \in [Epochs -> Nat] /\ counted \in [Epochs -> Nat]
        /\ counted'[e] = counted[e] + 1
        /\ \A x \in Epochs \ {e} : counted'[x] = counted[x]
      BY <2>1, <2>2 DEF Types, TypeOK
  <2>5. read[w] + 1 - CountIn(warm, e) = counted'[e] - counted[e]
      BY <2>1, <2>2, <2>4
  <2> HIDE DEF e
  <2> QED BY <2>1, <2>2, <2>3, <2>4, <2>5, WriteKeepsMoveInv
<1>4. ASSUME NEW w \in Writers, SwapFails(w) PROVE MoveInv'
  <2> DEFINE e == wepoch[w]
             n == CountIn(warm, e)
  <2>1. e \in Epochs /\ n \in Nat
      BY CountInNat DEF Types, TypeOK
  <2>2. /\ warm' = Put(warm, e, n)
        /\ disturbed' = IF e \in DOMAIN warm THEN disturbed ELSE disturbed \cup WrittenLate(e)
        /\ UNCHANGED <<parquet, archiveVars, counted>>
      BY <1>4 DEF SwapFails
  <2>3. /\ disturbed \subseteq disturbed'
        /\ e \in DOMAIN parquet =>
             e \in disturbed' \/ (e \in DOMAIN warm /\ counted'[e] = counted[e])
      BY <2>2 DEF WrittenLate
  <2>4. /\ counted' \in [Epochs -> Nat] /\ counted \in [Epochs -> Nat]
        /\ \A x \in Epochs \ {e} : counted'[x] = counted[x]
      BY <2>2 DEF Types, TypeOK
  <2>5. n - CountIn(warm, e) = counted'[e] - counted[e]
      BY <2>1, <2>2, <2>4
  <2> HIDE DEF e, n
  <2> QED BY <2>1, <2>2, <2>3, <2>4, <2>5, WriteKeepsMoveInv
<1>5. ASSUME NEW e \in Epochs, Expire(e) PROVE MoveInv'
  <2>1. /\ DOMAIN warm' = DOMAIN warm \ {e}
        /\ \A x \in DOMAIN warm \ {e} : warm'[x] = warm[x]
      BY <1>5, WithoutMap DEF Expire
  <2> QED BY <1>5, <2>1 DEF Expire, MoveInv, MovedIntact
<1>6. CASE SelectOld
    BY <1>6 DEF SelectOld, MoveInv, MovedIntact
<1>7. CASE Copy
  <2>1. PICK e \in pending :
          /\ moving' = e
          /\ pending' = pending \ {e}
          /\ \/ parquet' = Put(parquet, e, CountIn(warm, e)) /\ UNCHANGED disturbed
             \/ disturbed' = disturbed \cup {e} /\ UNCHANGED parquet
      BY <1>7 DEF Copy
  <2>2. UNCHANGED <<warm, counted>>
      BY <1>7 DEF Copy
  <2>3. CASE disturbed' = disturbed \cup {e} /\ UNCHANGED parquet
      BY <2>1, <2>2, <2>3 DEF MoveInv, MovedIntact
  <2>4. CASE parquet' = Put(parquet, e, CountIn(warm, e)) /\ UNCHANGED disturbed
    <3>1. /\ DOMAIN parquet' = DOMAIN parquet \cup {e}
          /\ parquet'[e] = CountIn(warm, e)
          /\ \A x \in DOMAIN parquet : x # e => parquet'[x] = parquet[x]
        BY <2>4 DEF Put
    <3>2. e \notin disturbed => CountIn(warm, e) = counted[e]
        BY DEF MoveInv, MovedIntact, CountIn, Types, TypeOK
    <3>3. MovedIntact'
        BY <2>2, <2>4, <3>1, <3>2 DEF MoveInv, MovedIntact
    <3> QED BY <2>1, <2>2, <2>4, <3>1, <3>3 DEF MoveInv
  <2> QED BY <2>1, <2>3, <2>4
<1>8. CASE Delete
  <2>1. /\ DOMAIN warm' = DOMAIN warm \ {moving}
        /\ \A x \in DOMAIN warm \ {moving} : warm'[x] = warm[x]
      BY <1>8, WithoutMap DEF Delete
  <2>2. moving \in disturbed \cup DOMAIN parquet /\ moving \notin pending
      BY <1>8 DEF Delete, MoveInv
  <2>3. MovedIntact'
      BY <1>8, <2>1, <2>2 DEF Delete, MoveInv, MovedIntact
  <2> QED BY <1>8, <2>1, <2>2, <2>3 DEF Delete, MoveInv
<1>9. CASE DeleteFails
    BY <1>9 DEF DeleteFails, MoveInv, MovedIntact
<1>10. ASSUME NEW w \in Writers, CommitFails(w) PROVE MoveInv'
  <2>1. /\ disturbed \subseteq disturbed'
        /\ \A x \in Epochs \ disturbed' : counted'[x] = counted[x]
      BY <1>10 DEF CommitFails, Types, TypeOK
  <2> QED BY <1>10, <2>1 DEF CommitFails, MoveInv, MovedIntact
<1> QED
  <2>1. CASE Open \/ Tick
      BY <1>1, <2>1 DEF Open, Tick
  <2>2. ASSUME NEW w \in Writers, Get(w) \/ CallFails(w) \/ \E e \in Epochs : Evaluate(w, e)
        PROVE  MoveInv'
      BY <1>1, <2>2 DEF Get, CallFails, Evaluate
  <2>3. CASE QueryStep \/ \E n \in WindowCounts : Ask(n)
      BY <1>1, <2>3 DEF QueryStep, ReadWarm, ReadCold, QueryFails, Ask
  <2>4. CASE UNCHANGED vars
      BY <1>1, <2>4 DEF vars
  <2> QED BY <1>2, <1>3, <1>4, <1>5, <1>6, <1>7, <1>8, <1>9, <1>10, <2>1, <2>2, <2>3, <2>4
          DEF Next, WriterStep, ArchiveStep

\* The move of an epoch from the table into its file loses and doubles no count,
\* whatever dies, fails or is written meanwhile.
THEOREM MoveKeepsCounts == Spec => []MovedIntact
<1>1. MoveInv => MovedIntact
    BY DEF MoveInv
<1> QED BY <1>1, InitTypes, NextTypes, InitMoveInv, NextMoveInv, PTL DEF Spec

-------------------------------------------------------------------------------
(* What may change under a query: counts only grow, files are only added, epochs
   are only disturbed. *)

LEMMA Growth ==
  ASSUME Types, [Next]_vars
  PROVE  /\ \A e \in Epochs : counted[e] <= counted'[e]
         /\ DOMAIN parquet \subseteq DOMAIN parquet'
         /\ disturbed \subseteq disturbed'
<1> USE DEF storeVars, writerVars, archiveVars, queryVars
<1> DEFINE Grown == /\ \A e \in Epochs : counted[e] <= counted'[e]
                    /\ DOMAIN parquet \subseteq DOMAIN parquet'
                    /\ disturbed \subseteq disturbed'
<1> SUFFICES Grown
    OBVIOUS
<1>0. CASE UNCHANGED <<counted, parquet>> /\ disturbed \subseteq disturbed'
    BY <1>0 DEF Types, TypeOK
<1>1. ASSUME NEW w \in Writers, Swap(w) PROVE Grown
    BY <1>1 DEF Swap, Types, TypeOK
<1>9. ASSUME NEW w \in Writers, CommitFails(w) PROVE Grown
    BY <1>9 DEF CommitFails, Types, TypeOK
<1>2. CASE Copy
  <2>1. UNCHANGED counted /\ disturbed \subseteq disturbed'
      BY <1>2 DEF Copy
  <2>2. DOMAIN parquet \subseteq DOMAIN parquet'
      BY <1>2 DEF Copy, Put
  <2> QED BY <2>1, <2>2 DEF Types, TypeOK
<1> HIDE DEF Grown
<1>3. CASE Open \/ Crash \/ Tick
    BY <1>0, <1>3 DEF Open, Crash, Tick
<1>4. ASSUME NEW w \in Writers,
             Get(w) \/ SwapFails(w) \/ CallFails(w) \/ \E e \in Epochs : Evaluate(w, e)
      PROVE  Grown
    BY <1>0, <1>4 DEF Get, SwapFails, CallFails, Evaluate
<1>5. ASSUME NEW e \in Epochs, Expire(e) PROVE Grown
    BY <1>0, <1>5 DEF Expire
<1>6. CASE SelectOld \/ Delete \/ DeleteFails
    BY <1>0, <1>6 DEF SelectOld, Delete, DeleteFails
<1>7. CASE QueryStep \/ \E n \in WindowCounts : Ask(n)
    BY <1>0, <1>7 DEF QueryStep, ReadWarm, ReadCold, QueryFails, Ask
<1>8. CASE UNCHANGED vars
    BY <1>0, <1>8 DEF vars
<1> QED BY <1>1, <1>2, <1>3, <1>4, <1>5, <1>6, <1>7, <1>8, <1>9
        DEF Next, WriterStep, ArchiveStep

\* No row and no file has more than was counted, disturbed or not.
BoundInv ==
  /\ \A e \in DOMAIN warm : warm[e] <= counted[e]
  /\ \A e \in DOMAIN parquet : parquet[e] <= counted[e]

LEMMA InitBoundInv == Init => BoundInv
BY NoRowsMap DEF Init, BoundInv

\* The count that is read is not above what was counted either.
LEMMA CountInBound ==
  ASSUME Types, BoundInv, NEW e \in Epochs
  PROVE  CountIn(warm, e) \in Nat /\ CountIn(warm, e) <= counted[e]
BY DEF CountIn, BoundInv, Types, TypeOK

LEMMA NextBoundInv == Types /\ BoundInv /\ [Next]_vars => BoundInv'
<1> SUFFICES ASSUME Types, BoundInv, [Next]_vars PROVE BoundInv'
    OBVIOUS
<1> USE DEF storeVars, writerVars, archiveVars, queryVars
<1>1. CASE UNCHANGED <<warm, parquet, counted>>
    BY <1>1 DEF BoundInv
<1>2. ASSUME NEW w \in Writers, Swap(w) PROVE BoundInv'
  <2>0. /\ wepoch[w] \in Epochs
        /\ CountIn(warm, wepoch[w]) \in Nat
        /\ CountIn(warm, wepoch[w]) <= counted[wepoch[w]]
      BY CountInBound DEF Types, TypeOK
  <2>1. \A e \in DOMAIN warm' : warm'[e] <= counted'[e]
      BY <1>2, <2>0 DEF Swap, Put, BoundInv, Types, TypeOK
  <2>2. \A e \in DOMAIN parquet' : parquet'[e] <= counted'[e]
      BY <1>2, <2>0 DEF Swap, BoundInv, Types, TypeOK
  <2> QED BY <2>1, <2>2 DEF BoundInv
<1>3. ASSUME NEW w \in Writers, SwapFails(w) PROVE BoundInv'
  <2>0. /\ wepoch[w] \in Epochs
        /\ CountIn(warm, wepoch[w]) <= counted[wepoch[w]]
      BY CountInBound DEF Types, TypeOK
  <2>1. /\ warm' = Put(warm, wepoch[w], CountIn(warm, wepoch[w]))
        /\ UNCHANGED <<parquet, counted>>
      BY <1>3 DEF SwapFails
  <2> QED BY <2>0, <2>1 DEF Put, BoundInv
<1>4. ASSUME NEW e \in Epochs, Expire(e) PROVE BoundInv'
    BY <1>4 DEF Expire, Without, BoundInv
<1>5. CASE Copy
  <2>1. UNCHANGED <<warm, counted>>
      BY <1>5 DEF Copy
  <2>2. PICK e \in pending :
          parquet' = Put(parquet, e, CountIn(warm, e)) \/ UNCHANGED parquet
      BY <1>5 DEF Copy
  <2>3. CountIn(warm, e) <= counted[e]
      BY CountInBound DEF Types, TypeOK
  <2> QED BY <2>1, <2>2, <2>3 DEF Put, BoundInv
<1>6. CASE Delete
    BY <1>6 DEF Delete, Without, BoundInv
<1>7. ASSUME NEW w \in Writers, CommitFails(w) PROVE BoundInv'
  <2>1. UNCHANGED <<warm, parquet>> /\ \A e \in Epochs : counted[e] <= counted'[e]
      BY <1>7 DEF CommitFails, Types, TypeOK
  <2>2. counted \in [Epochs -> Nat] /\ counted' \in [Epochs -> Nat]
      BY <1>7 DEF CommitFails, Types, TypeOK
  <2> QED BY <2>1, <2>2 DEF BoundInv, Types, TypeOK
<1> QED
  <2>1. CASE Open \/ Crash \/ Tick
      BY <1>1, <2>1 DEF Open, Crash, Tick
  <2>2. ASSUME NEW w \in Writers, Get(w) \/ CallFails(w) \/ \E e \in Epochs : Evaluate(w, e)
        PROVE  BoundInv'
      BY <1>1, <2>2 DEF Get, CallFails, Evaluate
  <2>3. CASE SelectOld \/ DeleteFails
      BY <1>1, <2>3 DEF SelectOld, DeleteFails
  <2>4. CASE QueryStep \/ \E n \in WindowCounts : Ask(n)
      BY <1>1, <2>4 DEF QueryStep, ReadWarm, ReadCold, QueryFails, Ask
  <2>5. CASE UNCHANGED vars
      BY <1>1, <2>5 DEF vars
  <2> QED BY <1>2, <1>3, <1>4, <1>5, <1>6, <1>7, <2>1, <2>2, <2>3, <2>4, <2>5
          DEF Next, WriterStep, ArchiveStep

-------------------------------------------------------------------------------
(* The historical evaluator. *)

\* The evaluations of an epoch that were counted when the query began are in what
\* its first statement summed or are in a file that its second will find.
Covered(e) ==
  \/ asked[e] = 0
  \/ e \in DOMAIN seen /\ asked[e] <= seen[e]
  \/ e \in DOMAIN parquet

\* The query's variables: the epochs asked for are the last num_windows windows;
\* what was asked and seen had been counted.
QueryInv ==
  /\ windows = range
  /\ \A e \in Epochs : asked[e] <= counted[e]
  /\ DOMAIN seen \subseteq range
  /\ \A e \in DOMAIN seen : seen[e] <= counted[e]
  /\ qpc = "cold" => \A e \in range \ disturbed : Covered(e)
  /\ FlagNotMissed
  /\ FlagJustified

\* start_epoch is exact: the epochs from it on are the last n windows.
LEMMA RangeIsWindows ==
  ASSUME NEW now \in Epochs, NEW n \in Nat \ {0}
  PROVE  StartEpoch(now, n)..now = {e \in Epochs : e <= now /\ now - e < n}
BY ArchiveAssumption DEF StartEpoch, Epochs

LEMMA InitQueryInv == Init => QueryInv
<1> SUFFICES ASSUME Init PROVE QueryInv
    OBVIOUS
<1>1. FlagNotMissed /\ FlagJustified
    BY DEF Init, FlagNotMissed, FlagJustified
<1> QED BY <1>1, NoRowsMap DEF Init, QueryInv

\* Nothing of a query is left.
LEMMA QueryGoneInv == Types' /\ QueryGone => QueryInv'
<1> SUFFICES ASSUME Types', QueryGone PROVE QueryInv'
    OBVIOUS
<1>1. FlagNotMissed' /\ FlagJustified'
    BY DEF QueryGone, FlagNotMissed, FlagJustified
<1>2. \A e \in Epochs : asked'[e] <= counted'[e]
    BY DEF QueryGone, Types, TypeOK
<1> QED BY <1>1, <1>2, NoRowsMap DEF QueryGone, QueryInv

\* The steps of others do not invalidate what a query has found.
LEMMA OthersKeepQueryInv ==
  ASSUME Types, Types', QueryInv, [Next]_vars, UNCHANGED queryVars
  PROVE  QueryInv'
<1> USE DEF queryVars
<1>0. /\ \A e \in Epochs : counted[e] <= counted'[e]
      /\ DOMAIN parquet \subseteq DOMAIN parquet'
      /\ disturbed \subseteq disturbed'
    BY Growth
<1>1. \A e \in Epochs : asked'[e] <= counted'[e]
    BY <1>0 DEF QueryInv, Types, TypeOK
<1>2. \A e \in DOMAIN seen' : seen'[e] <= counted'[e]
    BY <1>0 DEF QueryInv, Types, TypeOK
<1>3. qpc' = "cold" => \A e \in range' \ disturbed' : Covered(e)'
    BY <1>0 DEF QueryInv, Covered
<1>4. FlagNotMissed'
  <2> SUFFICES ASSUME qpc = "done", coldOk, answer = "Pass"
               PROVE  Sum(asked, windows \ disturbed') < Threshold
      BY DEF FlagNotMissed
  <2>1. Sum(asked, windows \ disturbed) < Threshold
      BY DEF QueryInv, FlagNotMissed
  <2>2. /\ windows \ disturbed' \subseteq windows \ disturbed
        /\ windows \ disturbed \subseteq Epochs
        /\ \A e \in windows \ disturbed : asked[e] \in Nat /\ asked[e] <= asked[e]
      BY <1>0 DEF Types, TypeOK
  <2>3. Sum(asked, windows \ disturbed') <= Sum(asked, windows \ disturbed)
      BY <2>2, SumMonotone
  <2>4. Sum(asked, windows \ disturbed') \in Nat /\ Sum(asked, windows \ disturbed) \in Nat
      BY <2>2, EvaluationsFinite
  <2> QED BY <2>1, <2>3, <2>4, ArchiveAssumption
<1>5. FlagJustified'
  <2> SUFFICES ASSUME qpc = "done", answer = "Flag",
                      DOMAIN seen \cap DOMAIN parquet' = {}
               PROVE  Sum(counted', windows) >= Threshold
      BY DEF FlagJustified
  <2>1. Sum(counted, windows) >= Threshold
      BY <1>0 DEF QueryInv, FlagJustified
  <2>2. /\ windows \subseteq Epochs
        /\ \A e \in windows : counted[e] \in Nat /\ counted[e] <= counted'[e]
        /\ \A e \in windows : counted'[e] \in Nat
      BY <1>0 DEF Types, TypeOK
  <2>3. Sum(counted, windows) <= Sum(counted', windows)
      BY <2>2, SumMonotone
  <2>4. Sum(counted, windows) \in Nat /\ Sum(counted', windows) \in Nat
      BY <2>2, EvaluationsFinite
  <2> QED BY <2>1, <2>3, <2>4, ArchiveAssumption
<1> QED BY <1>1, <1>2, <1>3, <1>4, <1>5 DEF QueryInv

LEMMA AskInv ==
  ASSUME Types, Types', NEW n \in WindowCounts, Ask(n)
  PROVE  QueryInv'
<1>1. windows' = range'
    BY RangeIsWindows, ArchiveAssumption DEF Ask, Types, TypeOK
<1>2. FlagNotMissed' /\ FlagJustified'
    BY DEF Ask, FlagNotMissed, FlagJustified
<1>3. \A e \in Epochs : asked'[e] <= counted'[e]
    BY DEF Ask, Types, TypeOK
<1> QED BY <1>1, <1>2, <1>3, NoRowsMap DEF Ask, QueryInv

\* The first statement: an undisturbed epoch is in the table with its exact count,
\* or in a file already, or has no count.
LEMMA ReadWarmInv ==
  ASSUME Types, MoveInv, BoundInv, QueryInv, ReadWarm
  PROVE  QueryInv'
<1>0. UNCHANGED <<parquet, range, asked, windows, counted, disturbed>>
    BY DEF ReadWarm, writerVars, archiveVars, storeVars
<1>1. /\ DOMAIN seen' = DOMAIN warm \cap range
      /\ \A e \in DOMAIN warm \cap range : seen'[e] = warm[e]
    BY DEF ReadWarm
<1>2. \A e \in DOMAIN seen' : seen'[e] <= counted'[e]
    BY <1>0, <1>1 DEF BoundInv
<1>3. ASSUME NEW e \in range \ disturbed PROVE Covered(e)'
  <2>0. e \in Epochs /\ asked[e] \in Nat /\ counted[e] \in Nat /\ asked[e] <= counted[e]
      BY DEF QueryInv, Types, TypeOK
  <2>1. /\ e \in DOMAIN warm => warm[e] = counted[e]
        /\ e \notin DOMAIN warm \cup DOMAIN parquet => counted[e] = 0
      BY <2>0 DEF MoveInv, MovedIntact
  <2> QED BY <1>0, <1>1, <2>0, <2>1 DEF Covered
<1>4. FlagNotMissed' /\ FlagJustified'
    BY DEF ReadWarm, FlagNotMissed, FlagJustified
<1>5. \A e \in Epochs : asked'[e] <= counted'[e]
    BY <1>0 DEF QueryInv
<1>6. windows' = range' /\ DOMAIN seen' \subseteq range'
    BY <1>0, <1>1 DEF QueryInv
<1> QED BY <1>0, <1>2, <1>3, <1>4, <1>5, <1>6 DEF QueryInv

\* The second: what was asked for is in one sum or the other, and what is in
\* exactly one of them was counted.
LEMMA ReadColdInv ==
  ASSUME Types, MoveInv, BoundInv, QueryInv, ReadCold
  PROVE  QueryInv'
<1> DEFINE Cold == DOMAIN parquet \cap range
<1>0. /\ qpc = "cold" /\ qpc' = "done"
      /\ UNCHANGED <<parquet, range, seen, asked, windows, counted, disturbed>>
      /\ answer' = Verdict(Sum(seen, DOMAIN seen) + (IF coldOk' THEN Sum(parquet, Cold) ELSE 0))
    BY DEF ReadCold, writerVars, archiveVars, storeVars
<1>1. /\ DOMAIN seen \subseteq Epochs /\ \A e \in DOMAIN seen : seen[e] \in Nat
      /\ Cold \subseteq Epochs /\ \A e \in Cold : parquet[e] \in Nat
      /\ windows \subseteq Epochs /\ windows = range
      /\ counted \in [Epochs -> Nat] /\ asked \in [Epochs -> Nat]
    BY DEF QueryInv, Types, TypeOK
<1>2. Sum(seen, DOMAIN seen) \in Nat /\ Sum(parquet, Cold) \in Nat
    BY <1>1, EvaluationsFinite
<1>3. FlagNotMissed'
  <2> SUFFICES ASSUME coldOk', answer' = "Pass"
               PROVE  Sum(asked, windows \ disturbed) < Threshold
      BY <1>0 DEF FlagNotMissed
  <2>1. Sum(seen, DOMAIN seen) + Sum(parquet, Cold) < Threshold
      BY <1>0, <1>2, ArchiveAssumption DEF Verdict
  <2>2. InEither(asked, windows \ disturbed, seen, DOMAIN seen, parquet, Cold)
    <3>1. ASSUME NEW e \in windows \ disturbed
          PROVE  \/ asked[e] = 0
                 \/ e \in DOMAIN seen /\ asked[e] <= seen[e]
                 \/ e \in Cold /\ asked[e] <= parquet[e]
      <4>1. Covered(e)
          BY <1>0, <1>1 DEF QueryInv
      <4>2. e \in Epochs /\ e \in range /\ asked[e] <= counted[e]
          BY <1>1 DEF QueryInv
      <4>3. e \in DOMAIN parquet => parquet[e] = counted[e]
          BY <4>2 DEF MoveInv, MovedIntact
      <4> QED BY <4>1, <4>2, <4>3 DEF Covered
    <3> QED BY <3>1 DEF InEither
  <2>3. /\ windows \ disturbed \subseteq Epochs
        /\ \A e \in windows \ disturbed : asked[e] \in Nat
      BY <1>1
  <2>4. Sum(asked, windows \ disturbed) \in Nat
      BY <2>3, EvaluationsFinite
  <2>5. Sum(asked, windows \ disturbed) <= Sum(seen, DOMAIN seen) + Sum(parquet, Cold)
    <3> HIDE DEF Cold
    <3> QED BY <1>1, <2>2, <2>3, SumCovered
  <2> QED BY <1>2, <2>1, <2>4, <2>5, ArchiveAssumption
<1>4. FlagJustified'
  <2> SUFFICES ASSUME answer' = "Flag", DOMAIN seen \cap DOMAIN parquet = {}
               PROVE  Sum(counted, windows) >= Threshold
      BY <1>0 DEF FlagJustified
  <2>1. Sum(seen, DOMAIN seen) + Sum(parquet, Cold) >= Threshold
      BY <1>0, <1>2, ArchiveAssumption DEF Verdict
  <2>2. /\ DOMAIN seen \subseteq windows /\ Cold \subseteq windows
        /\ DOMAIN seen \cap Cold = {}
        /\ \A e \in windows : counted[e] \in Nat
        /\ \A e \in DOMAIN seen : seen[e] \in Nat /\ seen[e] <= counted[e]
        /\ \A e \in Cold : parquet[e] \in Nat /\ parquet[e] <= counted[e]
      BY <1>1 DEF QueryInv, BoundInv
  <2>3. Sum(counted, windows) \in Nat
      BY <1>1, <2>2, EvaluationsFinite
  <2> HIDE DEF Cold
  <2>4. Sum(seen, DOMAIN seen) + Sum(parquet, Cold) <= Sum(counted, windows)
      BY <1>1, <2>2, SumDisjoint
  <2> QED BY <1>2, <2>1, <2>3, <2>4, ArchiveAssumption
<1> QED BY <1>0, <1>3, <1>4 DEF QueryInv

LEMMA NextQueryInv ==
  Types /\ Types' /\ MoveInv /\ BoundInv /\ QueryInv /\ [Next]_vars => QueryInv'
<1> SUFFICES ASSUME Types, Types', MoveInv, BoundInv, QueryInv, [Next]_vars PROVE QueryInv'
    OBVIOUS
<1>1. CASE Crash \/ QueryFails
    BY <1>1, QueryGoneInv DEF Crash, QueryFails
<1>2. CASE \E n \in WindowCounts : Ask(n)
    BY <1>2, AskInv
<1>3. CASE ReadWarm
    BY <1>3, ReadWarmInv
<1>4. CASE ReadCold
    BY <1>4, ReadColdInv
<1>5. CASE UNCHANGED queryVars
    BY <1>5, OthersKeepQueryInv
<1>6. CASE Open \/ Tick \/ ArchiveStep
    BY <1>5, <1>6 DEF Open, Tick, ArchiveStep, SelectOld, Copy, Delete, DeleteFails
<1>7. ASSUME NEW w \in Writers, WriterStep(w) \/ \E e \in Epochs : Evaluate(w, e)
      PROVE  QueryInv'
    BY <1>5, <1>7 DEF WriterStep, Get, Swap, SwapFails, CommitFails, CallFails, Evaluate
<1>8. ASSUME NEW e \in Epochs, Expire(e) PROVE QueryInv'
    BY <1>5, <1>8 DEF Expire
<1>9. CASE UNCHANGED vars
    BY <1>5, <1>9 DEF vars
<1> QED BY <1>1, <1>2, <1>3, <1>4, <1>6, <1>7, <1>8, <1>9 DEF Next, QueryStep

\* A Pass of the historical evaluator is never due to an epoch that was moved
\* between the two statements of query_range(); only windows whose counts were
\* disturbed (a failed COMMIT or export, a late write, an expire()) can be missed.
THEOREM NoFlagIsMissed == Spec => []FlagNotMissed
<1>1. QueryInv => FlagNotMissed
    BY DEF QueryInv
<1> QED BY <1>1, InitTypes, NextTypes, InitMoveInv, NextMoveInv, InitBoundInv, NextBoundInv,
           InitQueryInv, NextQueryInv, PTL DEF Spec

\* A Flag of the historical evaluator has enough counts behind it, unless one of
\* the epochs it saw in the table has been copied to the archive too.
THEOREM FlagsAreJustified == Spec => []FlagJustified
<1>1. QueryInv => FlagJustified
    BY DEF QueryInv
<1> QED BY <1>1, InitTypes, NextTypes, InitMoveInv, NextMoveInv, InitBoundInv, NextBoundInv,
           InitQueryInv, NextQueryInv, PTL DEF Spec

================================================================================
