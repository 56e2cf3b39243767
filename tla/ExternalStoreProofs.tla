-------------------------- MODULE ExternalStoreProofs -------------------------
(***************************************************************************)
(* Proofs about ExternalStore, for any number of threads and attempts: the *)
(* type invariant and the exactness of both stores' counts.                *)
(***************************************************************************)
EXTENDS ExternalStore, TLAPS

-------------------------------------------------------------------------------
(* Type correctness. *)

\* The updated value of a window is a value of a window.
LEMMA UpdatedType ==
  ASSUME NEW v \in WindowValue
  PROVE  /\ Updated(v) \in WindowValue
         /\ Updated(v).aggregate = v.aggregate + 1
         /\ Updated(v).version = v.version + 1
BY DEF WindowValue, Updated

LEMMA ZeroType == Zero \in WindowValue
BY DEF Zero, WindowValue

\* Returning from a call keeps the types of the threads' variables.
LEMMA ReturnType ==
  ASSUME TypeOK, NEW t \in Threads, Return(t)
  PROVE  /\ pc' \in [Threads -> {"idle", "get", "swap", "expire", "getting", "swapping",
                                 "expiring"}]
         /\ route' \in [Threads -> Stores]
         /\ current' \in [Threads -> WindowValue]
         /\ attempts' \in [Threads -> 0..(MaxAttempts - 1)]
BY ZeroType, ExternalAssumption DEF TypeOK, Return, Stores

LEMMA InitTypeOK == Init => TypeOK
<1> SUFFICES ASSUME Init PROVE TypeOK
    OBVIOUS
<1>1. available \in BOOLEAN /\ degraded \in BOOLEAN
    BY Zenon DEF Init
<1>2. /\ store \in [Stores -> WindowValue] /\ current \in [Threads -> WindowValue]
      /\ route \in [Threads -> Stores]
    BY ZeroType DEF Init, Stores
<1>3. counted \in [Stores -> Nat] /\ attempts \in [Threads -> 0..(MaxAttempts - 1)]
    BY ExternalAssumption DEF Init
<1> QED BY <1>1, <1>2, <1>3 DEF Init, TypeOK

\* Every step keeps the types; an evaluation that tries again has an attempt left.
LEMMA NextTypeOK == TypeOK /\ [Next]_vars => TypeOK'
<1> SUFFICES ASSUME TypeOK, [Next]_vars PROVE TypeOK'
    OBVIOUS
<1> USE ExternalAssumption
<1>1. CASE Flip
    BY <1>1 DEF Flip, threadVars, TypeOK
<1>2. ASSUME NEW t \in Threads, Evaluate(t) \/ BeginExpire(t) PROVE TypeOK'
    BY <1>2 DEF Evaluate, BeginExpire, TypeOK
<1>3. ASSUME NEW t \in Threads, Choose(t) PROVE TypeOK'
  <2>1. pc[t] \in DOMAIN Routed /\ Routed[pc[t]] \in {"getting", "swapping", "expiring"}
      BY <1>3 DEF Choose, Routed
  <2> QED BY <1>3, <2>1 DEF Choose, TypeOK, Stores
<1>4. ASSUME NEW t \in Threads, Get(t) PROVE TypeOK'
    BY <1>4 DEF Get, TypeOK
<1>5. ASSUME NEW t \in Threads, Swap(t) PROVE TypeOK'
    BY <1>5, ReturnType, UpdatedType DEF Swap, TypeOK
<1>6. ASSUME NEW t \in Threads, SwapFails(t) PROVE TypeOK'
    BY <1>6, ReturnType DEF SwapFails, TypeOK
<1>7. ASSUME NEW t \in Threads, Expire(t) PROVE TypeOK'
    BY <1>7, ReturnType, ZeroType DEF Expire, TypeOK
<1>8. ASSUME NEW t \in Threads, BackendFails(t) PROVE TypeOK'
    BY <1>8, ReturnType DEF BackendFails, TypeOK
<1>9. CASE UNCHANGED vars
    BY <1>9 DEF vars, threadVars, TypeOK
<1> QED BY <1>1, <1>2, <1>3, <1>4, <1>5, <1>6, <1>7, <1>8, <1>9 DEF Next, ThreadStep

\* The type invariant: evaluate() never exceeds its attempts.
THEOREM TypeCorrect == Spec => []TypeOK
BY InitTypeOK, NextTypeOK, PTL DEF Spec

-------------------------------------------------------------------------------
(* The counts. *)

\* CountExact made inductive: a value that evaluate() has read, from whichever
\* store, has as many evaluations in its aggregate as its version says.  A swap
\* sent to the other store therefore writes a count that is right there, because
\* the versions agree.
CountInv ==
  /\ CountExact
  /\ \A t \in Threads : current[t].aggregate = current[t].version

\* Reads carry over what CountExact says, swaps need it of the value read.
LEMMA CountStep == 
  /\ Init => CountInv
  /\ TypeOK /\ CountInv /\ [Next]_vars => CountInv'
<1>i. Init => CountInv
    BY DEF Init, CountInv, CountExact, Zero, Stores
<1>z. Zero.aggregate = 0 /\ Zero.version = 0
    BY DEF Zero
<1>n. ASSUME TypeOK, CountInv, [Next]_vars PROVE CountInv'
  <2>r. ASSUME NEW t \in Threads, Return(t)
        PROVE  \A u \in Threads : current'[u].aggregate = current'[u].version
      BY <1>n, <1>z, <2>r DEF Return, CountInv, TypeOK
  <2>1. CASE Flip
      BY <1>n, <2>1 DEF Flip, threadVars, CountInv, CountExact
  <2>2. ASSUME NEW t \in Threads, Evaluate(t) \/ BeginExpire(t) \/ Choose(t) PROVE CountInv'
      BY <1>n, <2>2 DEF Evaluate, BeginExpire, Choose, CountInv, CountExact
  <2>3. ASSUME NEW t \in Threads, Get(t) PROVE CountInv'
      BY <1>n, <2>3 DEF Get, CountInv, CountExact, TypeOK
  <2>4. ASSUME NEW t \in Threads, Swap(t) PROVE CountInv'
    <3>1. CountExact'
        BY <1>n, <2>4, UpdatedType DEF Swap, CountInv, CountExact, TypeOK
    <3> QED BY <3>1, <2>4, <2>r DEF Swap, CountInv
  <2>5. ASSUME NEW t \in Threads, SwapFails(t) PROVE CountInv'
      BY <1>n, <2>5, <2>r DEF SwapFails, CountInv, CountExact
  <2>6. ASSUME NEW t \in Threads, Expire(t) PROVE CountInv'
    <3>1. CountExact'
        BY <1>n, <2>6, <1>z DEF Expire, CountInv, CountExact, TypeOK
    <3> QED BY <3>1, <2>6, <2>r DEF Expire, CountInv
  <2>7. ASSUME NEW t \in Threads, BackendFails(t) PROVE CountInv'
      BY <1>n, <2>7, <2>r DEF BackendFails, CountInv, CountExact
  <2>8. CASE UNCHANGED vars
      BY <1>n, <2>8 DEF vars, threadVars, CountInv, CountExact
  <2> QED BY <1>n, <2>1, <2>2, <2>3, <2>4, <2>5, <2>6, <2>7, <2>8 DEF Next, ThreadStep
<1> QED BY <1>i, <1>n

\* However calls are routed, each store holds exactly the evaluations applied to
\* it since the window was created there.
THEOREM CountsAreExact == Spec => []CountExact
<1>1. CountInv => CountExact
    BY DEF CountInv
<1> QED BY <1>1, CountStep, TypeCorrect, PTL DEF Spec
===============================================================================
