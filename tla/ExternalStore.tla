---------------------------- MODULE ExternalStore -----------------------------
(***************************************************************************)
(* ExternalWindowStore: every call asks the backend's is_available() and   *)
(* goes to the backend or to the local InProcessWindowStore.  One window   *)
(* key, used by ThresholdEvaluator::evaluate() and by expire() on several  *)
(* threads.                                                                *)
(*                                                                         *)
(* The backend is any ExternalStoreBackend the user supplies: it answers   *)
(* is_available() as it likes, its calls may fail whatever it answered,    *)
(* and a failed compare-and-swap may have been applied (a lost answer).    *)
(***************************************************************************)
EXTENDS Integers

CONSTANTS
  Threads,
  MaxAttempts,  \* evaluate() retries its compare-and-swap this often (10)
  MaxVersion    \* bound: no evaluation begins while a store has this version

ASSUME ExternalAssumption == MaxAttempts \in Nat \ {0} /\ MaxVersion \in Nat

Stores == {"backend", "fallback"}

VARIABLES
  available,   \* what the backend's is_available() answers
  store,       \* the window's value in each store
  degraded,    \* using_fallback_
  pc,          \* where each thread is
  route,       \* the store its current call was sent to
  current,     \* the value evaluate() read last
  attempts,    \* its failed compare-and-swaps
  counted      \* history: swaps applied to each store since the window was
               \* created there

threadVars == <<pc, route, current, attempts>>
vars == <<available, store, degraded, threadVars, counted>>

WindowValue == [aggregate : Nat, version : Nat]

Zero == [aggregate |-> 0, version |-> 0]

\* ThresholdEvaluator adds one whatever the AggregationFn.
Updated(v) == [aggregate |-> v.aggregate + 1, version |-> v.version + 1]

Init ==
  /\ available \in BOOLEAN
  /\ store = [s \in Stores |-> Zero]
  /\ degraded = FALSE
  /\ pc = [t \in Threads |-> "idle"]
  /\ route = [t \in Threads |-> "backend"]
  /\ current = [t \in Threads |-> Zero]
  /\ attempts = [t \in Threads |-> 0]
  /\ counted = [s \in Stores |-> 0]

\* The backend goes away or comes back.
Flip ==
  /\ available' = ~available
  /\ UNCHANGED <<store, degraded, threadVars, counted>>

\* The call returns to its caller.
Return(t) ==
  /\ pc' = [pc EXCEPT ![t] = "idle"]
  /\ route' = [route EXCEPT ![t] = "backend"]
  /\ current' = [current EXCEPT ![t] = Zero]
  /\ attempts' = [attempts EXCEPT ![t] = 0]

\* evaluate() or expire() is called.
Evaluate(t) ==
  /\ pc[t] = "idle"
  /\ \A s \in Stores : store[s].version < MaxVersion
  /\ pc' = [pc EXCEPT ![t] = "get"]
  /\ UNCHANGED <<available, store, degraded, route, current, attempts, counted>>

BeginExpire(t) ==
  /\ pc[t] = "idle"
  /\ pc' = [pc EXCEPT ![t] = "expire"]
  /\ UNCHANGED <<available, store, degraded, route, current, attempts, counted>>

Routed == [get |-> "getting", swap |-> "swapping", expire |-> "expiring"]

\* The first lines of get(), compare_and_swap() and expire(): is_available() is
\* asked again for every call.
Choose(t) ==
  /\ pc[t] \in DOMAIN Routed
  /\ route' = [route EXCEPT ![t] = IF available THEN "backend" ELSE "fallback"]
  /\ degraded' = ~available
  /\ pc' = [pc EXCEPT ![t] = Routed[@]]
  /\ UNCHANGED <<available, store, current, attempts, counted>>

Get(t) ==
  /\ pc[t] = "getting"
  /\ current' = [current EXCEPT ![t] = store[route[t]]]
  /\ pc' = [pc EXCEPT ![t] = "swap"]
  /\ UNCHANGED <<available, store, degraded, route, attempts, counted>>

\* Mutant: the version is not compared.
SwapBlindly(t) ==
  LET s == route[t] IN
  /\ pc[t] = "swapping"
  /\ store' = [store EXCEPT ![s] = Updated(current[t])]
  /\ counted' = [counted EXCEPT ![s] = @ + 1]
  /\ Return(t)
  /\ UNCHANGED <<available, degraded>>

\* compare_and_swap() with the version of the store it was sent to, which need
\* not be the store the value was read from.  evaluate() returns its verdict,
\* or an error if the backend's answer was lost.
Swap(t) ==
  LET s == route[t] IN
  /\ pc[t] = "swapping"
  /\ store[s].version = current[t].version
  /\ store' = [store EXCEPT ![s] = Updated(current[t])]
  /\ counted' = [counted EXCEPT ![s] = @ + 1]
  /\ Return(t)
  /\ UNCHANGED <<available, degraded>>

\* Mutant: attempts are not counted.
SwapFailsForEver(t) ==
  /\ pc[t] = "swapping"
  /\ store[route[t]].version # current[t].version
  /\ pc' = [pc EXCEPT ![t] = "get"]
  /\ UNCHANGED <<available, store, degraded, route, current, attempts, counted>>

\* Another version: evaluate() tries again or gives up ("cas_contention").
SwapFails(t) ==
  /\ pc[t] = "swapping"
  /\ store[route[t]].version # current[t].version
  /\ \/ /\ attempts[t] + 1 < MaxAttempts
        /\ attempts' = [attempts EXCEPT ![t] = @ + 1]
        /\ pc' = [pc EXCEPT ![t] = "get"]
        /\ UNCHANGED <<route, current>>
     \/ attempts[t] + 1 >= MaxAttempts /\ Return(t)
  /\ UNCHANGED <<available, store, degraded, counted>>

\* expire() removes the window from the store it was sent to, and only there.
Expire(t) ==
  LET s == route[t] IN
  /\ pc[t] = "expiring"
  /\ store' = [store EXCEPT ![s] = Zero]
  /\ counted' = [counted EXCEPT ![s] = 0]
  /\ Return(t)
  /\ UNCHANGED <<available, degraded>>

\* The backend fails a call that was sent to it; the error is returned, the
\* fallback is not tried.
BackendFails(t) ==
  /\ pc[t] \in {"getting", "swapping", "expiring"}
  /\ route[t] = "backend"
  /\ Return(t)
  /\ UNCHANGED <<available, store, degraded, counted>>

ThreadStep(t) ==
  Choose(t) \/ Get(t) \/ Swap(t) \/ SwapFails(t) \/ Expire(t) \/ BackendFails(t)

Next == Flip \/ \E t \in Threads : Evaluate(t) \/ BeginExpire(t) \/ ThreadStep(t)

Spec == Init /\ [][Next]_vars

\* Threads inside a call are scheduled; nothing is assumed of the backend.
FairSpec == Spec /\ \A t \in Threads : WF_vars(ThreadStep(t))

-------------------------------------------------------------------------------
\* Type invariant: evaluate() makes at most MaxAttempts attempts.
TypeOK ==
  /\ available \in BOOLEAN
  /\ store \in [Stores -> WindowValue]
  /\ degraded \in BOOLEAN
  /\ pc \in [Threads -> {"idle", "get", "swap", "expire", "getting", "swapping", "expiring"}]
  /\ route \in [Threads -> Stores]
  /\ current \in [Threads -> WindowValue]
  /\ attempts \in [Threads -> 0..(MaxAttempts - 1)]
  /\ counted \in [Stores -> Nat]

\* However the backend flips between a get() and its compare_and_swap(), no store
\* takes over a count read from the other: each holds exactly the evaluations
\* applied to it since the window was created there.
CountExact ==
  \A s \in Stores : store[s].aggregate = counted[s] /\ store[s].version = counted[s]

\* Every call returns, also while the backend flips for ever.
CallReturns == \A t \in Threads : pc[t] # "idle" ~> pc[t] = "idle"
===============================================================================
