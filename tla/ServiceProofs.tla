----------------------------- MODULE ServiceProofs ----------------------------
(***************************************************************************)
(* Proofs about Service and FleetRouter, for any fleet, topology, draws and*)
(* number of connections: a client that was told the pipeline is drained   *)
(* was told the truth, and a redirect leads to owners.                     *)
(***************************************************************************)
EXTENDS Service, FiniteSetTheorems, WellFoundedInduction, TLAPS

-------------------------------------------------------------------------------
(* The fleet. *)

\* A nonempty set of positions has a first one.
LEMMA FirstPosition ==
  ASSUME NEW T, T \subseteq Nat, T # {}
  PROVE  \E x \in T : \A y \in T : x <= y
<1>1. \E x \in T : \A y \in T : ~(<<y, x>> \in OpToRel(<, Nat))
    BY NatLessThanWellFounded, WFMin, Zenon
<1>2. \E x \in T : \A y \in T : ~(y < x)
    BY <1>1, Zenon DEF OpToRel
<1> QED BY <1>2

\* What is drawn until there are instances_per_tenant distinct instances: as many,
\* or all that are drawn at all.
LEMMA OwnersOfDraws ==
  ASSUME NEW h \in Hashes
  PROVE  /\ Owners[h] \subseteq 0..FleetSize - 1
         /\ Cardinality(Drawn(h)) \in Nat /\ Cardinality(Drawn(h)) <= FleetSize
         /\ Cardinality(Owners[h]) = IF Cardinality(Drawn(h)) < InstancesPerTenant
                                     THEN Cardinality(Drawn(h)) ELSE InstancesPerTenant
<1> DEFINE draws == DrawsOf[h]
           K == InstancesPerTenant
           By(i) == {draws[j] : j \in 1..(i - 1)}
           T == {n \in 1..Len(draws) + 1 : n \in DOMAIN draws => ~(Cardinality(By(n)) < K)}
<1>1. /\ draws \in Seq(0..FleetSize - 1) /\ Len(draws) \in Nat /\ DOMAIN draws = 1..Len(draws)
      /\ \A i \in DOMAIN draws : draws[i] \in 0..FleetSize - 1
      /\ K \in Nat
    BY FleetAssumption
<1>2. Owners[h] = {draws[i] : i \in {j \in DOMAIN draws : Cardinality(By(j)) < K}}
    BY DEF Owners, AssignInstances
<1> HIDE DEF draws, K
<1>3. ASSUME NEW i \in 1..Len(draws) + 1
      PROVE  IsFiniteSet(By(i)) /\ Cardinality(By(i)) \in Nat /\ By(i) \subseteq 0..FleetSize - 1
  <2>1. By(i) \subseteq 0..FleetSize - 1
      BY <1>1
  <2>2. IsFiniteSet(0..FleetSize - 1)
      BY FleetAssumption, FS_Interval
  <2> QED BY <2>1, <2>2, FS_Subset, FS_CardinalityType
<1>4. ASSUME NEW i \in 1..Len(draws) + 1, NEW j \in 1..Len(draws) + 1, i <= j
      PROVE  By(i) \subseteq By(j) /\ Cardinality(By(i)) <= Cardinality(By(j))
  <2>1. By(i) \subseteq By(j)
    <3>1. \A k \in 1..(i - 1) : k \in 1..(j - 1)
        BY <1>1, <1>4
    <3> QED BY <3>1
  <2> QED BY <1>3, <2>1, FS_Subset
\* n is the round at which the loop has ended.
<1> HIDE DEF By
<1>5. PICK n \in T : \A y \in T : n <= y
  <2>1. T \subseteq Nat /\ Len(draws) + 1 \in T
      BY <1>1
  <2> HIDE DEF T
  <2> QED BY <2>1, FirstPosition
<1>6. n \in 1..Len(draws) + 1
    BY <1>5
<1>7. ASSUME NEW i \in DOMAIN draws PROVE i < n <=> Cardinality(By(i)) < K
  <2>1. i \in 1..Len(draws) + 1 /\ Cardinality(By(i)) \in Nat /\ Cardinality(By(n)) \in Nat
      BY <1>1, <1>3, <1>6
  <2>2. CASE i < n
    <3>1. i \notin T
        BY <1>5, <1>6, <2>1, <2>2
    <3> QED BY <2>1, <2>2, <3>1
  <2>3. CASE ~(i < n)
    <3>1. n \in DOMAIN draws /\ n <= i
        BY <1>1, <1>6, <2>3
    <3>2. ~(Cardinality(By(n)) < K)
        BY <1>5, <3>1
    <3>3. Cardinality(By(n)) <= Cardinality(By(i))
        BY <1>4, <1>6, <2>1, <3>1
    <3> QED BY <1>1, <2>1, <2>3, <3>2, <3>3
  <2> QED BY <2>2, <2>3
<1>8. Owners[h] = By(n)
  <2>1. {j \in DOMAIN draws : Cardinality(By(j)) < K} = 1..(n - 1)
    <3>1. {j \in DOMAIN draws : Cardinality(By(j)) < K} = {j \in DOMAIN draws : j < n}
        BY <1>7
    <3>2. {j \in DOMAIN draws : j < n} = 1..(n - 1)
        BY <1>1, <1>6
    <3> QED BY <3>1, <3>2
  <2> QED BY <1>2, <2>1 DEF By
<1>9. Cardinality(By(n)) <= K
  <2>1. CASE n = 1
    <3>1. By(n) = {}
        BY <2>1 DEF By
    <3> QED BY <1>1, <3>1, FS_EmptySet
  <2>2. CASE n # 1
    <3>1. n - 1 \in DOMAIN draws /\ n - 1 < n
        BY <1>1, <1>6, <2>2
    <3>2. Cardinality(By(n - 1)) < K
        BY <1>7, <3>1
    <3>3. By(n) = By(n - 1) \cup {draws[n - 1]}
      <4>1. 1..(n - 1) = 1..(n - 1 - 1) \cup {n - 1}
          BY <1>6, <2>2
      <4> QED BY <4>1 DEF By
    <3>4. IsFiniteSet(By(n - 1)) /\ Cardinality(By(n - 1)) \in Nat
        BY <1>1, <1>3, <3>1
    <3>5. Cardinality(By(n)) <= Cardinality(By(n - 1)) + 1
      <4>1. \/ Cardinality(By(n)) = Cardinality(By(n - 1))
            \/ Cardinality(By(n)) = Cardinality(By(n - 1)) + 1
        <5> DEFINE S == By(n - 1)
        <5>1. Cardinality(S \cup {draws[n - 1]}) = Cardinality(S)
                \/ Cardinality(S \cup {draws[n - 1]}) = Cardinality(S) + 1
          <6> HIDE DEF S
          <6>1. IsFiniteSet(S)
              BY <3>4 DEF S
          <6> QED BY <6>1, FS_AddElement
        <5> QED BY <3>3, <5>1
      <4> QED BY <3>4, <4>1
    <3>6. Cardinality(By(n)) \in Nat
        BY <1>3, <1>6
    <3> QED BY <1>1, <3>2, <3>4, <3>5, <3>6
  <2> QED BY <2>1, <2>2
<1>10. Drawn(h) = By(Len(draws) + 1)
  <2>1. 1..(Len(draws) + 1 - 1) = DOMAIN draws
      BY <1>1
  <2> QED BY <2>1 DEF Drawn, By, draws
<1>11. Cardinality(By(n)) <= Cardinality(Drawn(h)) /\ Cardinality(Drawn(h)) \in Nat
  <2>1. Len(draws) + 1 \in 1..Len(draws) + 1 /\ n <= Len(draws) + 1
      BY <1>1, <1>6
  <2> QED BY <1>3, <1>4, <1>6, <1>10, <2>1
<1>14. Cardinality(Drawn(h)) <= FleetSize
  <2>1. Drawn(h) \subseteq 0..FleetSize - 1
      BY <1>1 DEF Drawn, draws
  <2>2. IsFiniteSet(0..FleetSize - 1) /\ Cardinality(0..FleetSize - 1) = FleetSize
      BY FleetAssumption, FS_Interval
  <2> QED BY <2>1, <2>2, FS_Subset
<1>12. CASE n \in DOMAIN draws
  <2>1. ~(Cardinality(By(n)) < K)
      BY <1>5, <1>12
  <2>2. Cardinality(By(n)) \in Nat
      BY <1>3, <1>6
  <2>3. Cardinality(By(n)) = K /\ ~(Cardinality(Drawn(h)) < K)
      BY <1>1, <1>9, <1>11, <2>1, <2>2
  <2> QED BY <1>3, <1>6, <1>8, <1>11, <1>14, <2>3 DEF K
<1>13. CASE n \notin DOMAIN draws
  <2>1. n = Len(draws) + 1
      BY <1>1, <1>6, <1>13
  <2>2. Cardinality(Owners[h]) = Cardinality(Drawn(h))
      BY <1>8, <1>10, <2>1
  <2>3. Cardinality(Drawn(h)) <= K
      BY <1>9, <1>10, <2>1
  <2> QED BY <1>1, <1>3, <1>6, <1>8, <1>11, <1>14, <2>2, <2>3 DEF K
<1> QED BY <1>12, <1>13

\* The loop of assign_instances() returns instances_per_tenant distinct instances of
\* the fleet, or all of it if it is smaller, for any hash and seeds for which it ends;
\* it stops at the first round that has them and never returns fewer.
THEOREM OwnersAreExact ==
  ASSUME NEW h \in Ending
  PROVE  /\ Owners[h] \subseteq 0..FleetSize - 1
         /\ Cardinality(Owners[h]) = IF FleetSize < InstancesPerTenant
                                     THEN FleetSize ELSE InstancesPerTenant
BY OwnersOfDraws, FleetAssumption DEF Ending

Addresses == {Topology[i].address : i \in DOMAIN Topology} \ {NoAddress}

\* redirect_hint() lists the addresses the topology has for the owners, although it
\* takes only the first entry of each.
LEMMA HintIsOwners ==
  ASSUME NEW h \in Hashes, ~(FleetSize <= 1)
  PROVE  RedirectHint(h) = {a \in Addresses : Owns(a, h)}
<1> USE FleetAssumption
<1>1. RedirectHint(h) = {Topology[i].address : i \in UNION {FirstListed(id) : id \in Owners[h]}}
    BY DEF RedirectHint
<1>2. ASSUME NEW a \in RedirectHint(h) PROVE a \in Addresses /\ Owns(a, h)
  <2>1. PICK id \in Owners[h] : \E i \in FirstListed(id) : a = Topology[i].address
      BY <1>1, <1>2
  <2>2. PICK i \in FirstListed(id) : a = Topology[i].address
      BY <2>1
  <2>3. i \in DOMAIN Topology /\ Topology[i].id = id /\ Topology[i].address # NoAddress
      BY <2>2 DEF FirstListed
  <2>4. a = id
      BY <2>2, <2>3
  <2> QED BY <2>1, <2>2, <2>3, <2>4 DEF Addresses, Owns
<1>3. ASSUME NEW a \in Addresses, Owns(a, h) PROVE a \in RedirectHint(h)
  <2> DEFINE listed == {i \in DOMAIN Topology : Topology[i].id = a /\ Topology[i].address # NoAddress}
  <2>1. PICK i \in DOMAIN Topology : a = Topology[i].address /\ a # NoAddress
      BY <1>3 DEF Addresses
  <2>2. listed \subseteq Nat /\ listed # {}
      BY <2>1
  <2>3. PICK j \in listed : \A k \in listed : j <= k
    <3> HIDE DEF listed
    <3> QED BY <2>2, FirstPosition
  <2>4. j \in FirstListed(a) /\ Topology[j].address = a
      BY <2>3 DEF FirstListed
  <2>5. a \in Owners[h]
      BY <1>3 DEF Owns
  <2> QED BY <1>1, <2>4, <2>5
<1> QED BY <1>2, <1>3

-------------------------------------------------------------------------------
(* The harness. *)

Points == Kinds \cup {"unconnected", "backlog", "reading", "submitting", "draining", "closed"}

\* The answers and the places of the handlers, and that nobody connects before
\* start().
Shape ==
  /\ main \in {"start", "run", "join", "draining", "destroyed", "exited"}
  /\ pstate \in {"stopped", "running", "draining"}
  /\ pc \in [Conns -> Points]
  /\ tenant \in [Conns -> Tenants]
  /\ DOMAIN answer = Conns
  /\ \A c \in Conns : pc[c] # "closed" => answer[c] = Status("none")
  /\ late \subseteq Conns
  /\ main = "start" => ~listening /\ \A c \in Conns : pc[c] = "unconnected"

LEMMA InitShape == Init => Shape
BY DEF Init, Shape, Points

\* An answer: the handler is done, and the others are where they were.
LEMMA AnswersShape ==
  ASSUME Shape, NEW c \in Conns, NEW p, p # "unconnected", NEW a, Answers(c, p, a)
  PROVE  Shape'
BY DEF Answers, Handling, Reply, Shape, Points, lifeVars

LEMMA NextShape == Shape /\ [Next]_vars => Shape'
<1> SUFFICES ASSUME Shape, [Next]_vars PROVE Shape'
    OBVIOUS
<1> USE DEF lifeVars, clientVars
<1>1. CASE Start \/ StartFails \/ Stop \/ JoinAndDrain \/ Drained \/ Exit
    BY <1>1 DEF Start, StartFails, Stop, JoinAndDrain, Drained, Exit, Shape
<1>2. CASE IoCheck \/ AcceptFails
    BY <1>2 DEF IoCheck, AcceptFails, Shape
<1>3. ASSUME NEW c \in Conns, Connect(c) \/ Accept(c) PROVE Shape'
    BY <1>3 DEF Connect, Accept, Shape, Points
<1>4. ASSUME NEW c \in Conns, ReadRequest(c) PROVE Shape'
    BY <1>4 DEF ReadRequest, Handling, Shape, Points, Kinds
<1>5. ASSUME NEW c \in Conns,
             ClientGone(c) \/ Other(c) \/ Health(c) \/ NotOwner(c) \/ SubmitRefused(c)
               \/ SubmitAccepted(c) \/ SubmitLimited(c)
      PROVE  Shape'
    BY <1>5, AnswersShape DEF ClientGone, Other, Health, NotOwner, SubmitRefused, SubmitAccepted,
                              SubmitLimited
<1>6. ASSUME NEW c \in Conns, SubmitCheck(c) \/ DrainRequest(c) PROVE Shape'
    BY <1>6 DEF SubmitCheck, DrainRequest, Handling, Shape, Points
<1>7. ASSUME NEW c \in Conns, DrainAnswered(c) PROVE Shape'
    BY <1>7 DEF DrainAnswered, Handling, Reply, Shape, Points
<1>8. CASE UNCHANGED vars
    BY <1>8 DEF vars, Shape
<1> QED BY <1>1, <1>2, <1>3, <1>4, <1>5, <1>6, <1>7, <1>8 DEF Next, RequestStep, WaitStep

LEMMA FreshAnswer ==
  /\ ~ToldStopped(Status("none"))
  /\ \A s : Status(s).status = s /\ Status(s).state = "none"
BY DEF ToldStopped, Status

\* A handler is done exactly when its client has an answer.
LEMMA AnswersType ==
  ASSUME Shape, TypeOK, NEW c \in Conns, NEW p, NEW a, Answers(c, p, a),
         a.status \in Statuses \ {"none"}
  PROVE  TypeOK'
<1>1. /\ pc' = [pc EXCEPT ![c] = "closed"] /\ answer' = [answer EXCEPT ![c] = a]
      /\ UNCHANGED <<main, io, running, listening, pstate, tenant, late>>
    BY DEF Answers, Reply, lifeVars
<1>2. /\ \A d \in Conns : d # c => answer'[d] = answer[d] /\ pc'[d] = pc[d]
      /\ answer'[c] = a /\ pc'[c] = "closed"
    BY <1>1 DEF Shape
<1> QED BY <1>1, <1>2 DEF TypeOK

LEMMA NextType == Shape /\ TypeOK /\ [Next]_vars => TypeOK'
<1> SUFFICES ASSUME Shape, TypeOK, [Next]_vars PROVE TypeOK'
    OBVIOUS
<1> USE DEF lifeVars, clientVars
<1>1. CASE Start \/ StartFails \/ Stop \/ JoinAndDrain \/ Drained \/ Exit
    BY <1>1 DEF Start, StartFails, Stop, JoinAndDrain, Drained, Exit, TypeOK
<1>2. CASE IoCheck \/ AcceptFails
    BY <1>2 DEF IoCheck, AcceptFails, TypeOK
<1>3. ASSUME NEW c \in Conns, Connect(c) \/ Accept(c) PROVE TypeOK'
    BY <1>3 DEF Connect, Accept, TypeOK
<1>4. ASSUME NEW c \in Conns, ReadRequest(c) PROVE TypeOK'
    BY <1>4 DEF ReadRequest, Handling, TypeOK, Kinds
<1>5. ASSUME NEW c \in Conns,
             ClientGone(c) \/ Other(c) \/ SubmitRefused(c) \/ SubmitAccepted(c) \/ SubmitLimited(c)
      PROVE  TypeOK'
  <2>1. PICK p, s : Answers(c, p, Status(s)) /\ s \in {"other", "503", "202"}
      BY <1>5 DEF ClientGone, Other, SubmitRefused, SubmitAccepted, SubmitLimited
  <2>2. Status(s).status \in Statuses \ {"none"}
      BY <2>1, FreshAnswer DEF Statuses
  <2> QED BY <2>1, <2>2, AnswersType
<1>6. ASSUME NEW c \in Conns, Health(c) PROVE TypeOK'
  <2> DEFINE a == [Status("health") EXCEPT !.state = pstate]
  <2>1. a.status = "health" /\ Answers(c, "health", a)
      BY <1>6 DEF Health, Status
  <2> HIDE DEF a
  <2> QED BY <2>1, AnswersType DEF Statuses
<1>7. ASSUME NEW c \in Conns, NotOwner(c) PROVE TypeOK'
  <2> DEFINE a == [Status("not owner") EXCEPT !.hint = RedirectHint(Hash[tenant[c]])]
  <2>1. a.status = "not owner" /\ Answers(c, "events", a)
      BY <1>7 DEF NotOwner, Status
  <2> HIDE DEF a
  <2> QED BY <2>1, AnswersType DEF Statuses
<1>8. ASSUME NEW c \in Conns, SubmitCheck(c) \/ DrainRequest(c) PROVE TypeOK'
    BY <1>8 DEF SubmitCheck, DrainRequest, Handling, TypeOK
<1>9. ASSUME NEW c \in Conns, DrainAnswered(c) PROVE TypeOK'
  <2>1. /\ UNCHANGED <<main, io, running, listening, tenant, late>> /\ pstate' = "stopped"
        /\ pc' = [pc EXCEPT ![c] = "closed"] /\ answer'[c].status = "drained"
        /\ \A d \in Conns : d # c => answer'[d] = answer[d] /\ pc'[d] = pc[d]
      BY <1>9, FreshAnswer DEF DrainAnswered, Reply, Shape
  <2> QED BY <2>1 DEF TypeOK, Statuses
<1>10. CASE UNCHANGED vars
    BY <1>10 DEF vars, TypeOK
<1> QED BY <1>1, <1>2, <1>3, <1>4, <1>5, <1>6, <1>7, <1>8, <1>9, <1>10 DEF Next, RequestStep, WaitStep

\* The harness keeps its types, and a handler is done exactly when its client was
\* answered.
THEOREM TypeCorrect == Spec => []TypeOK
<1>1. Init => Shape /\ TypeOK
    BY InitShape, FreshAnswer DEF Init, TypeOK, Statuses
<1>2. Shape /\ TypeOK /\ [Next]_vars => Shape' /\ TypeOK'
    BY NextShape, NextType
<1> QED BY <1>1, <1>2, PTL DEF Spec

-------------------------------------------------------------------------------
(* The drain. *)

\* Once a client was told so, or a request was read after that, the pipeline does
\* not run; such a request is past the pipeline's state check only if it was
\* refused there.
DrainInv ==
  /\ \A d \in Conns : ToldStopped(answer[d]) => pstate # "running"
  /\ late # {} => pstate # "running"
  /\ \A c \in late : pc[c] \notin {"unconnected", "backlog", "reading", "submitting"}
  /\ DrainedIsFinal

\* An answer that does not say that the pipeline has stopped while it runs, nor that
\* a late request was accepted.
LEMMA AnswersDrain ==
  ASSUME Shape, DrainInv, NEW c \in Conns, NEW p, NEW a, Answers(c, p, a),
         ToldStopped(a) => pstate # "running",
         c \in late => a.status # "202" /\ a.state # "running"
  PROVE  DrainInv'
<1>1. /\ pc[c] = p /\ pc' = [pc EXCEPT ![c] = "closed"] /\ answer' = [answer EXCEPT ![c] = a]
      /\ UNCHANGED <<pstate, late>>
    BY DEF Answers, Handling, Reply, lifeVars
<1>2. /\ \A d \in Conns : d # c => answer'[d] = answer[d] /\ pc'[d] = pc[d]
      /\ answer'[c] = a /\ pc'[c] = "closed"
    BY <1>1 DEF Shape
<1>3. late \subseteq Conns
    BY DEF Shape
<1> QED BY <1>1, <1>2, <1>3 DEF DrainInv, DrainedIsFinal

LEMMA NextDrain == Shape /\ DrainInv /\ [Next]_vars => DrainInv'
<1> SUFFICES ASSUME Shape, DrainInv, [Next]_vars PROVE DrainInv'
    OBVIOUS
<1> USE DEF lifeVars, clientVars
<1>0. late \subseteq Conns
    BY DEF Shape
<1>1. CASE Start \/ StartFails
  <2>1. /\ \A d \in Conns : pc[d] = "unconnected" /\ answer[d] = Status("none")
        /\ UNCHANGED <<pc, answer, late>>
      BY <1>1 DEF Start, StartFails, Shape
  <2>2. late = {}
      BY <1>0, <2>1 DEF DrainInv
  <2> QED BY <2>1, <2>2, FreshAnswer DEF DrainInv, DrainedIsFinal
<1>2. CASE Stop \/ JoinAndDrain \/ Drained \/ Exit \/ IoCheck \/ AcceptFails
  <2>1. UNCHANGED <<pc, answer, late>> /\ (pstate' = pstate \/ pstate' # "running")
      BY <1>2 DEF Stop, JoinAndDrain, Drained, Exit, IoCheck, AcceptFails
  <2> QED BY <2>1 DEF DrainInv, DrainedIsFinal
<1>3. ASSUME NEW c \in Conns, Connect(c) \/ Accept(c) PROVE DrainInv'
  <2>1. /\ UNCHANGED <<answer, late, pstate>> /\ c \notin late
        /\ \A d \in Conns : d # c => pc'[d] = pc[d]
      BY <1>3 DEF Connect, Accept, DrainInv, Shape
  <2> QED BY <1>0, <2>1 DEF DrainInv, DrainedIsFinal
<1>4. ASSUME NEW c \in Conns, ReadRequest(c) PROVE DrainInv'
  <2>1. /\ UNCHANGED <<answer, pstate>> /\ c \notin late
        /\ \A d \in Conns : d # c => pc'[d] = pc[d]
        /\ pc'[c] \in Kinds
        /\ answer[c] = Status("none")
      BY <1>4 DEF ReadRequest, Handling, DrainInv, Shape
  <2>2. late' = late \/ (late' = late \cup {c} /\ \E d \in Conns : ToldStopped(answer[d]))
      BY <1>4 DEF ReadRequest
  <2>3. late' # {} => pstate # "running"
      BY <2>2 DEF DrainInv
  <2>4. answer[c].status # "202" /\ answer[c].state # "running"
      BY <2>1, FreshAnswer
  <2> QED BY <1>0, <2>1, <2>2, <2>3, <2>4 DEF DrainInv, DrainedIsFinal, Kinds
<1>5. ASSUME NEW c \in Conns,
             ClientGone(c) \/ Other(c) \/ SubmitRefused(c) \/ SubmitLimited(c)
      PROVE  DrainInv'
    BY <1>5, AnswersDrain, FreshAnswer
    DEF ClientGone, Other, SubmitRefused, SubmitLimited, ToldStopped
<1>6. ASSUME NEW c \in Conns, Health(c) PROVE DrainInv'
  <2> DEFINE a == [Status("health") EXCEPT !.state = pstate]
  <2>1. a.status = "health" /\ a.state = pstate /\ Answers(c, "health", a)
      BY <1>6 DEF Health, Status
  <2> HIDE DEF a
  <2>2. ToldStopped(a) => pstate # "running"
      BY <2>1 DEF ToldStopped
  <2>3. c \in late => a.status # "202" /\ a.state # "running"
      BY <2>1 DEF DrainInv
  <2> QED BY <2>1, <2>2, <2>3, AnswersDrain
<1>7. ASSUME NEW c \in Conns, NotOwner(c) PROVE DrainInv'
  <2> DEFINE a == [Status("not owner") EXCEPT !.hint = RedirectHint(Hash[tenant[c]])]
  <2>1. a.status = "not owner" /\ a.state = "none" /\ Answers(c, "events", a)
      BY <1>7 DEF NotOwner, Status
  <2> HIDE DEF a
  <2> QED BY <2>1, AnswersDrain DEF ToldStopped
<1>8. ASSUME NEW c \in Conns, SubmitAccepted(c) PROVE DrainInv'
  <2>1. Answers(c, "submitting", Status("202"))
      BY <1>8 DEF SubmitAccepted
  <2>2. c \notin late
      BY <2>1 DEF Answers, Handling, DrainInv
  <2>3. ~ToldStopped(Status("202"))
      BY FreshAnswer DEF ToldStopped
  <2> QED BY <2>1, <2>2, <2>3, AnswersDrain
<1>9. ASSUME NEW c \in Conns, SubmitCheck(c) PROVE DrainInv'
  <2>1. /\ UNCHANGED <<answer, pstate, late>> /\ late = {}
      BY <1>9 DEF SubmitCheck, DrainInv
  <2> QED BY <2>1 DEF DrainInv, DrainedIsFinal
<1>10. ASSUME NEW c \in Conns, DrainRequest(c) PROVE DrainInv'
  <2>1. /\ UNCHANGED <<answer, late>> /\ pstate' = "draining" /\ pc'[c] = "draining"
        /\ \A d \in Conns : d # c => pc'[d] = pc[d]
      BY <1>10 DEF DrainRequest, Shape
  <2> QED BY <1>0, <2>1 DEF DrainInv, DrainedIsFinal
<1>11. ASSUME NEW c \in Conns, DrainAnswered(c) PROVE DrainInv'
  <2>1. /\ UNCHANGED late /\ pstate' = "stopped" /\ pc'[c] = "closed"
        /\ answer'[c] = Status("drained")
        /\ \A d \in Conns : d # c => pc'[d] = pc[d] /\ answer'[d] = answer[d]
      BY <1>11 DEF DrainAnswered, Reply, Shape
  <2>2. answer'[c].status # "202" /\ answer'[c].state # "running"
      BY <2>1, FreshAnswer
  <2> QED BY <1>0, <2>1, <2>2 DEF DrainInv, DrainedIsFinal
<1>12. CASE UNCHANGED vars
    BY <1>12 DEF vars, DrainInv, DrainedIsFinal
<1> QED BY <1>1, <1>2, <1>3, <1>4, <1>5, <1>6, <1>7, <1>8, <1>9, <1>10, <1>11, <1>12
        DEF Next, RequestStep, WaitStep

\* Once a client was told that the pipeline is drained, draining or stopped, no
\* request read after that is accepted or told that it runs.
THEOREM DrainIsFinal == Spec => []DrainedIsFinal
<1>1. Init => Shape /\ DrainInv
    BY InitShape, FreshAnswer DEF Init, DrainInv, DrainedIsFinal
<1>2. Shape /\ DrainInv /\ [Next]_vars => Shape' /\ DrainInv'
    BY NextShape, NextDrain
<1>3. DrainInv => DrainedIsFinal
    BY DEF DrainInv
<1> QED BY <1>1, <1>2, <1>3, PTL DEF Spec

-------------------------------------------------------------------------------
(* The redirects. *)

\* A handler inside submit() has passed the ownership gate.
RedirectInv ==
  /\ RedirectsToOwners
  /\ \A c \in Conns : pc[c] = "submitting" => Owns(InstanceId, Hash[tenant[c]])

\* What the property asks of one connection.
Redirected(c, a) ==
  /\ a.status = "not owner" =>
       /\ a.hint = {b \in Addresses : Owns(b, Hash[tenant[c]])}
       /\ InstanceId \notin a.hint
  /\ a.status = "202" => Owns(InstanceId, Hash[tenant[c]])

LEMMA RedirectedAll == RedirectsToOwners <=> \A c \in Conns : Redirected(c, answer[c])
BY DEF RedirectsToOwners, Redirected, Addresses

LEMMA AnswersRedirect ==
  ASSUME Shape, RedirectInv, NEW c \in Conns, NEW p, NEW a, Answers(c, p, a), Redirected(c, a)
  PROVE  RedirectInv'
<1>1. /\ pc' = [pc EXCEPT ![c] = "closed"] /\ answer' = [answer EXCEPT ![c] = a]
      /\ tenant' = tenant
    BY DEF Answers, Reply
<1>2. /\ \A d \in Conns : d # c => answer'[d] = answer[d] /\ pc'[d] = pc[d]
      /\ answer'[c] = a /\ pc'[c] = "closed"
    BY <1>1 DEF Shape
<1>3. \A d \in Conns : Redirected(d, answer'[d])
    BY <1>2, RedirectedAll DEF RedirectInv
<1>4. RedirectsToOwners'
    BY <1>1, <1>3 DEF RedirectsToOwners, Redirected, Addresses
<1> QED BY <1>1, <1>2, <1>4 DEF RedirectInv

LEMMA NextRedirect == Shape /\ RedirectInv /\ [Next]_vars => RedirectInv'
<1> SUFFICES ASSUME Shape, RedirectInv, [Next]_vars PROVE RedirectInv'
    OBVIOUS
<1> USE DEF lifeVars, clientVars
<1>1. CASE UNCHANGED <<answer, pc, tenant>>
    BY <1>1 DEF RedirectInv, RedirectsToOwners
<1>2. ASSUME NEW c \in Conns, Connect(c) \/ Accept(c) \/ ReadRequest(c) \/ DrainRequest(c)
      PROVE  RedirectInv'
  <2>1. /\ UNCHANGED <<answer, tenant>> /\ pc'[c] # "submitting"
        /\ \A d \in Conns : d # c => pc'[d] = pc[d]
      BY <1>2 DEF Connect, Accept, ReadRequest, DrainRequest, Shape, Kinds
  <2> QED BY <2>1 DEF RedirectInv, RedirectsToOwners
<1>3. ASSUME NEW c \in Conns, SubmitCheck(c) PROVE RedirectInv'
  <2>1. /\ UNCHANGED <<answer, tenant>> /\ Owns(InstanceId, Hash[tenant[c]])
        /\ \A d \in Conns : d # c => pc'[d] = pc[d]
      BY <1>3 DEF SubmitCheck, Owned, Shape
  <2> QED BY <2>1 DEF RedirectInv, RedirectsToOwners
<1>4. ASSUME NEW c \in Conns, ClientGone(c) \/ Other(c) \/ SubmitRefused(c) \/ SubmitLimited(c)
      PROVE  RedirectInv'
  <2>1. PICK p, s : Answers(c, p, Status(s)) /\ s \in {"other", "503"}
      BY <1>4 DEF ClientGone, Other, SubmitRefused, SubmitLimited
  <2>2. Redirected(c, Status(s))
      BY <2>1, FreshAnswer DEF Redirected
  <2> QED BY <2>1, <2>2, AnswersRedirect
<1>5. ASSUME NEW c \in Conns, Health(c) PROVE RedirectInv'
  <2> DEFINE a == [Status("health") EXCEPT !.state = pstate]
  <2>1. a.status = "health" /\ Answers(c, "health", a)
      BY <1>5 DEF Health, Status
  <2> HIDE DEF a
  <2> QED BY <2>1, AnswersRedirect DEF Redirected
<1>6. ASSUME NEW c \in Conns, NotOwner(c) PROVE RedirectInv'
  <2> DEFINE h == Hash[tenant[c]]
             a == [Status("not owner") EXCEPT !.hint = RedirectHint(h)]
  <2>1. a.status = "not owner" /\ a.hint = RedirectHint(h) /\ Answers(c, "events", a)
      BY <1>6 DEF NotOwner, Status
  <2>2. ~Owns(InstanceId, h)
      BY <1>6 DEF NotOwner, Owned
  <2>3. h \in Hashes
      BY ServiceAssumption DEF Shape
  <2> HIDE DEF a
  <2>4. RedirectHint(h) = {b \in Addresses : Owns(b, h)}
      BY <2>2, <2>3, HintIsOwners DEF Owns
  <2>5. Redirected(c, a)
      BY <2>1, <2>2, <2>4 DEF Redirected
  <2> QED BY <2>1, <2>5, AnswersRedirect
<1>7. ASSUME NEW c \in Conns, SubmitAccepted(c) PROVE RedirectInv'
  <2>1. Answers(c, "submitting", Status("202")) /\ Owns(InstanceId, Hash[tenant[c]])
      BY <1>7 DEF SubmitAccepted, Answers, Handling, RedirectInv
  <2>2. Redirected(c, Status("202"))
      BY <2>1, FreshAnswer DEF Redirected
  <2> QED BY <2>1, <2>2, AnswersRedirect
<1>8. ASSUME NEW c \in Conns, DrainAnswered(c) PROVE RedirectInv'
  <2>1. /\ pc'[c] = "closed" /\ answer'[c] = Status("drained") /\ tenant' = tenant
        /\ \A d \in Conns : d # c => pc'[d] = pc[d] /\ answer'[d] = answer[d]
      BY <1>8 DEF DrainAnswered, Reply, Shape
  <2>2. answer'[c].status = "drained"
      BY <2>1, FreshAnswer
  <2> QED BY <2>1, <2>2 DEF RedirectInv, RedirectsToOwners
<1> QED BY <1>1, <1>2, <1>3, <1>4, <1>5, <1>6, <1>7, <1>8
        DEF Next, RequestStep, WaitStep, vars, Start, StartFails, Stop, JoinAndDrain, Drained, Exit, IoCheck,
            AcceptFails

\* An instance that refuses an event as not its own names exactly the owners that
\* its topology lists, never itself; one that accepts an event is an owner.
THEOREM RedirectsLeadToOwners == Spec => []RedirectsToOwners
<1>1. Init => Shape /\ RedirectInv
    BY InitShape, FreshAnswer DEF Init, RedirectInv, RedirectsToOwners
<1>2. Shape /\ RedirectInv /\ [Next]_vars => Shape' /\ RedirectInv'
    BY NextShape, NextRedirect
<1>3. RedirectInv => RedirectsToOwners
    BY DEF RedirectInv
<1> QED BY <1>1, <1>2, <1>3, PTL DEF Spec
===============================================================================
