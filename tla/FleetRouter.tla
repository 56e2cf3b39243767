------------------------------ MODULE FleetRouter -----------------------------
(***************************************************************************)
(* FleetRouter: which service instances own a tenant, and the addresses a  *)
(* non-owner hands out.  The fleet's instances share fleet_size,           *)
(* instances_per_tenant and the topology; a tenant is the hash of its name.*)
(* An address is the number of the instance that answers there, or         *)
(* NoAddress.                                                              *)
(*                                                                         *)
(* The instance drawn in each round of assign_instances() is a parameter,  *)
(* DrawsOf, up to the round after which the draws repeat.                  *)
(***************************************************************************)
EXTENDS Integers, Sequences, FiniteSets

CONSTANTS
  FleetSize,
  InstancesPerTenant,
  Topology,     \* the topology file: a sequence of [id, address]
  Hashes,       \* hashes of tenants
  DrawsOf       \* for each hash the instances drawn in each round

NoAddress == -1

\* The topology file gives no instance the address of another.
ASSUME FleetAssumption ==
  /\ FleetSize \in Nat
  /\ InstancesPerTenant \in Nat
  /\ DOMAIN Topology = 1..Len(Topology) /\ Len(Topology) \in Nat
  /\ \A i \in DOMAIN Topology :
       Topology[i].id \in Nat /\ Topology[i].address \in {Topology[i].id, NoAddress}
  /\ DrawsOf \in [Hashes -> Seq(0..FleetSize - 1)]

\* Every instance that some round draws for a hash.
Drawn(h) == {DrawsOf[h][i] : i \in DOMAIN DrawsOf[h]}

\* The loop of assign_instances() ends only when it has instances_per_tenant
\* distinct instances, or all of them: the hashes for which it does.
Ending ==
  {h \in Hashes : \/ Cardinality(Drawn(h)) >= InstancesPerTenant
                  \/ Cardinality(Drawn(h)) = FleetSize}

\* What it returns if it does: the instances drawn until then.
AssignInstances(h) ==
  LET draws  == DrawsOf[h]
      DrawnBy(i) == {draws[j] : j \in 1..(i - 1)}
  IN  {draws[i] : i \in {j \in DOMAIN draws : Cardinality(DrawnBy(j)) < InstancesPerTenant}}

\* The owners of every hash.
Owners == [h \in Hashes |-> AssignInstances(h)]

\* owns() and redirect_hint() draw only in a fleet of several instances, and
\* otherwise return at once.
OwnsReturns(h) == FleetSize <= 1 \/ h \in Ending

\* owns(), at instance id.
Owns(id, h) == FleetSize <= 1 \/ id \in Owners[h]

\* Mutant: every address of the topology.
HintEverybody(h) == {Topology[i].address : i \in DOMAIN Topology} \ {NoAddress}

\* The position of the first entry with the id and an address, if there is one.
FirstListed(id) ==
  LET listed == {i \in DOMAIN Topology : Topology[i].id = id /\ Topology[i].address # NoAddress}
  IN  {i \in listed : \A j \in listed : i <= j}

\* redirect_hint(): what is listed for each owner.
RedirectHint(h) ==
  IF FleetSize <= 1 THEN {}
  ELSE {Topology[i].address : i \in UNION {FirstListed(id) : id \in Owners[h]}}
===============================================================================
