------------------------------- MODULE MCService ------------------------------
(***************************************************************************)
(* Service for TLC: instance 1 of a fleet of four, two owners per tenant   *)
(* drawn with the seeds in the code, and a topology file with no address   *)
(* for instance 3 and two entries for instance 2.                          *)
(***************************************************************************)
EXTENDS Service, ShuffleShard

TopologyFile ==
  <<[id |-> 0, address |-> 0], [id |-> 1, address |-> 1],
    [id |-> 2, address |-> NoAddress], [id |-> 2, address |-> 2],
    [id |-> 3, address |-> NoAddress]>>

\* Modulo 16, see ShuffleShard.
TenantHashes == [t \in Tenants |-> IF t = "acme" THEN 6 ELSE 5]

SeededDraws == [h \in Hashes |-> DrawSequence(h, FleetSize)]
===============================================================================
