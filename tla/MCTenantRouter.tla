---------------------------- MODULE MCTenantRouter ----------------------------
(***************************************************************************)
(* TenantRouter for TLC: the draws of one tenant from the seeds in the     *)
(* code.                                                                   *)
(***************************************************************************)
EXTENDS TenantRouter, ShuffleShard

\* The hash of the tenant's name, modulo 16.
TenantHash == 6

DrawsOf8 == DrawSequence(TenantHash, 8)
===============================================================================
