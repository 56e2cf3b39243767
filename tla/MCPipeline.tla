------------------------------ MODULE MCPipeline ------------------------------
(***************************************************************************)
(* Instances of Pipeline for TLC.  a: submit(); u: submit_sync() with a    *)
(* StopToken.  Their tenants differ and share one strand.                  *)
(***************************************************************************)
EXTENDS Pipeline

CONSTANTS a, u, t1, t2, c1

MCTenantOf == [e \in Events |-> IF e = u THEN t2 ELSE t1]
OneStrand == [x \in Tenants |-> c1]
===============================================================================
