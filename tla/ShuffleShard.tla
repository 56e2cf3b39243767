----------------------------- MODULE ShuffleShard -----------------------------
(***************************************************************************)
(* The shuffle-shard draw shared by TenantRouter (cells of a tenant) and   *)
(* FleetRouter (instances of a tenant): the tenant's hash is mixed with a  *)
(* seed and the round.                                                     *)
(*                                                                         *)
(* Only the low four bits are kept: they decide the result for 2, 4, 8 and *)
(* 16 cells.                                                               *)
(***************************************************************************)
EXTENDS Integers, Sequences, Bitwise

\* k_hash_seeds, modulo 16.
HashSeeds == <<9, 14, 11, 5, 5, 11, 3, 15>>

\* The seed of round i; after the list, i * 0x9e3779b9.
Seed(i) == IF i < Len(HashSeeds) THEN HashSeeds[i + 1] ELSE (i * 9) % 16

\* (h ^ (seed + i)) % n.
DrawnIn(h, n, i) == (h ^^ ((Seed(i) + i) % 16)) % n

\* The rounds after which the draws repeat: (i * 9 + i) % 16 has period 8.
FirstRepeated == Len(HashSeeds)
DrawSequence(h, n) == [i \in 1..FirstRepeated + 8 |-> DrawnIn(h, n, i - 1)]
===============================================================================
