----------------------------- MODULE Population -----------------------------
(***************************************************************************)
(* ingest/targets.py: the hostnames to scan.  build_targets returns each   *)
(* hostname once, in an order fixed by the domain list and the configured  *)
(* variants, so a host is modelled by its position in that list.           *)
(***************************************************************************)
EXTENDS Naturals

CONSTANT N      \* number of hostnames in the population

ASSUME PopulationAssumption == N \in Nat

Hosts == 1..N

=============================================================================
