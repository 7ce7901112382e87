--------------------------- MODULE MCTenantRegistry ---------------------------
(* Instances of TenantRegistry for TLC: clients are all alike.                *)
EXTENDS TenantRegistry, TLC

AlikeClients == Permutations(Clients)
===============================================================================
