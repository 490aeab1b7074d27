----------------------------- MODULE MCTenants -----------------------------
(* TenantHierarchy alone.                                                  *)
EXTENDS TenantHierarchy, TLC

AlikeRequests == Permutations(HierarchyRequests)
=============================================================================
