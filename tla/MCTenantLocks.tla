--------------------------- MODULE MCTenantLocks ---------------------------
(* Instances of TenantLocks for TLC. *)
EXTENDS TenantLocks

BothOfOne == {[h \in Hosts |-> 1]}

(* All hosts are of one tenant, or each is of a tenant of its own. *)
EitherWay ==
    BothOfOne \cup {f \in [Hosts -> 1 .. NTenants] :
                      \A g, h \in Hosts : g # h => f[g] # f[h]}

(* The hosts are interchangeable: EitherWay is closed under permutations. *)
HostSymmetry == Permutations(Hosts)
=============================================================================
