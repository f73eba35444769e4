---------------------------- MODULE MCApiAccess ----------------------------
EXTENDS ApiAccess

CONSTANTS t1, t2, k1, k2

\* The tokens hash alike; one is a user's and the other an administrator's.
MCIssued == [k \in {k1, k2} |->
                IF k = k1 THEN [tenants |-> {t1}, role |-> "none"]
                ELSE [tenants |-> {t2}, role |-> "ADMIN"]]

World(m, user, ts, c, r) ==
    [method |-> m, cli |-> user, others |-> ts, crashes |-> c, requests |-> r]

MCWorlds == {World("internal", TRUE, {"web"}, 1, 5),
             World("openstack", TRUE, {}, 1, 4),
             World("unithost", TRUE, {}, 1, 4),
             World("unithost", FALSE, {"web", "cli"}, 0, 3)}
=============================================================================
