----------------------------- MODULE MCApiStore ----------------------------
(* Instances of ApiStore for TLC. *)
EXTENDS ApiStore

MCDefaults == [m \in Meters |-> [type |-> Untyped, watch |-> FALSE]]

\* One of each kind of change.
TenantOps ==
    {r \in TenantWrites :
        CASE r.op = "update"    -> r.field = "quota" /\ r.to = 2
          [] r.op = "set_meta"  -> FALSE
          [] r.op = "set_meter" -> /\ r.to \in {"table", "frac"}
                                   /\ r.field = "described" <=> r.to = "table"
          [] OTHER              -> TRUE}
Ops(names) == {R(op, "none", "none", 0) : op \in names}

World(there, ops, n, c, coll) ==
    [tenant |-> there, ops |-> ops, requests |-> n, crashes |-> c,
     collector |-> coll]

\* Changes and readers; tenants that come and go; users; the collector with
\* the removal of its host.  Each with a crash.
MCWorlds ==
    {World(TRUE, TenantOps \union HostWrites
                 \union Ops({"get_meta", "host_list_watchers"}), 3, 1, FALSE),
     World(FALSE, TenantLife \union Ops({"get_meta"})
                  \union {r \in TenantWrites \union HostWrites :
                            \/ r.op = "set_meta" /\ r.to = 2
                            \/ r.op = "host_set_watcher"}, 4, 1, FALSE),
     World(TRUE, {r \in UserWrites : r.to # 1} \union Ops({"login"}),
           3, 1, FALSE),
     World(TRUE, Ops({"remove_host", "host_overview"}), 2, 1, TRUE)}
=============================================================================
