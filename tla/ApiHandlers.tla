---------------------------- MODULE ApiHandlers ----------------------------
(***************************************************************************)
(* What the handlers of opticon-api do to the documents they keep in the   *)
(* database: tenant.metadata, the metadata.json of a host, and user.db.    *)
(*                                                                         *)
(* A document is a record of the parts the handlers tell apart; a value    *)
(* stands for a key, a name or a password, and 0 for one that is not set.  *)
(* A watcher has one trigger level here.                                   *)
(***************************************************************************)
EXTENDS Naturals

CONSTANTS Meters,    \* ids of meters
          Defaults,  \* OPTIONS.mconf: [type, watch] of each id
          Users, Values,
          Absent,    \* no such file
          Torn,      \* a file var_parse_json refuses
          Null       \* what reading either of them gives

Untyped == "untyped"
Types == {"integer", "frac", "table"}

ASSUME HandlerConstants ==
    /\ Values \subseteq Nat \ {0}
    /\ Defaults \in [Meters -> [type : Types \union {Untyped},
                                watch : BOOLEAN]]

NoMeter == [there |-> FALSE, type |-> Untyped, watch |-> FALSE]

EmptyHost == [meter |-> [m \in Meters |-> NoMeter]]
NewTenant(key) == [key |-> key, name |-> key, quota |-> 0, note |-> 0,
                   meter |-> [m \in Meters |-> NoMeter]]
NoUsers == [u \in Users |-> 0]

\* The documents there may be, and what is not one.
Entries == [there : BOOLEAN, type : Types \union {Untyped}, watch : BOOLEAN]
MetaDocs == [key : Values, name : Values, quota : Values \union {0},
             note : Values \union {0}, meter : [Meters -> Entries]]
HostDocs == [meter : [Meters -> Entries]]
UserDocs == [Users -> Values \union {0}]

ASSUME NoDocuments ==
    /\ Absent # Torn
    /\ \A none \in {Absent, Torn, Null} :
          none \notin MetaDocs \union HostDocs \union UserDocs

----------------------------------------------------------------------------
(* The changes of one request to tenant.metadata.                          *)

\* key, name or quota, the latter two for an administrator
cmd_tenant_update(doc, field, val) == [doc EXCEPT ![field] = val]

\* var_merge of the body into the document
cmd_tenant_set_meta(doc, val) == [doc EXCEPT !.note = val]

\* type, description and unit of the meter's entry, which is made if needed
cmd_tenant_set_meter(doc, m, type) ==
    [doc EXCEPT !.meter[m].there = TRUE, !.meter[m].type = type]

cmd_tenant_delete_meter(doc, m) == [doc EXCEPT !.meter[m] = NoMeter]

cmd_tenant_set_watcher(doc, m) ==
    [doc EXCEPT !.meter[m].there = TRUE, !.meter[m].watch = TRUE]

cmd_tenant_delete_watcher(doc, m) ==
    [doc EXCEPT !.meter[m].there = TRUE, !.meter[m].watch = FALSE]

----------------------------------------------------------------------------
(* metadata.json of a host, and user.db.                                   *)

\* The type of a meter as collect_meterdefs finds it for the tenant.
TypeFor(meta, m) ==
    IF meta # Null /\ meta.meter[m].type # Untyped
    THEN meta.meter[m].type ELSE Defaults[m].type

\* A meter nobody defined is an integer.
cmd_host_set_watcher(doc, meta, m) ==
    [doc EXCEPT !.meter[m] =
        [there |-> TRUE, watch |-> TRUE,
         type |-> IF TypeFor(meta, m) = Untyped THEN "integer"
                  ELSE TypeFor(meta, m)]]

\* The entry stays, and is made if there was none.
cmd_host_delete_watcher(doc, m) ==
    [doc EXCEPT !.meter[m].there = TRUE, !.meter[m].watch = FALSE]

cmd_user_set(doc, u, val) == [doc EXCEPT ![u] = val]

cmd_user_delete(doc, u) == [doc EXCEPT ![u] = 0]

----------------------------------------------------------------------------
(* collect_meterdefs for the watchers of a host: what keeps it from        *)
(* answering with a list.                                                  *)

\* strcmp with the type of an entry that has none.
CannotCompare(meta, host) ==
    \E m \in Meters : /\ host.meter[m].there /\ host.meter[m].type # Untyped
                      /\ TypeFor(meta, m) = Untyped

----------------------------------------------------------------------------
(* Requests.                                                               *)

R(op, m, field, to) == [op |-> op, m |-> m, field |-> field, to |-> to]

TenantWrites ==
    {R("update", "none", field, val) : field \in {"key", "name", "quota"},
                                   val \in Values}
    \union {R("set_meta", "none", "note", val) : val \in Values}
    \union {R("set_meter", m, field, type) : m \in Meters, type \in Types,
                              field \in {"described", "undescribed"}}
    \union {R(op, m, "none", 0) : m \in Meters,
               op \in {"delete_meter", "set_watcher", "delete_watcher"}}
HostWrites ==
    {R(op, m, "none", 0) : m \in Meters,
                       op \in {"host_set_watcher", "host_delete_watcher"}}
UserWrites ==
    {R(op, u, "none", val) : op \in {"user_put", "user_post"},
                         u \in Users, val \in Values}
    \union {R("user_delete", u, "none", 0) : u \in Users}
TenantLife ==
    {R("create", "none", "none", val) : val \in Values}
    \union {R(op, "none", "none", 0) : op \in {"delete", "remove_host"}}
Lists == {R(op, "none", "none", 0) : op \in {"get_meta", "host_list_watchers",
                                     "host_overview", "login"}}
\* The overview thread of the collector.
Overview(hosts) == R("overview", "none", "none", hosts)

\* The files a request reads, in order, and the one it writes in the end.
Reads(r) ==
    CASE r \in TenantWrites \/ r.op = "get_meta"     -> <<"meta">>
      [] r.op \in {"host_set_watcher", "host_list_watchers"}
                                                     -> <<"meta", "host">>
      [] r.op = "host_delete_watcher"                -> <<"host">>
      [] r \in UserWrites \/ r.op = "login"          -> <<"users">>
      [] r.op \in {"remove_host", "host_overview"}   -> <<"overview">>
      [] OTHER                                       -> <<>>

Target(r) ==
    CASE r \in TenantWrites \/ r.op = "create" -> "meta"
      [] r \in HostWrites                      -> "host"
      [] r \in UserWrites                      -> "users"
      [] r.op \in {"remove_host", "overview"}  -> "overview"
      [] OTHER                                 -> "none"

\* What it changes are documents of the tenant, or user.db.
Group(r) ==
    CASE Target(r) = "users"                    -> "users"
      [] Target(r) = "none" /\ r.op # "delete" -> "none"
      [] OTHER                                  -> "tenant"
GroupOf(f) == IF f = "users" THEN "users" ELSE "tenant"

\* Refused with an error once the documents are read.
Refused(r, got) ==
    \/ r.op = "set_watcher" /\ got.meta # Null
       /\ got.meta.meter[r.m].type = "table"
    \/ r.op = "host_set_watcher" /\ TypeFor(got.meta, r.m) = "table"
    \/ r \in UserWrites /\ got.users = Null
    \/ r.op = "user_post" /\ got.users # Null /\ got.users[r.m] = 0

\* The process ends: var_dump and var_merge of a NULL pointer, or strcmp
\* with the description of a meter that has none.
GoesDown(r, got) ==
    \/ r \in TenantWrites /\ got.meta = Null
    \/ r.op = "set_meter" /\ r.field = "undescribed"
    \/ r.op = "host_list_watchers" /\ CannotCompare(got.meta, got.host)
    \/ r.op = "remove_host" /\ got.overview = Null

\* The document the request leaves in its target.
Change(r, got) ==
    CASE r.op = "update"          -> cmd_tenant_update(got.meta, r.field, r.to)
      [] r.op = "set_meta"        -> cmd_tenant_set_meta(got.meta, r.to)
      [] r.op = "set_meter"       -> cmd_tenant_set_meter(got.meta, r.m, r.to)
      [] r.op = "delete_meter"    -> cmd_tenant_delete_meter(got.meta, r.m)
      [] r.op = "set_watcher"     -> cmd_tenant_set_watcher(got.meta, r.m)
      [] r.op = "delete_watcher"  -> cmd_tenant_delete_watcher(got.meta, r.m)
      [] r.op = "host_set_watcher" ->
            cmd_host_set_watcher(got.host, got.meta, r.m)
      [] r.op = "host_delete_watcher" -> cmd_host_delete_watcher(got.host, r.m)
      [] r.op \in {"user_put", "user_post"} ->
            cmd_user_set(got.users, r.m, r.to)
      [] r.op = "user_delete"     -> cmd_user_delete(got.users, r.m)
      [] r.op = "create"          -> NewTenant(r.to)
      [] r.op = "remove_host"     -> {}
      [] r.op = "overview"        -> r.to
=============================================================================
