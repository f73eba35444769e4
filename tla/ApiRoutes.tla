----------------------------- MODULE ApiRoutes -----------------------------
(***************************************************************************)
(* The url routing of opticon-api: the match list setup_matches builds,    *)
(* how a url is matched against a pattern, and which function of the list  *)
(* ends up answering a request.                                            *)
(*                                                                         *)
(* A url is the sequence of its fields, so "/" is <<"">> and "/a/b" is     *)
(* <<"a", "b">>.  What req_match_check does character by character is      *)
(* decided per field here: a field is a uuid, a time, an integer or some   *)
(* other word, and OddFields are those with a character that %S refuses.   *)
(***************************************************************************)
EXTENDS Naturals, Sequences, FiniteSets, FiniteSetsExt

CONSTANTS Tenants,    \* uuids of tenants
          Hosts,      \* uuids of hosts
          NilUuid,    \* the all-zero uuid: 32 digits, so %U takes it
          Times, Ints,
          OddFields

Uuids == Tenants \union Hosts \union {NilUuid}

\* Words that begin with "any".
AnyWords == {"any", "anyone"}

\* The one field of the url "/".
Empty == ""

\* The words a url may begin with instead of a tenant.
FirstWords == AnyWords \union {Empty, "login", "obligatory-dancing-bears",
                               "session", "token", "user"}

ASSUME RouteConstants ==
    /\ NilUuid \notin Tenants \union Hosts
    /\ Times \intersect Ints = {}
    /\ Uuids \intersect FirstWords = {}

Levels == {"GUEST", "USER", "PROV", "ADMIN"}

GET == {"GET"}
POST == {"POST"}
PUT == {"PUT"}
DELETE == {"DELETE"}
UPDATE == POST \union PUT
ANY == UPDATE \union GET \union DELETE \union {"OPTIONS", "OTHER"}

\* Mutant: %s takes the characters of %S only.
AcceptsStrict(token, field) ==
    CASE token \in {"%s", "%S"} -> field # Empty /\ field \notin OddFields
      [] token = "%U" -> field \in Uuids
      [] token = "%T" -> field \in Times
      [] token = "%i" -> field \in Ints
      [] OTHER        -> token = field

\* The typed arguments of a pattern; any other token is literal text.
Accepts(token, field) ==
    CASE token = "%s" -> field # Empty
      [] token = "%S" -> field # Empty /\ field \notin OddFields
      [] token = "%U" -> field \in Uuids
      [] token = "%T" -> field \in Times
      [] token = "%i" -> field \in Ints
      [] OTHER        -> token = field

\* "*" at the end takes the rest of the url, which after literal text must
\* not be empty (the loop has ended) and after an argument may be.
Matches(pat, url) ==
    LET n == Len(pat) IN
    CASE pat = <<"*">>    -> TRUE
      [] pat = <<"any*">> -> url[1] \in AnyWords /\ url # <<"any">>
      [] pat[n] = "*"     -> /\ Len(url) >= n - 1
                             /\ \A i \in 1 .. n - 1 : Accepts(pat[i], url[i])
      [] OTHER            -> /\ Len(url) = n
                             /\ \A i \in 1 .. n : Accepts(pat[i], url[i])

R(pat, mask, func) == [pat |-> pat, mask |-> mask, func |-> func]

Routes ==
  << R(<<"obligatory-dancing-bears">>, GET, "cmd_dancing_bears"),
     R(<<"*">>, ANY, "flt_add_cors"),
     R(<<"login">>, POST, "cmd_login"),
     R(<<"*">>, ANY, "flt_check_validuser"),
     R(<<Empty>>, GET, "cmd_list_tenants"),
     R(<<Empty>>, ANY, "err_method_not_allowed"),
     R(<<"token">>, GET, "cmd_token"),
     R(<<"session">>, GET, "flt_check_admin"),
     R(<<"session">>, GET, "cmd_list_sessions"),
     R(<<"user", "%s">>, UPDATE, "cmd_user_set"),
     R(<<"user", "%s">>, DELETE, "cmd_user_delete"),
     R(<<"any*">>, ANY, "flt_check_admin"),
     R(<<"any", "host", "overview">>, GET, "cmd_host_any_overview"),
     R(<<"any", "host", "%U">>, GET, "cmd_host_any_get"),
     R(<<"any", "host", "%U", "tenant">>, GET, "cmd_host_any_get_tenant"),
     R(<<"%U", "*">>, ANY, "flt_check_tenant"),
     R(<<"%U">>, GET, "cmd_tenant_get"),
     R(<<"%U">>, POST, "cmd_tenant_create"),
     R(<<"%U">>, PUT, "cmd_tenant_update"),
     R(<<"%U">>, DELETE, "flt_check_admin"),
     R(<<"%U">>, DELETE, "cmd_tenant_delete"),
     R(<<"%U", "summary">>, GET, "cmd_tenant_get_summary"),
     R(<<"%U", "quota">>, GET, "cmd_tenant_get_quota"),
     R(<<"%U", "meta">>, GET, "cmd_tenant_get_meta"),
     R(<<"%U", "meta">>, UPDATE, "cmd_tenant_set_meta"),
     R(<<"%U", "meta">>, ANY, "err_method_not_allowed"),
     R(<<"%U", "meter">>, GET, "cmd_tenant_list_meters"),
     R(<<"%U", "meter", "%S">>, UPDATE, "cmd_tenant_set_meter"),
     R(<<"%U", "meter", "%S", "%S">>, UPDATE, "cmd_tenant_set_meter"),
     R(<<"%U", "meter", "%S">>, DELETE, "cmd_tenant_delete_meter"),
     R(<<"%U", "meter", "%S", "%S">>, DELETE, "cmd_tenant_delete_meter"),
     R(<<"%U", "watcher">>, GET, "cmd_tenant_list_watchers"),
     R(<<"%U", "watcher", "%S">>, UPDATE, "cmd_tenant_set_watcher"),
     R(<<"%U", "watcher", "%S", "%S">>, UPDATE, "cmd_tenant_set_watcher"),
     R(<<"%U", "watcher", "%S">>, DELETE, "cmd_tenant_delete_watcher"),
     R(<<"%U", "watcher", "%S", "%S">>, DELETE, "cmd_tenant_delete_watcher"),
     R(<<"%U", "host">>, GET, "cmd_tenant_list_hosts"),
     R(<<"%U", "host">>, ANY, "err_method_not_allowed"),
     R(<<"%U", "host", "overview">>, GET, "cmd_host_overview"),
     R(<<"%U", "host", "%U", "*">>, ANY, "flt_check_host"),
     R(<<"%U", "host", "%U">>, GET, "cmd_host_get"),
     R(<<"%U", "host", "%U">>, DELETE, "cmd_host_remove"),
     R(<<"%U", "host", "%U">>, ANY, "err_method_not_allowed"),
     R(<<"%U", "host", "%U", "log">>, GET, "cmd_host_get_log"),
     R(<<"%U", "host", "%U", "externaldata">>, GET, "cmd_host_get_external"),
     R(<<"%U", "host", "%U", "watcher">>, GET, "cmd_host_list_watchers"),
     R(<<"%U", "host", "%U", "watcher">>, ANY, "err_method_not_allowed"),
     R(<<"%U", "host", "%U", "watcher", "%S">>, UPDATE,
       "cmd_host_set_watcher"),
     R(<<"%U", "host", "%U", "watcher", "%S", "%S">>, UPDATE,
       "cmd_host_set_watcher"),
     R(<<"%U", "host", "%U", "watcher", "%S">>, DELETE,
       "cmd_host_delete_watcher"),
     R(<<"%U", "host", "%U", "watcher", "%S", "%S">>, DELETE,
       "cmd_host_delete_watcher"),
     R(<<"%U", "host", "%U", "range", "%T", "%T">>, GET, "cmd_host_get_range"),
     R(<<"%U", "host", "%U", "graph">>, GET, "cmd_host_list_graphs"),
     R(<<"%U", "host", "%U", "graph", "%S", "%S", "%i", "%i">>, GET,
       "cmd_host_get_graph"),
     R(<<"%U", "host", "%U", "time", "%T">>, GET, "cmd_host_get_time"),
     R(<<"*">>, GET, "err_not_found"),
     R(<<"*">>, ANY, "err_method_not_allowed") >>

----------------------------------------------------------------------------
(***************************************************************************)
(* The filters.  A context is what flt_check_validuser left of the caller: *)
(* its level, its tenants, and whether the filter turned it away.  A       *)
(* filter lets the dispatcher go on by returning 0; every cmd_ and err_    *)
(* function answers.                                                       *)
(***************************************************************************)

Contexts == [level : Levels, tenants : SUBSET Tenants, rejected : BOOLEAN]

flt_check_admin(ctx) == ctx.level # "ADMIN"

flt_check_tenant(req, ctx) ==
    \/ req.url[1] = NilUuid
    \/ /\ ctx.level \notin {"ADMIN", "PROV"}
       /\ req.url[1] \notin ctx.tenants

flt_check_host(req) == req.url[3] = NilUuid

Answers(func, req, ctx) ==
    CASE func = "flt_add_cors"        -> req.method = "OPTIONS"
      [] func = "flt_check_validuser" -> ctx.rejected
      [] func = "flt_check_admin"     -> flt_check_admin(ctx)
      [] func = "flt_check_tenant"    -> flt_check_tenant(req, ctx)
      [] func = "flt_check_host"      -> flt_check_host(req)
      [] OTHER                        -> TRUE

\* req_matchlist_dispatch: the first entry that matches and answers.
Dispatch(req, ctx) ==
    LET hits == {i \in DOMAIN Routes : /\ req.method \in Routes[i].mask
                                       /\ Matches(Routes[i].pat, req.url)
                                       /\ Answers(Routes[i].func, req, ctx)}
    IN IF hits = {} THEN "err_server_error" ELSE Routes[Min(hits)].func

\* The status of the answers that no cmd_ function gives.
ErrStatus(func, req) ==
    CASE func = "flt_add_cors"           -> 200
      [] func = "flt_check_validuser"    -> 403  \* err_unauthorized
      [] func = "flt_check_admin"        -> 401  \* err_not_allowed
      [] func = "flt_check_tenant"       ->
            IF req.url[1] = NilUuid THEN 500 ELSE 401
      [] func = "flt_check_host"         -> 500
      [] func = "err_not_found"          -> 404
      [] func = "err_method_not_allowed" -> 405
      [] func = "err_server_error"       -> 500
      [] OTHER                           -> 200

Errors == {"flt_add_cors", "flt_check_validuser", "flt_check_admin",
           "flt_check_tenant", "flt_check_host", "err_not_found",
           "err_method_not_allowed", "err_server_error"}
=============================================================================
