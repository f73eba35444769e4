----------------------------- MODULE ApiClients -----------------------------
(***************************************************************************)
(* The requests the command line client and the web client send to         *)
(* opticon-api, the keys they put in the body and read from the reply, and *)
(* what the functions of the API want of a body and put in a reply.        *)
(* Only the outermost keys are kept.  The arguments of a command are any   *)
(* tenant, host, user or meter; a meter id may hold a slash, which makes   *)
(* it two fields of the url.                                               *)
(***************************************************************************)
EXTENDS ApiRoutes

Meters == {<<"pcpu">>, <<"net", "in_kbs">>}

\* No uuid of a host reads "overview", and what the clients put in a url of
\* their own accord has none of the characters that %S refuses.
ASSUME ClientConstants ==
    /\ "overview" \notin Hosts
    /\ {Empty, "pcpu", "net", "in_kbs", "cpu", "usage"}
           \intersect OddFields = {}

Get(url, reads) ==
    [method |-> "GET", url |-> url, body |-> {}, reads |-> reads]
Send(method, url, body, reads) ==
    [method |-> method, url |-> url, body |-> body, reads |-> reads]

\* opticon-cli/cmd.c, one set per command of CLICMD.
cli_tenant_list == {Get(<<Empty>>, {"tenant"})}
cli_tenant_get_metadata(t) == {Get(<<t, "meta">>, {})}
cli_tenant_set_metadata(t) ==
    {Get(<<t, "meta">>, {"metadata"}),
     Send("POST", <<t, "meta">>, {"metadata"}, {})}
cli_tenant_set_quota(t) == {Send("PUT", <<t>>, {"tenant"}, {})}
cli_tenant_get_quota(t) == {Get(<<t, "quota">>, {"quota", "usage"})}
cli_tenant_get_summary(t) == {Get(<<t, "summary">>, {})}
cli_host_overview(t) == {Get(<<t, "host", "overview">>, {"overview"})}
cli_meter_create(t, m) == {Send("POST", <<t, "meter">> \o m, {"meter"}, {})}
cli_meter_delete(t, m) == {Send("DELETE", <<t, "meter">> \o m, {}, {})}
cli_meter_list(t) == {Get(<<t, "meter">>, {"meter"})}
cli_watcher_set(t, h, m) ==
    {Get(<<t, "meter">>, {"meter"}),
     Send("POST", <<t, "host", h, "watcher">> \o m, {"watcher"}, {}),
     Send("POST", <<t, "watcher">> \o m, {"watcher"}, {})}
cli_watcher_delete(t, h, m) ==
    {Send("DELETE", <<t, "host", h, "watcher">> \o m, {}, {}),
     Send("DELETE", <<t, "watcher">> \o m, {}, {})}
cli_watcher_list(t, h) ==
    {Get(<<t, "host", h, "watcher">>, {"watcher"}),
     Get(<<t, "watcher">>, {"watcher"})}
cli_tenant_delete(t) == {Send("DELETE", <<t>>, {}, {})}
cli_tenant_create(t) == {Send("POST", <<t>>, {"tenant"}, {"tenant"})}
cli_host_list(t) == {Get(<<t, "host">>, {"host"})}
cli_remove_host(t, h) == {Send("DELETE", <<t, "host", h>>, {}, {})}
cli_user_create(u) ==
    {Send("PUT", <<"user", u>>, {"password", "tenant", "level"}, {})}
cli_user_set_tenant(u) == {Send("POST", <<"user", u>>, {"tenant"}, {})}
cli_user_set_password(u) == {Send("POST", <<"user", u>>, {"password"}, {})}
cli_user_delete(u) == {Send("DELETE", <<"user", u>>, {}, {})}
cli_get_record(t, h) ==
    {Get(<<"any", "host", h, "tenant">>, {"tenant"}),
     Get(<<t, "host", h>>, {})}
cli_print_graph(t, h) ==
    {Get(<<t, "host", h, "graph", "cpu", "usage", i, i>>,
         {"max", "data", "title", "unit"}) : i \in Ints}
cli_session_list == {Get(<<"session">>, {"session"})}
cli_bears == {Get(<<"obligatory-dancing-bears">>, {"bear"})}

\* opticon-cli/main.c: token validation, login, and --host by name.
cli_main(t) ==
    {Get(<<"token">>, {"token"}),
     Send("POST", <<"login">>, {"username", "password"}, {"token"})}
    \union cli_host_overview(t)

\* Opticon.api.js and Auth.api.js, for an administrator ("any") and for a
\* tenant's own user.
web_host(t, h) ==
    {Get(<<"any", "host", "overview">>, {"overview"}),
     Get(<<t, "host", "overview">>, {"overview"}),
     Get(<<"any", "host", h, "tenant">>, {"tenant"}),
     Get(<<t, "host", h>>, {}),
     Get(<<t, "host", h, "externaldata">>, {}),
     Get(<<t, "host", h, "watcher">>, {"watcher"}),
     Send("DELETE", <<t, "host", h>>, {}, {}),
     Get(<<t, "host", h, "log">>, {"log"})}
    \union cli_print_graph(t, h)
web_set_watcher(t, h, m) ==
    {Send("POST", <<t, "host", h, "watcher">> \o m, {"watcher"}, {})}
web_tenant(t) ==
    {Get(<<Empty>>, {"tenant"}), Get(<<t, "quota">>, {"quota", "usage"}),
     Get(<<t, "meta">>, {"metadata"})}
web_auth ==
    {Get(<<"token">>, {"token"}),
     Send("POST", <<"login">>, {"username", "password"}, {"token"})}

\* What is asked about nothing in particular, a host, a tenant with its
\* meters and hosts, or a user.
CommonRequests ==
    cli_tenant_list \union cli_session_list \union cli_bears \union web_auth
HostRequests(t, h) ==
    cli_remove_host(t, h) \union cli_get_record(t, h)
    \union cli_watcher_list(t, h) \union web_host(t, h)
    \union (UNION {cli_watcher_set(t, h, m) \union cli_watcher_delete(t, h, m)
                   \union web_set_watcher(t, h, m) : m \in Meters})
TenantRequests(t) ==
    cli_tenant_get_metadata(t) \union cli_tenant_set_metadata(t)
    \union cli_tenant_set_quota(t) \union cli_tenant_get_quota(t)
    \union cli_tenant_get_summary(t) \union cli_host_overview(t)
    \union cli_meter_list(t) \union cli_tenant_delete(t)
    \union cli_tenant_create(t) \union cli_host_list(t)
    \union cli_main(t) \union web_tenant(t)
    \union (UNION {cli_meter_create(t, m) \union cli_meter_delete(t, m) :
                      m \in Meters})
    \union (UNION {HostRequests(t, h) : h \in Hosts})
UserRequests(u) ==
    cli_user_create(u) \union cli_user_set_tenant(u)
    \union cli_user_set_password(u) \union cli_user_delete(u)

ClientRequests ==
    CommonRequests
    \union (UNION {TenantRequests(t) : t \in Tenants})
    \union (UNION {UserRequests(u) : u \in OddFields \union {"user"}})

----------------------------------------------------------------------------
(* The other side: the keys a function of the API answers with, and the    *)
(* keys of the body without which it refuses the request or does nothing.  *)

TenantReplies ==
    [cmd_list_tenants |-> {"tenant"}, cmd_token |-> {"token"},
     cmd_tenant_get |-> {"tenant"},
     cmd_tenant_get_quota |-> {"quota", "usage"},
     cmd_tenant_create |-> {"tenant"}, cmd_tenant_update |-> {"tenant"},
     cmd_tenant_delete |-> {"deleted"}]

MeterReplies ==
    [cmd_tenant_get_meta |-> {"metadata"},
     cmd_tenant_set_meta |-> {"metadata"},
     cmd_tenant_get_summary |-> {"summary"},
     cmd_tenant_list_meters |-> {"meter"}, cmd_tenant_set_meter |-> {"meter"},
     cmd_tenant_delete_meter |-> {"meter"},
     cmd_tenant_list_watchers |-> {"watcher"},
     cmd_tenant_set_watcher |-> {"watcher"},
     cmd_tenant_delete_watcher |-> {"watcher"},
     cmd_tenant_list_hosts |-> {"host"}]

HostReplies ==
    [cmd_host_overview |-> {"overview"},
     cmd_host_any_overview |-> {"overview"},
     cmd_host_any_get_tenant |-> {"tenant"},
     cmd_host_get_external |-> {"external"}, cmd_host_remove |-> {"host"},
     cmd_host_get_log |-> {"log"}, cmd_host_list_watchers |-> {"watcher"},
     cmd_host_set_watcher |-> {"watcher"},
     cmd_host_delete_watcher |-> {"meter"}]

GraphReplies ==
    [cmd_list_sessions |-> {"session"}, cmd_host_list_graphs |-> {"graph"},
     cmd_host_get_graph |->
        {"data", "max", "title", "unit", "color", "meter"}]

RecordReplies == [f \in {"cmd_host_get", "cmd_host_any_get",
                         "cmd_host_get_time"} |-> {"record"}]

UserReplies ==
    [cmd_login |-> {"token"}, cmd_user_set |-> {"result"},
     cmd_user_delete |-> {"status"}]

Replies(func) ==
    CASE func \in DOMAIN TenantReplies -> TenantReplies[func]
      [] func \in DOMAIN MeterReplies  -> MeterReplies[func]
      [] func \in DOMAIN HostReplies   -> HostReplies[func]
      [] func \in DOMAIN GraphReplies  -> GraphReplies[func]
      [] func \in DOMAIN RecordReplies -> RecordReplies[func]
      [] func \in DOMAIN UserReplies   -> UserReplies[func]
      [] func = "cmd_dancing_bears"    -> {"bear"}
      [] OTHER                         -> {"error"}

Wants(func, method) ==
    CASE func \in {"cmd_tenant_create", "cmd_tenant_update"} -> {"tenant"}
      [] func = "cmd_tenant_set_meta"      -> {"metadata"}
      [] func = "cmd_tenant_set_meter"     -> {"meter"}
      [] func \in {"cmd_tenant_set_watcher", "cmd_host_set_watcher"}
                                           -> {"watcher"}
      [] func = "cmd_user_set" /\ method = "PUT" -> {"tenant", "password"}
      [] func = "cmd_login"                -> {"username", "password"}
      [] OTHER                             -> {}

\* A request gets from the API what its sender expects of it.
Understood(req, ctx) ==
    LET func == Dispatch(req, ctx)
    IN /\ Replies(func) # {"error"}
       /\ req.reads \subseteq Replies(func)
       /\ Wants(func, req.method) \subseteq req.body
=============================================================================
