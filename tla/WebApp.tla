------------------------------- MODULE WebApp -------------------------------
(***************************************************************************)
(* The web client, opticon-gui: the list of hosts and the page of one      *)
(* host, kept up to date by one background timer and by replies that come  *)
(* when they come (webroot/core/Module.js, Router.js, App.js, API.js and   *)
(* the modules under webroot/module).  Scripts run one at a time: an       *)
(* action is an event, with all that is called from its handler.           *)
(*                                                                         *)
(* The objects of the scripts are the record app, which a reload of the    *)
(* page makes anew; the address stays.  Of a page only its host and whose  *)
(* record it shows are kept; what is fetched along with a record (log,     *)
(* graphs, watchers) goes the way of the record.  Requests that are alike  *)
(* are one.  Users log in with the identity service (conf.url.unithost).   *)
(***************************************************************************)
EXTENDS Integers, FiniteSets

CONSTANTS
    Hosts,
    TenantOf,      \* host -> its tenant
    OwnTenant,     \* that of a user who is no administrator
    None,
    ModuleCount,   \* the u-modules of index.html
    MaxRetry,      \* 5: the times a request is tried
    MaxEvents      \* bound of the model: what users and the world do

ASSUME WebAppAssumption ==
    /\ MaxRetry \in Nat \ {0} /\ ModuleCount \in Nat \ {0}
    /\ MaxEvents \in Nat

Paths == {"", "/", "/Server", "elsewhere"} \cup Hosts

VARIABLES
    server,   \* whether it can be reached, and the hosts it has records of
    admin,    \* what the user is
    token,    \* the one in use
    app,
    events

webVars == <<server, admin, token, app, events>>

Boot(path) ==
    [loaded |-> 0, dialog |-> "loading",
     hash |-> path, changed |-> FALSE, lastDeepLink |-> None,
     page |-> "none", list |-> {},
     view |-> [id |-> None, tenantid |-> None, data |-> None],
     timer |-> "off", refresh |-> "none", again |-> FALSE,
     calls |-> {}, tcache |-> {}]

WebInit ==
    /\ server \in [up : {TRUE}, known : SUBSET Hosts]
    /\ admin \in BOOLEAN /\ token = "none"
    /\ \E path \in Paths : app = Boot(path)
    /\ events = 0

-----------------------------------------------------------------------------
(* Requests *)

(* seen is what the server could answer with when it was asked. *)
Request(what, about, tenant) ==
    [what |-> what, about |-> about, tenant |-> tenant, retry |-> 0,
     seen |-> IF what = "overview" THEN server.known ELSE {}]

Ask(a, call) == [a EXCEPT !.calls = @ \cup {call}]

ListRefresh(a) == Ask(a, Request("overview", None, None))
ViewRefresh(a) == Ask(a, Request("current", a.view.id, a.view.tenantid))

Refresh(a, which) ==
    CASE which = "list" -> ListRefresh(a)
      [] which = "view" -> ViewRefresh(a)
      [] which = "none" -> a

-----------------------------------------------------------------------------
(* Pages and dialogs *)

(* Mutant: a timer that runs is left alone. *)
SetIfIdle(a, which) ==
    IF a.timer = "on" THEN a
    ELSE [a EXCEPT !.timer = "on", !.refresh = which]

(* Module.setBackground *)
setBackground(a, which) == [a EXCEPT !.timer = "on", !.refresh = which]

(* Module.Dialog.show; nothing turns the background on again. *)
ShowDialog(a, which) == [a EXCEPT !.dialog = which, !.timer = "off"]

ActivateList(a) ==
    [setBackground(ListRefresh(a), "list") EXCEPT !.page = "list"]

(* The callback of resolveTenant in ServerView.activate: it goes on with   *)
(* the host of the page, which need not be the one it was asked for.       *)
Resolved(a, tenant) ==
    LET b == [a EXCEPT !.view.tenantid = tenant]
    IN  IF tenant = None THEN b ELSE ViewRefresh(setBackground(b, "view"))

ActivateView(a, host) ==
    LET b == [a EXCEPT !.view.id = host, !.page = "view"]
    IN  CASE ~admin -> Resolved(b, IF token = "none" THEN None
                                   ELSE OwnTenant)
          [] admin /\ host \in a.tcache -> Resolved(b, TenantOf[host])
          [] admin /\ host \notin a.tcache ->
               Ask(b, Request("resolve", host, None))

(* Router.handle; a path it does not know it does nothing about. *)
handle(a, path) ==
    CASE path \in {"/", "/Server"} -> ActivateList(a)
      [] path \in Hosts -> ActivateView(a, path)
      [] OTHER -> a

rememberLink(a, path) ==
    IF path \in {"/Server"} \cup Hosts THEN [a EXCEPT !.lastDeepLink = path]
    ELSE a

(* The browser reports a change of the hash afterwards. *)
SetHash(a, path) ==
    [a EXCEPT !.hash = path, !.changed = @ \/ path # a.hash]

go(a, path) == rememberLink(SetHash(a, path), path)

goDeep(a) ==
    go(a, IF a.lastDeepLink = None THEN "/Server" ELSE a.lastDeepLink)

(* App.activate at the end of a login. *)
Activate(a) ==
    LET path == IF a.hash \in {"", "/"} THEN "/Server" ELSE a.hash
    IN  rememberLink(handle([a EXCEPT !.dialog = "none"], path), path)

(* ServerView.back *)
back(a) == go([a EXCEPT !.page = IF @ = "view" THEN "none" ELSE @], "/Server")

(* Logout: API.Identity does not exist, and the rest is not done. *)
Logout(a) == [go(a, "/") EXCEPT !.lastDeepLink = None]

-----------------------------------------------------------------------------
(* What the callbacks do *)

(* With an error, and no status that tells more. *)
Failed(a, c) ==
    CASE c.what = "resolve" -> Resolved(a, None)
      [] c.what = "current" -> [a EXCEPT !.again = TRUE]
      [] c.what = "remove" -> back(a)
      [] c.what = "check" -> Ask(a, Request("login", "job", None))
      [] c.what = "login" /\ c.about = "job" -> Logout(a)
      [] OTHER -> a

(* With the host's record, its tenant, or nothing of the kind. *)
Found(a, c) ==
    CASE c.what = "resolve" /\ c.about \in server.known ->
           Resolved([a EXCEPT !.tcache = @ \cup {c.about}],
                    TenantOf[c.about])
      [] c.what = "current" /\ c.about \in server.known
           /\ c.tenant = TenantOf[c.about] ->
           [a EXCEPT !.view.data = c.about]
      [] OTHER -> Failed(a, c)

Done(c) == [app EXCEPT !.calls = @ \ {c}]

HostCalls == {"overview", "resolve", "current", "remove"}

(* The server cannot be reached: API.call tries again, and gives up. *)
Retry(c) ==
    /\ ~server.up
    /\ app' = IF c.retry + 1 < MaxRetry
              THEN Ask(Done(c), [c EXCEPT !.retry = @ + 1])
              ELSE Failed(ShowDialog(Done(c), "fatal"), c)
    /\ UNCHANGED <<server, admin, token, events>>

(* The server fails with a 500. *)
Fatal(c) ==
    /\ server.up /\ events < MaxEvents
    /\ events' = events + 1
    /\ app' = Failed(ShowDialog(Done(c), "fatal"), c)
    /\ UNCHANGED <<server, admin, token>>

(* The token is not good: a 401, or a 403, which ends in an exception      *)
(* because there is no NormalError, so that no callback is called.         *)
Denied(c) ==
    /\ server.up /\ c.what \in HostCalls /\ token # "good"
    /\ app' \in {Failed(Done(c), c), Done(c)}
    /\ UNCHANGED <<server, admin, token, events>>

GetOverview(c) ==
    /\ server.up /\ c.what = "overview" /\ token = "good"
    /\ \E hosts \in {c.seen, server.known} :
         app' = [Done(c) EXCEPT !.list = hosts]
    /\ UNCHANGED <<server, admin, token, events>>

GetHost(c) ==
    /\ server.up /\ c.what \in {"resolve", "current"} /\ token = "good"
    /\ app' = Found(Done(c), c)
    /\ UNCHANGED <<server, admin, token, events>>

RemoveHost(c) ==
    /\ server.up /\ c.what = "remove" /\ token = "good"
    /\ server' = [server EXCEPT !.known = @ \ {c.about}]
    /\ app' = back(Done(c))
    /\ UNCHANGED <<admin, token, events>>

(* API.Auth.checkAccess logs in again when the token is not good. *)
CheckAccess(c) ==
    /\ server.up /\ c.what = "check"
    /\ app' = IF token = "good" THEN Done(c) ELSE Failed(Done(c), c)
    /\ UNCHANGED <<server, admin, token, events>>

(* API.Auth.login goes on with setToken. *)
LoggedIn(c) ==
    /\ server.up /\ c.what = "login"
    /\ token' = "good"
    /\ app' = Ask(Done(c), Request("token", c.about, None))
    /\ UNCHANGED <<server, admin, events>>

(* A login that is refused.  With a 403 the screen says so, and its button *)
(* stays disabled; any other status but 444 is taken for success.          *)
Refused(c) ==
    /\ server.up /\ c.what = "login" /\ events < MaxEvents
    /\ events' = events + 1
    /\ app' \in {Done(c)} \cup
                (IF c.about = "screen" THEN {Activate(Done(c))} ELSE {})
    /\ UNCHANGED <<server, admin, token>>

SetToken(c) ==
    /\ server.up /\ c.what = "token"
    /\ app' = IF c.about = "screen" THEN Activate(Done(c)) ELSE Done(c)
    /\ UNCHANGED <<server, admin, token, events>>

Reply(c) ==
    \/ Retry(c) \/ Fatal(c) \/ Denied(c)
    \/ GetOverview(c) \/ GetHost(c) \/ RemoveHost(c)
    \/ CheckAccess(c) \/ LoggedIn(c) \/ Refused(c) \/ SetToken(c)

-----------------------------------------------------------------------------
(* Timers and the browser.  A timer's request waits for its like, and what *)
(* is asked with a good token changes nothing (checkAccessJob).            *)

Timer == UNCHANGED <<server, admin, token, events>>
Asked(what) == \E c \in app.calls : c.what = what

(* Module.backgroundTask *)
backgroundTask ==
    /\ app.timer = "on"
    /\ ~Asked(IF app.refresh = "list" THEN "overview" ELSE "current")
    /\ app' = Refresh(app, app.refresh)
    /\ Timer

RefreshAgain ==
    /\ app.again /\ ~Asked("current")
    /\ app' = ViewRefresh([app EXCEPT !.again = FALSE])
    /\ Timer

checkAccessJob ==
    /\ token = "bad" /\ app.dialog \in {"none", "fatal"}
    /\ ~Asked("check") /\ ~Asked("login") /\ ~Asked("token")
    /\ app' = Ask(app, Request("check", None, None))
    /\ Timer

(* The router is not active before the first login. *)
onhashchange ==
    /\ app.changed
    /\ app' = LET a == [app EXCEPT !.changed = FALSE]
              IN  IF a.dialog \in {"none", "fatal"} THEN handle(a, a.hash)
                  ELSE a
    /\ Timer

(* Module.done; with the last module the login screen opens. *)
ModuleDone ==
    /\ app.dialog = "loading"
    /\ app' = [app EXCEPT
         !.loaded = @ + 1,
         !.dialog = IF app.loaded + 1 = ModuleCount THEN "login" ELSE @]
    /\ Timer

-----------------------------------------------------------------------------
(* The user *)

(* LoginScreen.submit *)
submit ==
    /\ app.dialog = "login"
    /\ app' = Ask([app EXCEPT !.dialog = "submitted"],
                  Request("login", "screen", None))
    /\ Timer

Reload == app' = Boot(app.hash) /\ token' = "none"

(* After an error, FatalError.close; or nothing moves any more. *)
ReloadStuck ==
    /\ \/ app.dialog = "fatal"
       \/ app.dialog = "submitted" /\ app.calls = {}
    /\ Reload
    /\ UNCHANGED <<server, admin, events>>

Deed ==
    /\ events < MaxEvents
    /\ events' = events + 1

UserGoes ==
    /\ Deed
    /\ \/ \E path \in Paths : app' = SetHash(app, path)
       \/ /\ app.dialog = "none"
          /\ \/ \E h \in app.list : app.page = "list" /\ app' = go(app, h)
             \/ app.page = "view" /\ app' = back(app)
             \/ app.page = "view"
                  /\ app' = Ask(app, Request("remove", app.view.id,
                                             app.view.tenantid))
             \/ app.page = "list" /\ app' = ListRefresh(app)
             \/ app' = goDeep(app)
             \/ app' = Logout(app)
    /\ UNCHANGED <<server, admin, token>>

UserReloads == Deed /\ Reload /\ UNCHANGED <<server, admin>>

-----------------------------------------------------------------------------
(* The world: hosts come and go, the server has outages, tokens expire. *)

World ==
    /\ Deed
    /\ \/ /\ server' \in [up : {server.up}, known : SUBSET Hosts]
          /\ UNCHANGED token
       \/ /\ server' = [server EXCEPT !.up = FALSE]
          /\ UNCHANGED token
       \/ /\ token = "good" /\ token' = "bad"
          /\ UNCHANGED server
    /\ UNCHANGED <<admin, app>>

Recover ==
    /\ ~server.up
    /\ server' = [server EXCEPT !.up = TRUE]
    /\ UNCHANGED <<admin, token, app, events>>

WebNext ==
    \/ \E c \in app.calls : Reply(c)
    \/ backgroundTask \/ RefreshAgain \/ checkAccessJob
    \/ onhashchange \/ ModuleDone
    \/ submit \/ ReloadStuck \/ UserGoes \/ UserReloads
    \/ World \/ Recover

(* Requests of each kind are answered in the end, timers run out, the      *)
(* server comes back, and the user logs in and reloads when told to.       *)
ReplyTo(whats) == \E c \in app.calls : c.what \in whats /\ Reply(c)
WebFairness ==
    /\ WF_webVars(ReplyTo({"overview"}))
    /\ WF_webVars(ReplyTo({"resolve", "remove"}))
    /\ WF_webVars(ReplyTo({"current"}))
    /\ WF_webVars(ReplyTo({"check", "login", "token"}))
    /\ WF_webVars(backgroundTask) /\ WF_webVars(RefreshAgain)
    /\ WF_webVars(checkAccessJob) /\ WF_webVars(onhashchange)
    /\ WF_webVars(ModuleDone) /\ WF_webVars(submit \/ ReloadStuck)
    /\ WF_webVars(Recover)

WebSpec == WebInit /\ [][WebNext]_webVars /\ WebFairness

-----------------------------------------------------------------------------
(* What is on the screen agrees with the server: the page of a host it has *)
(* a record of shows that host, for an administrator once its tenant is    *)
(* known (a host that was unknown when its page was opened is not resolved *)
(* again), and the list has its hosts.  For a user who is no administrator *)
(* the timer is always the one of the page.  For an administrator it need  *)
(* not be: a late reply of resolveTenant (ServerView.page.js:38-51) turns  *)
(* it to the host's page after he went back to the list, which then is not *)
(* refreshed any more; of a page that has lost the timer nothing is said.  *)
Agrees ==
    /\ app.page = "list" /\ app.refresh = "list" => app.list = server.known
    /\ (app.page = "view" /\ app.refresh = "view"
        /\ app.view.id \in server.known /\ app.view.tenantid # None)
         => app.view.data = app.view.id
    /\ ~admin /\ app.page # "none" => app.refresh = app.page

(* Whatever a user did and whatever failed, in the end the application is  *)
(* there, and once its token is good a page that has the timer agrees with *)
(* the server, which for a user who is no administrator is every page:     *)
(* replies that come late or out of order, outages, reloads and a token    *)
(* that expires do not leave such a page with another host or an old list. *)
(* A user whose token has not become good again is promised no dialog that *)
(* stays open, and nothing of his page.                                    *)
PageSettles == <>[](app.dialog = "none" /\ (token = "good" => Agrees))
=============================================================================
