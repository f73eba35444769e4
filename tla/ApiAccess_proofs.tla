-------------------------- MODULE ApiAccess_proofs ---------------------------
(***************************************************************************)
(* Proofs about opticon-api and its clients, for any number of connection  *)
(* threads, tokens, sessions and requests, any crashes and any timeouts:   *)
(* sessions are not freed while they are used, requests get no further     *)
(* than the provider's word allows, a user is not locked out for long, and *)
(* whatever an administrator's client asks comes to the function it means. *)
(* That a request is not served for longer than a session may be idle, on  *)
(* which the code relies when it reads a session after the unlock, is      *)
(* stated where it is needed.                                              *)
(***************************************************************************)
EXTENDS ApiAccess, WellFoundedInduction, TLAPS

RequestFields == DOMAIN Idle
SessionFields == DOMAIN NoSession

(* Requests and sessions keep their fields, and their times are times.     *)
FieldsInv ==
    /\ now \in Nat /\ world \in Worlds
    /\ DOMAIN thr = Threads /\ DOMAIN sessions = SessionIds
    /\ \A t \in Threads : DOMAIN thr[t] = RequestFields /\ thr[t].tnow \in Nat
    /\ \A s \in SessionIds :
          DOMAIN sessions[s] = SessionFields /\ sessions[s].hb \in Nat

(* A request is served for MaxStall at most.                               *)
InTime(t) ==
    thr[t].pc # "idle" => thr[t].tnow <= now /\ now <= thr[t].tnow + MaxStall

(* A session in use was found since the request came, and whoever has      *)
(* found it after that came at most MaxStall before that.                  *)
InUse(t) ==
    thr[t].pc = "use" =>
        /\ thr[t].cred \in SessionIds
        /\ sessions[thr[t].cred].state = "live"
        /\ thr[t].tnow <= sessions[thr[t].cred].hb + MaxStall

UseInv == FieldsInv /\ \A t \in Threads : InTime(t) /\ InUse(t)

(* What a thread does that has no session in hand afterwards.              *)
Proceeds(t) ==
    /\ DOMAIN thr' = Threads
    /\ \A u \in Threads \ {t} : thr'[u] = thr[u]
    /\ DOMAIN thr'[t] = RequestFields /\ thr'[t].tnow \in Nat
    /\ thr'[t].pc # "use"
    /\ thr'[t].pc # "idle" =>
          thr'[t].tnow <= now /\ now <= thr'[t].tnow + MaxStall

(* It disturbs nobody, as long as the sessions stay.                       *)
LEMMA ProceedingIsSafe ==
    ASSUME UseInv, NEW t \in Threads, Proceeds(t),
           now' = now, world' = world, sessions' = sessions
    PROVE  UseInv'
  BY DEF UseInv, FieldsInv, InTime, InUse, Proceeds

(* A request that goes on to another place, whatever it notes.             *)
LEMMA GoingOnProceeds ==
    ASSUME UseInv, NEW t \in Threads, thr[t].pc # "idle",
           DOMAIN thr' = Threads,
           \A u \in Threads \ {t} : thr'[u] = thr[u],
           DOMAIN thr'[t] = RequestFields,
           thr'[t].tnow = thr[t].tnow, thr'[t].pc # "use"
    PROVE  Proceeds(t)
  BY DEF UseInv, FieldsInv, InTime, Proceeds

(* The records of an idle thread and of a session.                         *)
LEMMA IdleIsARequest ==
    /\ RequestFields = {"pc", "cred", "tnow", "node", "level", "tenants",
                        "rejected"}
    /\ Idle.tnow = 0 /\ Idle.pc = "idle"
    /\ SessionFields = {"state", "level", "tenants", "hb"}
    /\ NoSession.hb = 0
  BY DEF RequestFields, SessionFields, Idle, NoSession

(* Looking for a session: the one that is found is used next, with the     *)
(* time of the request as its last; one that is freed has been idle for    *)
(* longer than any request that may have it in hand is served.             *)
LEMMA FindStep ==
    ASSUME MaxStall <= SessionIdle, UseInv, NEW t \in Threads, FindSession(t)
    PROVE  UseInv'
  <1> DEFINE s == thr[t].cred
             found == /\ s \in SessionIds /\ sessions[s].state = "live"
                      /\ thr[t].tnow - sessions[s].hb < SessionIdle
  <1> USE IdleIsARequest DEF Goto
  <1>0. /\ FieldsInv
        /\ SessionIdle \in Nat /\ MaxStall \in Nat
        /\ thr[t].pc = "find" /\ now' = now /\ world' = world
        /\ thr[t].tnow <= now /\ now <= thr[t].tnow + MaxStall
    BY ServerConstants DEF UseInv, InTime, FindSession
  <1>1. CASE found
    <2>1. /\ sessions' = [sessions EXCEPT ![s].hb = thr[t].tnow]
          /\ thr' = [thr EXCEPT ![t].pc = "use"]
      BY <1>1 DEF FindSession
    <2>2. FieldsInv'
      BY <1>0, <1>1, <2>1 DEF FieldsInv
    <2>3. ASSUME NEW u \in Threads PROVE InTime(u)' /\ InUse(u)'
      <3>1. CASE u = t
        BY <1>0, <1>1, <2>1, <3>1 DEF FieldsInv, InTime, InUse
      <3>2. CASE u # t
        <4>1. thr'[u] = thr[u] /\ InTime(u) /\ InUse(u)
          BY <2>1, <3>2, <1>0 DEF UseInv, FieldsInv
        <4>2. InTime(u)'
          BY <4>1, <1>0 DEF InTime
        <4>3. CASE thr[u].cred = s
          BY <4>1, <4>2, <4>3, <1>0, <1>1, <2>1
             DEF FieldsInv, InTime, InUse
        <4>4. CASE thr[u].cred # s
          BY <4>1, <4>2, <4>4, <1>0, <1>1, <2>1 DEF FieldsInv, InUse
        <4> QED
          BY <4>2, <4>3, <4>4
      <3> QED
        BY <3>1, <3>2
    <2> QED
      BY <2>2, <2>3 DEF UseInv
  <1>2. CASE ~found
    <2>1. \/ sessions' = sessions
          \/ /\ s \in SessionIds
             /\ thr[t].tnow - sessions[s].hb > 2 * SessionIdle
             /\ sessions' = [sessions EXCEPT ![s].state = "freed"]
      BY <1>2 DEF FindSession, Forgotten
    <2>2. \E l : thr' = [thr EXCEPT ![t].pc = "route", ![t].level = l]
      BY <1>2 DEF FindSession
    <2>3. FieldsInv'
      BY <1>0, <2>1, <2>2 DEF FieldsInv
    <2>4. ASSUME NEW u \in Threads PROVE InTime(u)' /\ InUse(u)'
      <3>1. CASE u = t
        BY <1>0, <2>2, <3>1 DEF FieldsInv, InTime, InUse
      <3>2. CASE u # t
        <4>1. thr'[u] = thr[u] /\ InTime(u) /\ InUse(u)
          BY <2>2, <3>2, <1>0 DEF UseInv, FieldsInv
        <4>2. InTime(u)'
          BY <4>1, <1>0 DEF InTime
        <4>3. CASE sessions' = sessions
          BY <4>1, <4>2, <4>3 DEF InUse
        <4>4. CASE sessions' # sessions
          <5>1. /\ s \in SessionIds
                /\ thr[t].tnow - sessions[s].hb > 2 * SessionIdle
                /\ sessions' = [sessions EXCEPT ![s].state = "freed"]
            BY <4>4, <2>1
          <5>2. thr[u].pc = "use" => thr[u].cred # s
            BY <4>1, <5>1, <1>0 DEF FieldsInv, InTime, InUse
          <5> QED
            BY <4>1, <4>2, <5>1, <5>2, <1>0 DEF FieldsInv, InUse
        <4> QED
          BY <4>2, <4>3, <4>4
      <3> QED
        BY <3>1, <3>2
    <2> QED
      BY <2>3, <2>4 DEF UseInv
  <1> QED
    BY <1>1, <1>2

(* A thread's own steps.  Most touch the token cache only; the sessions    *)
(* change in FindSession, which frees one only if it has been idle for     *)
(* longer than any request is served.                                      *)
LEMMA ServeStep ==
    ASSUME MaxStall <= SessionIdle, UseInv, NEW t \in Threads, Serve(t)
    PROVE  UseInv'
  <1> USE IdleIsARequest DEF Goto
  <1>0. /\ DOMAIN thr = Threads
        /\ \A u \in Threads : DOMAIN thr[u] = RequestFields
    BY DEF UseInv, FieldsInv
  <1>1. CASE Lookup(t)
    BY <1>0, <1>1, ProceedingIsSafe, GoingOnProceeds DEF Lookup
  <1>2. CASE ClearEnd(t)
    BY <1>0, <1>2, ProceedingIsSafe, GoingOnProceeds DEF ClearEnd
  <1>3. CASE Copy(t)
    <2>1. /\ thr[t].pc # "idle"
          /\ DOMAIN thr' = Threads
          /\ \A u \in Threads \ {t} : thr'[u] = thr[u]
          /\ now' = now /\ world' = world /\ sessions' = sessions
      BY <1>0, <1>3 DEF Copy
    <2>2. /\ DOMAIN thr'[t] = RequestFields
          /\ thr'[t].tnow = thr[t].tnow /\ thr'[t].pc # "use"
      BY <1>0, <1>3 DEF Copy
    <2>3. Proceeds(t)
      BY <2>1, <2>2, GoingOnProceeds
    <2> QED
      BY <2>1, <2>3, ProceedingIsSafe
  <1>4. CASE Expire(t)
    BY <1>0, <1>4, ProceedingIsSafe, GoingOnProceeds DEF Expire
  <1>5. CASE AskProvider(t)
    BY <1>0, <1>5, ProceedingIsSafe, GoingOnProceeds DEF AskProvider
  <1>6. CASE StoreInvalid(t)
    BY <1>0, <1>6, ProceedingIsSafe, GoingOnProceeds DEF StoreInvalid
  <1>7. CASE StoreValid(t)
    BY <1>0, <1>7, ProceedingIsSafe, GoingOnProceeds DEF StoreValid
  <1>8. CASE FindSession(t)
    BY <1>8, FindStep
  <1>9. CASE UseSession(t)
    BY <1>0, <1>9, ProceedingIsSafe, GoingOnProceeds DEF UseSession
  <1> QED
    BY <1>1, <1>2, <1>3, <1>4, <1>5, <1>6, <1>7, <1>8, <1>9 DEF Serve

(* A request comes: it has the time of now.                                *)
LEMMA ArriveStep ==
    ASSUME UseInv, NEW t \in Threads, NEW cred, Arrive(t, cred)
    PROVE  UseInv'
  <1>1. DOMAIN thr = Threads /\ now \in Nat /\ MaxStall \in Nat
    BY ServerConstants DEF UseInv, FieldsInv
  <1>2. Proceeds(t)
    BY <1>1, IdleIsARequest DEF Arrive, Proceeds, Idle
  <1> QED
    BY <1>2, ProceedingIsSafe DEF Arrive

(* A reply ends the request: nothing is used after it.                     *)
LEMMA ReplyStep ==
    ASSUME UseInv, NEW t \in Threads, Reply(t)
    PROVE  UseInv'
  <1>1. DOMAIN thr = Threads
    BY DEF UseInv, FieldsInv
  <1>2. Proceeds(t)
    BY <1>1, IdleIsARequest DEF Reply, Proceeds, Idle
  <1> QED
    BY <1>2, ProceedingIsSafe DEF Reply

(* A session that is made is nobody's yet.                                 *)
LEMMA LoginStep ==
    ASSUME UseInv, NEW t \in Threads, NEW s \in SessionIds, NEW level,
           NEW tenant, Login(t, s, level, tenant)
    PROVE  UseInv'
  BY IdleIsARequest DEF Login, UseInv, FieldsInv, InTime, InUse, None

(* What the world does: time passes only while no request is late, and a   *)
(* crash ends every request with the sessions.                             *)
LEMMA EnvironmentStep ==
    ASSUME UseInv, Environment
    PROVE  UseInv'
  <1>1. CASE Tick
    <2>1. MaxStall \in Nat
      BY ServerConstants
    <2> QED
      BY <1>1, <2>1 DEF Tick, UseInv, FieldsInv, InTime, InUse
  <1>2. ASSUME NEW k \in Tokens, ProviderRevokes(k) PROVE UseInv'
    BY <1>2 DEF ProviderRevokes, UseInv, FieldsInv, InTime, InUse
  <1>3. CASE Crash
    BY <1>3, IdleIsARequest
       DEF Crash, UseInv, FieldsInv, InTime, InUse, Idle, NoSession
  <1> QED
    BY <1>1, <1>2, <1>3 DEF Environment

(* Every step keeps the sessions that are in use.                          *)
LEMMA UseStep ==
    ASSUME MaxStall <= SessionIdle, UseInv, [Next]_vars
    PROVE  UseInv'
  <1>0. CliThread \in Threads /\ world.others \subseteq Threads
    BY CliConstants, ServerConstants DEF UseInv, FieldsInv
  <1>1. ASSUME NEW t \in Threads, Serve(t) PROVE UseInv'
    BY <1>1, ServeStep
  <1>2. CASE Environment
    BY <1>2, EnvironmentStep
  <1>3. ASSUME NEW t \in Threads, OtherRequest(t) \/ Reply(t) PROVE UseInv'
    BY <1>3, ArriveStep, ReplyStep DEF OtherRequest
  <1>4. CASE UNCHANGED serverVars
    BY <1>4 DEF serverVars, UseInv, FieldsInv, InTime, InUse
  <1>5. CASE CliStart
    BY <1>0, <1>4, <1>5, ArriveStep DEF CliStart
  <1>6. CASE CliValidated
    BY <1>0, <1>6, ReplyStep DEF CliValidated
  <1>7. CASE CliLogin
    <2>1. ASSUME NEW k \in Tokens, ProviderIssues(k) PROVE UseInv'
      BY <2>1 DEF ProviderIssues, UseInv, FieldsInv, InTime, InUse
    <2> QED
      BY <1>0, <1>4, <1>7, <2>1, LoginStep DEF CliLogin
  <1>8. CASE CliSend
    BY <1>0, <1>8, ArriveStep DEF CliSend
  <1>9. CASE CliAnswered
    BY <1>0, <1>9, ReplyStep DEF CliAnswered
  <1>10. CASE CliCutOff
    BY <1>4, <1>10 DEF CliCutOff
  <1>11. CASE UNCHANGED vars
    BY <1>4, <1>11 DEF vars
  <1> QED
    BY <1>0, <1>1, <1>2, <1>3, <1>5, <1>6, <1>7, <1>8, <1>9, <1>10, <1>11
       DEF Next

(* A session that authsession_find returned is not freed before it has     *)
(* been read, whatever other requests, logins and crashes come in between. *)
THEOREM SessionsOutliveTheirUse ==
    ASSUME MaxStall <= SessionIdle
    PROVE  Spec => []SessionOutlivesUse
  <1>1. Init => UseInv
    BY IdleIsARequest
       DEF Init, ServerInit, UseInv, FieldsInv, InTime, InUse, Idle, NoSession
  <1>2. UseInv /\ [Next]_vars => UseInv'
    BY UseStep
  <1>3. UseInv => SessionOutlivesUse
    BY DEF UseInv, InUse, SessionOutlivesUse
  <1> QED
    BY <1>1, <1>2, <1>3, PTL DEF Spec

-----------------------------------------------------------------------------
(* Time.                                                                   *)

TimeInv == FieldsInv /\ \A t \in Threads : InTime(t)

(* What serving a request leaves alone.                                    *)
Serving(t) ==
    /\ thr[t].pc # "idle" /\ thr'[t].pc # "idle"
    /\ DOMAIN thr' = Threads
    /\ \A u \in Threads \ {t} : thr'[u] = thr[u]
    /\ DOMAIN thr'[t] = RequestFields
    /\ thr'[t].tnow = thr[t].tnow /\ thr'[t].cred = thr[t].cred
    /\ DOMAIN sessions' = SessionIds
    /\ \A s \in SessionIds :
          /\ DOMAIN sessions'[s] = SessionFields /\ sessions'[s].hb \in Nat
          /\ sessions[s].state # None => sessions'[s].state # None
    /\ UNCHANGED <<now, world, said, before>>

(* A step that leaves the sessions alone.                                  *)
LEMMA ServingWithoutSessions ==
    ASSUME FieldsInv, NEW t \in Threads,
           thr[t].pc # "idle", thr'[t].pc # "idle", DOMAIN thr' = Threads,
           \A u \in Threads \ {t} : thr'[u] = thr[u],
           DOMAIN thr'[t] = RequestFields,
           thr'[t].tnow = thr[t].tnow, thr'[t].cred = thr[t].cred,
           UNCHANGED <<now, world, said, before, sessions>>
    PROVE  Serving(t)
  BY DEF FieldsInv, Serving

(* A thread's own steps keep the request and everybody else's.             *)
LEMMA ServingStep ==
    ASSUME FieldsInv, NEW t \in Threads, Serve(t)
    PROVE  Serving(t)
  <1> USE IdleIsARequest DEF Goto
  <1>0. /\ DOMAIN thr = Threads
        /\ \A u \in Threads : DOMAIN thr[u] = RequestFields
    BY DEF FieldsInv
  <1>1. CASE Lookup(t)
    BY <1>0, <1>1, ServingWithoutSessions DEF Lookup
  <1>2. CASE ClearEnd(t)
    BY <1>0, <1>2, ServingWithoutSessions DEF ClearEnd
  <1>3. CASE Copy(t)
    BY <1>0, <1>3, ServingWithoutSessions DEF Copy
  <1>4. CASE Expire(t)
    BY <1>0, <1>4, ServingWithoutSessions DEF Expire
  <1>5. CASE AskProvider(t)
    BY <1>0, <1>5, ServingWithoutSessions DEF AskProvider
  <1>6. CASE StoreInvalid(t)
    BY <1>0, <1>6, ServingWithoutSessions DEF StoreInvalid
  <1>7. CASE StoreValid(t)
    BY <1>0, <1>7, ServingWithoutSessions DEF StoreValid
  <1>8. CASE FindSession(t)
    BY <1>0, <1>8 DEF FindSession, FieldsInv, Serving, None
  <1>9. CASE UseSession(t)
    BY <1>0, <1>9, ServingWithoutSessions DEF UseSession
  <1> QED
    BY <1>1, <1>2, <1>3, <1>4, <1>5, <1>6, <1>7, <1>8, <1>9 DEF Serve

(* Serving a request takes no time by itself.                              *)
LEMMA ServingKeepsTime ==
    ASSUME TimeInv, NEW t \in Threads, Serving(t)
    PROVE  TimeInv'
  BY DEF TimeInv, FieldsInv, InTime, Serving

(* A request is served for MaxStall at most, whoever it is from.           *)
LEMMA TimeStep ==
    ASSUME TimeInv, [Next]_vars
    PROVE  TimeInv'
  <1> USE IdleIsARequest DEF TimeInv, FieldsInv, InTime
  <1>0. MaxStall \in Nat \ {0} /\ CliThread \in Threads
        /\ world.others \subseteq Threads
    BY CliConstants, ServerConstants
  <1>1. ASSUME NEW t \in Threads, Serve(t) PROVE TimeInv'
    BY <1>1, ServingStep, ServingKeepsTime
  <1>2. ASSUME NEW t \in Threads, NEW cred, Arrive(t, cred) PROVE TimeInv'
    BY <1>0, <1>2 DEF Arrive, Idle
  <1>3. ASSUME NEW t \in Threads, Reply(t) PROVE TimeInv'
    BY <1>3 DEF Reply, Idle
  <1>4. CASE Tick
    BY <1>0, <1>4 DEF Tick
  <1>5. ASSUME NEW k \in Tokens, ProviderRevokes(k) \/ ProviderIssues(k)
        PROVE  TimeInv'
    BY <1>5 DEF ProviderRevokes, ProviderIssues
  <1>6. CASE Crash
    BY <1>6 DEF Crash, Idle, NoSession
  <1>7. ASSUME NEW s \in SessionIds,
               Login(CliThread, s, "USER", CliTenant)
        PROVE  TimeInv'
    BY <1>7 DEF Login
  <1>8. CASE UNCHANGED serverVars
    BY <1>8 DEF serverVars
  <1> HIDE DEF TimeInv
  <1>9. CASE CliStart \/ CliValidated \/ CliLogin \/ CliSend \/ CliAnswered
    BY <1>0, <1>2, <1>3, <1>5, <1>7, <1>8, <1>9
       DEF CliStart, CliValidated, CliLogin, CliSend, CliAnswered
  <1> QED
    BY <1>0, <1>1, <1>2, <1>3, <1>4, <1>5, <1>6, <1>8, <1>9
       DEF Next, OtherRequest, Environment, CliCutOff, vars

-----------------------------------------------------------------------------
(* The routes                                                              *)

(* A request as the clients make them: its url has a first field.          *)
GoodUrl(url) == Len(url) \in Nat \ {0}
GoodRequest(r) == r.method \in ANY /\ GoodUrl(r.url)

(* What Get makes is one: it has the method GET.                           *)
LEMMA GettingIsGood ==
    \A url, reads : GoodUrl(url) => GoodRequest(Get(url, reads))
  BY DEF Get, GoodRequest, ANY, GET

(* So is what Send makes with one of the other methods.                    *)
LEMMA SendingIsGood ==
    \A m \in {"POST", "PUT", "DELETE"} : \A url, body, reads :
        GoodUrl(url) => GoodRequest(Send(m, url, body, reads))
  BY DEF Send, GoodRequest, ANY, GET, UPDATE, POST, PUT, DELETE

(* The urls of the clients' requests have a first field.                   *)
LEMMA UrlsAreGood ==
    /\ \A a : GoodUrl(<<a>>)
    /\ \A a, b : GoodUrl(<<a, b>>)
    /\ \A a, b, c : GoodUrl(<<a, b, c>>)
    /\ \A a, b, c, d : GoodUrl(<<a, b, c, d>>)
    /\ \A a, b, c, d, e, f, g, h : GoodUrl(<<a, b, c, d, e, f, g, h>>)
    /\ \A m \in Meters : \A a, b : GoodUrl(<<a, b>> \o m)
    /\ \A m \in Meters : \A a, b, c, d : GoodUrl(<<a, b, c, d>> \o m)
  BY DEF Meters, GoodUrl

(* What is sent whatever the tenant and the user: list_tenants and the     *)
(* others.                                                                 *)
LEMMA CommonIsGood == \A r \in CommonRequests : GoodRequest(r)
  <1> USE GettingIsGood, SendingIsGood, UrlsAreGood
  <1>1. \A r \in cli_tenant_list \union cli_session_list : GoodRequest(r)
    BY DEF cli_tenant_list, cli_session_list
  <1>2. \A r \in cli_bears \union web_auth : GoodRequest(r)
    BY DEF cli_bears, web_auth
  <1> QED
    BY <1>1, <1>2 DEF CommonRequests

(* What is sent about a host of a tenant.                                  *)
LEMMA HostIsGood ==
    ASSUME NEW t, NEW h
    PROVE  \A r \in HostRequests(t, h) : GoodRequest(r)
  <1> USE GettingIsGood, SendingIsGood, UrlsAreGood
  <1>1. \A r \in cli_remove_host(t, h) \union cli_get_record(t, h)
                 \union cli_watcher_list(t, h) \union web_host(t, h) :
            GoodRequest(r)
    BY DEF cli_remove_host, cli_get_record, cli_watcher_list, web_host,
           cli_print_graph
  <1>2. \A m \in Meters :
            \A r \in cli_watcher_set(t, h, m)
                     \union cli_watcher_delete(t, h, m)
                     \union web_set_watcher(t, h, m) :
                GoodRequest(r)
    BY DEF cli_watcher_set, cli_watcher_delete, web_set_watcher
  <1> QED
    BY <1>1, <1>2 DEF HostRequests

(* What is sent about a tenant, its meters and its hosts.                  *)
LEMMA TenantIsGood ==
    ASSUME NEW t
    PROVE  \A r \in TenantRequests(t) : GoodRequest(r)
  <1> USE GettingIsGood, SendingIsGood, UrlsAreGood
  <1>1. \A r \in cli_tenant_get_metadata(t) \union cli_tenant_set_metadata(t)
                 \union cli_tenant_set_quota(t)
                 \union cli_tenant_get_quota(t) :
            GoodRequest(r)
    BY DEF cli_tenant_get_metadata, cli_tenant_set_metadata,
           cli_tenant_set_quota, cli_tenant_get_quota
  <1>2. \A r \in cli_tenant_get_summary(t) \union cli_host_overview(t)
                 \union cli_meter_list(t) \union cli_tenant_delete(t) :
            GoodRequest(r)
    BY DEF cli_tenant_get_summary, cli_host_overview, cli_meter_list,
           cli_tenant_delete
  <1>3. \A r \in cli_tenant_create(t) \union cli_host_list(t) : GoodRequest(r)
    BY DEF cli_tenant_create, cli_host_list
  <1>4. \A r \in cli_main(t) : GoodRequest(r)
    BY <1>2 DEF cli_main
  <1>5. \A r \in web_tenant(t) : GoodRequest(r)
    BY DEF web_tenant
  <1>6. \A m \in Meters :
            \A r \in cli_meter_create(t, m) \union cli_meter_delete(t, m) :
                GoodRequest(r)
    BY DEF cli_meter_create, cli_meter_delete
  <1>7. \A h \in Hosts : \A r \in HostRequests(t, h) : GoodRequest(r)
    BY HostIsGood
  <1> QED
    BY <1>1, <1>2, <1>3, <1>4, <1>5, <1>6, <1>7 DEF TenantRequests

(* What the clients send has a url and one of the methods there are.       *)
LEMMA RequestsAreGood == \A r \in ClientRequests : GoodRequest(r)
  <1>1. \A u : \A r \in UserRequests(u) : GoodRequest(r)
    BY GettingIsGood, SendingIsGood, UrlsAreGood
       DEF UserRequests, cli_user_create, cli_user_set_tenant,
           cli_user_set_password, cli_user_delete
  <1> QED
    BY <1>1, CommonIsGood, TenantIsGood DEF ClientRequests

(* The dispatcher takes the first entry that matches: a set of positions   *)
(* has a least one.                                                        *)
LEMMA LeastOf ==
    ASSUME NEW S \in SUBSET Nat, S # {}
    PROVE  Min(S) \in S /\ \A x \in S : Min(S) <= x
  <1>1. \E n \in S : \A m \in S : n <= m
    <2>1. PICK x \in S : \A y \in S : ~(<<y, x>> \in OpToRel(<, Nat))
      BY NatLessThanWellFounded, WFMin
    <2>2. \A y \in S : ~(y < x)
      BY <2>1 DEF OpToRel
    <2> QED
      BY <2>2
  <1> QED
    BY <1>1 DEF Min

(* The list begins with two filters that everyone goes through, and what   *)
(* is not about a tenant.                                                  *)
LEMMA Filters ==
    /\ DOMAIN Routes = 1 .. 57
    /\ Routes[2].func = "flt_add_cors"
    /\ Routes[4] = R(<<"*">>, ANY, "flt_check_validuser")
    /\ Routes[16] = R(<<"%U", "*">>, ANY, "flt_check_tenant")
  BY DEF Routes, R

(* A pattern's first token takes the first field of a url.                 *)
LEMMA FirstField ==
    ASSUME NEW pat, NEW url, Len(pat) \in Nat \ {0}, pat[1] # "*",
           pat # <<"any*">>, Matches(pat, url)
    PROVE  Accepts(pat[1], url[1])
  <1>1. pat # <<"*">>
    OBVIOUS
  <1>2. CASE pat[Len(pat)] = "*"
    <2>1. Len(pat) # 1
      BY <1>2
    <2>2. 1 \in 1 .. Len(pat) - 1
      BY <2>1
    <2> QED
      BY <1>1, <1>2, <2>2 DEF Matches
  <1>3. CASE pat[Len(pat)] # "*"
    BY <1>1, <1>3 DEF Matches
  <1> QED
    BY <1>2, <1>3

(* The empty field is none of the words and names.                         *)
LEMMA EmptyIsNoWord ==
    /\ Empty # "user" /\ Empty # "any" /\ Empty # "anyone" /\ Empty # "login"
    /\ Empty # "token" /\ Empty # "session"
    /\ Empty # "obligatory-dancing-bears" /\ Empty # "*" /\ Empty # "any*"
    /\ Empty # "%s" /\ Empty # "%S" /\ Empty # "%U" /\ Empty # "%T"
    /\ Empty # "%i" /\ Empty # "pcpu" /\ Empty # "net"
    /\ Empty # "in_kbs" /\ Empty # "cpu" /\ Empty # "usage"
  BY Zenon DEF Empty

(* A pattern that begins with a word.                                      *)
WordPattern(pat) ==
    \/ pat = <<"any*">>
    \/ /\ Len(pat) \in Nat \ {0} /\ pat # <<"any*">>
       /\ pat[1] \in FirstWords

(* Patterns of up to four fields that begin with a word.                   *)
LEMMA PatternsOfWords ==
    ASSUME NEW w \in FirstWords
    PROVE  /\ WordPattern(<<w>>)
           /\ \A a : WordPattern(<<w, a>>)
           /\ \A a, b : WordPattern(<<w, a, b>>)
           /\ \A a, b, c : WordPattern(<<w, a, b, c>>)
  <1>1. WordPattern(<<w>>)
    BY DEF WordPattern
  <1>2. \A a : WordPattern(<<w, a>>)
    BY DEF WordPattern
  <1>3. \A a, b : WordPattern(<<w, a, b>>)
    BY DEF WordPattern
  <1>4. \A a, b, c : WordPattern(<<w, a, b, c>>)
    BY DEF WordPattern
  <1> QED
    BY <1>1, <1>2, <1>3, <1>4

(* Before the filter for tenants all entries but the two filters begin     *)
(* with a word, which is no tenant.                                        *)
LEMMA WordPatterns ==
    ASSUME NEW i \in {1, 3} \cup 5 .. 15
    PROVE  WordPattern(Routes[i].pat)
  <1>1. \A w \in {Empty, "any", "login", "obligatory-dancing-bears", "session",
                  "token", "user"} : w \in FirstWords
    BY DEF FirstWords, AnyWords
  <1>2. /\ Routes[1].pat = <<"obligatory-dancing-bears">>
        /\ Routes[3].pat = <<"login">>
        /\ Routes[5].pat = <<Empty>> /\ Routes[6].pat = <<Empty>>
    BY DEF Routes, R
  <1>3. /\ Routes[7].pat = <<"token">>
        /\ Routes[8].pat = <<"session">> /\ Routes[9].pat = <<"session">>
    BY DEF Routes, R
  <1>4. /\ Routes[10].pat = <<"user", "%s">>
        /\ Routes[11].pat = <<"user", "%s">>
        /\ Routes[12].pat = <<"any*">>
    BY DEF Routes, R
  <1>5. Routes[13].pat = <<"any", "host", "overview">>
    BY DEF Routes, R
  <1>6. Routes[14].pat = <<"any", "host", "%U">>
    BY DEF Routes, R
  <1>7. Routes[15].pat = <<"any", "host", "%U", "tenant">>
    BY DEF Routes, R
  <1>8. /\ WordPattern(Routes[1].pat) /\ WordPattern(Routes[3].pat)
        /\ WordPattern(Routes[5].pat) /\ WordPattern(Routes[6].pat)
        /\ WordPattern(Routes[7].pat) /\ WordPattern(Routes[8].pat)
        /\ WordPattern(Routes[9].pat)
    BY <1>1, <1>2, <1>3, PatternsOfWords
  <1>9. /\ WordPattern(Routes[10].pat) /\ WordPattern(Routes[11].pat)
        /\ WordPattern(Routes[12].pat) /\ WordPattern(Routes[13].pat)
        /\ WordPattern(Routes[14].pat) /\ WordPattern(Routes[15].pat)
    <2>1. WordPattern(<<"any*">>)
      BY DEF WordPattern
    <2> QED
      BY <1>1, <1>4, <1>5, <1>6, <1>7, <2>1, PatternsOfWords
  <1> QED
    BY <1>8, <1>9

(* It takes urls that begin with one.                                      *)
LEMMA WordsComeFirst ==
    ASSUME NEW pat, NEW url, WordPattern(pat), Matches(pat, url)
    PROVE  url[1] \in FirstWords
  <1>1. CASE pat = <<"any*">>
    BY <1>1 DEF Matches, FirstWords, AnyWords
  <1>2. CASE pat # <<"any*">>
    BY <1>2, FirstField, EmptyIsNoWord
       DEF WordPattern, Accepts, FirstWords, AnyWords
  <1> QED
    BY <1>1, <1>2

(* Whoever gets past the filters to a tenant's pages has not been turned   *)
(* away, and has the tenant or a level above tenants.                      *)
LEMMA PagesAreGuarded ==
    ASSUME NEW ctx, NEW u \in Tenants, <<ctx, u>> \in Reaches
    PROVE  /\ ~ctx.rejected
           /\ ctx.level \in {"ADMIN", "PROV"} \/ u \in ctx.tenants
  <1>1. PICK x \in Contexts \X ClientRequests :
            /\ <<ctx, u>> = <<x[1], x[2].url[1]>>
            /\ Dispatch(x[2], x[1]) \notin Errors
    BY DEF Reaches
  <1> DEFINE req == x[2]
             hits == {i \in DOMAIN Routes :
                         /\ req.method \in Routes[i].mask
                         /\ Matches(Routes[i].pat, req.url)
                         /\ Answers(Routes[i].func, req, ctx)}
             first == Min(hits)
  <1>2. /\ x[1] = ctx /\ req.url[1] = u
        /\ req.method \in ANY /\ Len(req.url) \in Nat \ {0}
    BY <1>1, RequestsAreGood DEF GoodRequest, GoodUrl
  <1>3. hits # {} /\ Routes[first].func \notin Errors
    BY <1>1, <1>2, Zenon DEF Dispatch, Errors
  <1>4. hits \in SUBSET Nat
    BY Filters
  <1>5. first \in hits /\ \A i \in hits : first <= i
    BY <1>3, <1>4, LeastOf
  <1>6. u \notin FirstWords
    BY RouteConstants DEF Uuids
  <1>7. first \notin {1, 3} \cup 5 .. 15
    <2> SUFFICES ASSUME NEW i \in {1, 3} \cup 5 .. 15, i = first
                 PROVE  FALSE
      OBVIOUS
    <2>1. Matches(Routes[i].pat, req.url)
      BY <1>5, Zenon
    <2> QED
      BY <1>2, <1>6, <2>1, WordPatterns, WordsComeFirst, Zenon
  <1>8. /\ Routes[2].func \in Errors /\ Routes[4].func \in Errors
        /\ Routes[16].func \in Errors
    BY Filters DEF R, Errors
  <1>9. first \in 1 .. 57 /\ (4 \in hits => first <= 4)
        /\ (16 \in hits => first <= 16)
    BY <1>5, Filters, Zenon
  <1>10. 4 \notin hits /\ 16 \notin hits
    <2> HIDE DEF hits, first
    <2> QED
      BY <1>3, <1>7, <1>8, <1>9
  <1>11. ~ctx.rejected
    <2>1. Matches(Routes[4].pat, req.url)
      BY Filters DEF R, Matches
    <2>2. 4 \in DOMAIN Routes /\ req.method \in Routes[4].mask
      BY <1>2, Filters DEF R
    <2>3. ~Answers("flt_check_validuser", req, ctx)
      BY <1>10, <2>1, <2>2, Filters DEF R
    <2> QED
      BY <2>3 DEF Answers
  <1>12. ~flt_check_tenant(req, ctx)
    <2>1. Accepts("%U", req.url[1])
      BY <1>2 DEF Accepts, Uuids
    <2>2. Matches(Routes[16].pat, req.url)
      BY <1>2, <2>1, Filters DEF R, Matches
    <2>3. 16 \in DOMAIN Routes /\ req.method \in Routes[16].mask
      BY <1>2, Filters DEF R
    <2>4. ~Answers("flt_check_tenant", req, ctx)
      BY <1>10, <2>2, <2>3, Filters DEF R
    <2> QED
      BY <2>4 DEF Answers
  <1> QED
    BY <1>2, <1>11, <1>12 DEF flt_check_tenant

-----------------------------------------------------------------------------
(* Rights                                                                  *)

ProviderSays == [tenants : SUBSET Tenants,
            role : {"none", "ADMIN", "PROVISIONING"}]
Lists == (SUBSET Tenants) \union {Garbage}
Cells == [token : Tokens \union {None}, level : Levels, tenants : Lists,
          ctime : Nat, freed : BOOLEAN]

(* What an answer is worth with the method m.                              *)
WorthIn(m, data) ==
    CASE m = "unithost" /\ data.role = "ADMIN"        -> "ADMIN"
      [] m = "unithost" /\ data.role = "PROVISIONING" -> "PROV"
      [] m # "internal" /\ data.tenants # {}          -> "USER"
      [] OTHER                                        -> "GUEST"

(* A level and a list are what the provider says, s, or what it said       *)
(* before, b, until at or after the time.                                  *)
Vouched(m, s, b, level, tenants, at) ==
    /\ level # "GUEST"
    /\ \/ level = WorthIn(m, s) /\ tenants \in {s.tenants, Garbage}
       \/ /\ level = WorthIn(m, b.what) /\ at <= b.until
          /\ tenants \in {b.what.tenants, Garbage}

(* A node is empty, or what it holds was true when the request came that   *)
(* stored it.                                                              *)
CellRight(m, s, b, n, at) ==
    \/ n = Cleared
    \/ /\ n.token \in Tokens /\ n.ctime <= at
       /\ Vouched(m, s[n.token], b[n.token], n.level, n.tenants,
                  n.ctime - MaxStall)

CacheStates == {"lookup", "clear", "copy", "expire", "provider",
                "store_valid", "store_invalid"}

(* The node a request is about to copy is its token's and was fresh when   *)
(* it came, or has been cleared since.                                     *)
Copied(cells, r) ==
    /\ r.node \in DOMAIN cells
    /\ \/ cells[r.node] = Cleared
       \/ /\ cells[r.node].token = r.cred
          /\ Fresh(cells[r.node], TimeoutValid, r.tnow)

(* A request that is not rejected has what the provider said when it came, *)
(* or a cache lifetime and another request before that.                    *)
RequestRight(m, s, b, cells, r) ==
    /\ r.pc \in CacheStates => r.cred \in Tokens
    /\ r.pc \in {"find", "use"} => r.cred \notin Tokens
    /\ r.pc = "copy" => Copied(cells, r)
    /\ r.pc = "store_valid" =>
          Vouched(m, s[r.cred], b[r.cred], r.level, r.tenants, r.tnow)
    /\ r.pc = "store_invalid" => r.rejected
    /\ r.pc \in {"expire", "route"} /\ r.cred \in Tokens =>
          \/ r.rejected
          \/ Vouched(m, s[r.cred], b[r.cred], r.level, r.tenants,
                     r.tnow - TimeoutValid - MaxStall + 1)

SaidInv ==
    /\ said \in [Tokens -> ProviderSays]
    /\ before \in [Tokens -> [what : ProviderSays, until : Nat]]

NodesInv ==
    /\ nodes \in Seq(Cells)
    /\ \A i \in DOMAIN nodes :
          CellRight(world.method, said, before, nodes[i], now)

RightInv(t) == RequestRight(world.method, said, before, nodes, thr[t])

RightsInv ==
    TimeInv /\ SaidInv /\ NodesInv /\ \A t \in Threads : RightInv(t)

(* What an answer is worth is a level, and no answer is worth nothing.     *)
LEMMA WorthIsALevel ==
    /\ \A m, data : WorthIn(m, data) \in Levels
    /\ \A m : WorthIn(m, Unknown) = "GUEST"
    /\ \A data : Worth(data) = WorthIn(world.method, data)
  BY DEF WorthIn, Worth, Levels, Unknown

(* The records that are made are answers and nodes.                        *)
LEMMA RecordTypes ==
    /\ Unknown \in ProviderSays /\ Cleared \in Cells
    /\ NotYet \in [what : ProviderSays, until : Nat]
    /\ Cleared.ctime = 0 /\ Cleared.token = None
    /\ Cleared.level = "GUEST" /\ Cleared.tenants = {}
    /\ None \notin Tokens /\ AdminToken \notin Tokens
    /\ \A k \in Tokens : Issued[k] \in ProviderSays
    /\ TimeoutValid \in Nat \ {0} /\ MaxStall \in Nat \ {0}
  BY ServerConstants, CredentialsAssumption
     DEF Unknown, ProviderSays, Cleared, Cells, NotYet, Levels, Lists

(* What was vouched for was so at any earlier time.                        *)
LEMMA VouchedEarlier ==
    ASSUME NEW m, NEW s, NEW b, b.until \in Nat, NEW level, NEW tenants,
           NEW at \in Int, NEW early \in Int, early <= at,
           Vouched(m, s, b, level, tenants, at)
    PROVE  Vouched(m, s, b, level, tenants, early)
  BY DEF Vouched

(* It has a level and a list of tenants.                                   *)
LEMMA VouchedTypes ==
    ASSUME NEW m, NEW s \in ProviderSays, NEW b, b.what \in ProviderSays,
           NEW level, NEW tenants, NEW at, Vouched(m, s, b, level, tenants, at)
    PROVE  level \in Levels /\ tenants \in Lists
  BY WorthIsALevel DEF Vouched, ProviderSays, Lists

(* When the provider revokes a token, what it said becomes what it said    *)
(* before.                                                                 *)
LEMMA VouchedBefore ==
    ASSUME NEW m, NEW s, NEW level, NEW tenants, NEW at \in Int,
           NEW t \in Nat, at <= t, Vouched(m, s, NotYet, level, tenants, at)
    PROVE  Vouched(m, Unknown, [what |-> s, until |-> t], level, tenants, at)
  BY WorthIsALevel DEF Vouched, NotYet

(* Nothing is vouched for before the provider has said anything.           *)
LEMMA NothingVouched ==
    ASSUME NEW m, NEW level, NEW tenants, NEW at
    PROVE  ~Vouched(m, Unknown, NotYet, level, tenants, at)
  BY WorthIsALevel DEF Vouched, NotYet

(* The first node of a token is one of its nodes.                          *)
LEMMA HitIsRight ==
    ASSUME NEW cells, DOMAIN cells \in SUBSET Nat, NEW k,
           HitIn(cells, k) # 0
    PROVE  /\ HitIn(cells, k) \in DOMAIN cells
           /\ cells[HitIn(cells, k)].token = k
  <1> DEFINE hits == {i \in DOMAIN cells : cells[i].token = k}
  <1>1. hits # {} /\ HitIn(cells, k) = Min(hits)
    BY DEF HitIn
  <1>2. Min(hits) \in hits
    BY <1>1, LeastOf
  <1> QED
    BY <1>1, <1>2

(* Nodes that were only cleared, or marked as being cleared.               *)
Kept(cells, later) ==
    \A i \in DOMAIN cells :
        /\ i \in DOMAIN later
        /\ \/ later[i] \in {cells[i], Cleared}
           \/ /\ cells[i] # Cleared
              /\ later[i].token = cells[i].token
              /\ later[i].ctime = cells[i].ctime

(* A request that is not copying a node depends on none, and one that is   *)
(* copies a cleared one at worst.                                          *)
LEMMA RequestKept ==
    ASSUME NEW m, NEW s, NEW b, NEW cells, NEW later, NEW r,
           RequestRight(m, s, b, cells, r),
           r.pc # "copy" \/ Kept(cells, later)
    PROVE  RequestRight(m, s, b, later, r)
  <1>1. r.pc = "copy" => Copied(later, r)
    BY DEF RequestRight, Copied, Kept, Fresh
  <1> QED
    BY <1>1 DEF RequestRight

(* A thread that serves its own request keeps everything right when the    *)
(* nodes it leaves are right, and only cleared while others read them.     *)
LEMMA ServedRight ==
    ASSUME RightsInv, TimeInv', NEW t \in Threads, Serving(t),
           nodes' \in Seq(Cells),
           \A i \in DOMAIN nodes' :
              CellRight(world.method, said, before, nodes'[i], now),
           \/ \A u \in Threads \ {t} : thr[u].pc # "copy"
           \/ Kept(nodes, nodes'),
           RequestRight(world.method, said, before, nodes', thr'[t])
    PROVE  RightsInv'
  <1>1. UNCHANGED <<now, world, said, before>>
    BY DEF Serving
  <1>2. SaidInv' /\ NodesInv'
    BY <1>1 DEF RightsInv, SaidInv, NodesInv
  <1>3. ASSUME NEW u \in Threads PROVE RightInv(u)'
    <2>1. CASE u = t
      BY <1>1, <2>1 DEF RightInv
    <2>2. CASE u # t
      <3>1. thr'[u] = thr[u]
        BY <2>2 DEF Serving
      <3>2. RequestRight(world.method, said, before, nodes, thr[u])
        BY DEF RightsInv, RightInv
      <3>3. RequestRight(world.method, said, before, nodes', thr[u])
        BY <2>2, <3>2, RequestKept
      <3> QED
        BY <1>1, <3>1, <3>3 DEF RightInv
    <2> QED
      BY <2>1, <2>2
  <1> QED
    BY <1>2, <1>3 DEF RightsInv

(* A step that leaves the nodes alone.                                     *)
LEMMA NodesLeftAlone ==
    ASSUME RightsInv, TimeInv', NEW t \in Threads, Serving(t),
           nodes' = nodes,
           RequestRight(world.method, said, before, nodes, thr'[t])
    PROVE  RightsInv'
  <1>1. Kept(nodes, nodes)
    BY DEF Kept
  <1> QED
    BY <1>1, ServedRight DEF RightsInv, NodesInv

(* Clearing nodes leaves the rest right.                                   *)
LEMMA ClearedRight ==
    ASSUME NodesInv, NEW later, DOMAIN later = DOMAIN nodes,
           \A i \in DOMAIN nodes : later[i] \in {nodes[i], Cleared},
           later = [i \in DOMAIN nodes |-> later[i]]
    PROVE  /\ later \in Seq(Cells)
           /\ \A i \in DOMAIN later :
                 CellRight(world.method, said, before, later[i], now)
           /\ Kept(nodes, later)
  <1>1. \A i \in DOMAIN nodes : later[i] \in Cells
    BY RecordTypes DEF NodesInv
  <1>2. later \in Seq(Cells)
    BY <1>1 DEF NodesInv
  <1> QED
    BY <1>2 DEF NodesInv, CellRight, Kept

(* What is known of a request and of the nodes while it is served.         *)
LEMMA ServedRequest ==
    ASSUME RightsInv, NEW t \in Threads, Serve(t)
    PROVE  /\ FieldsInv /\ TimeInv' /\ Serving(t)
           /\ DOMAIN thr = Threads /\ DOMAIN thr[t] = RequestFields
           /\ thr[t].tnow \in Nat /\ now \in Nat
           /\ thr[t].tnow <= now /\ now <= thr[t].tnow + MaxStall
           /\ DOMAIN nodes \in SUBSET Nat
           /\ nodes \in [DOMAIN nodes -> Cells]
           /\ RequestRight(world.method, said, before, nodes, thr[t])
  <1>1. TimeInv /\ FieldsInv /\ nodes \in Seq(Cells)
    BY DEF RightsInv, NodesInv, TimeInv
  <1>2. Serving(t)
    BY <1>1, ServingStep
  <1>3. TimeInv'
    BY <1>1, <1>2, ServingKeepsTime
  <1> QED
    BY <1>1, <1>2, <1>3
       DEF RightsInv, RightInv, TimeInv, FieldsInv, InTime, Serving

(* The scan: a request goes on to copy a node of its token that is fresh,  *)
(* or marks a stale one, or is rejected.                                   *)
LEMMA LookupRight ==
    ASSUME RightsInv, NEW t \in Threads, Lookup(t)
    PROVE  RightsInv'
  <1> DEFINE i == HitIn(nodes, thr[t].cred)
  <1> USE IdleIsARequest DEF Goto
  <1>0. Serve(t)
    BY DEF Serve
  <1>1. /\ TimeInv' /\ Serving(t)
        /\ DOMAIN thr = Threads /\ DOMAIN thr[t] = RequestFields
        /\ DOMAIN nodes \in SUBSET Nat /\ nodes \in [DOMAIN nodes -> Cells]
        /\ RequestRight(world.method, said, before, nodes, thr[t])
    BY <1>0, ServedRequest
  <1>2. thr[t].pc = "lookup" /\ thr[t].cred \in Tokens
    BY <1>1 DEF Lookup, RequestRight, CacheStates
  <1>3. i # 0 => i \in DOMAIN nodes /\ nodes[i].token = thr[t].cred
    BY <1>1, HitIsRight
  <1> HIDE DEF i
  <1>4. CASE /\ thr' = [thr EXCEPT ![t].pc = "expire", ![t].rejected = TRUE]
             /\ nodes' = nodes
    <2>1. RequestRight(world.method, said, before, nodes, thr'[t])
      BY <1>1, <1>2, <1>4 DEF RequestRight, CacheStates
    <2> QED
      BY <1>1, <1>4, <2>1, NodesLeftAlone
  <1>5. CASE thr' = [thr EXCEPT ![t].pc = "provider"] /\ nodes' = nodes
    <2>1. RequestRight(world.method, said, before, nodes, thr'[t])
      BY <1>1, <1>2, <1>5 DEF RequestRight, CacheStates
    <2> QED
      BY <1>1, <1>5, <2>1, NodesLeftAlone
  <1>6. CASE /\ i # 0 /\ Fresh(nodes[i], TimeoutValid, thr[t].tnow)
             /\ thr' = [thr EXCEPT ![t].pc = "copy", ![t].node = i]
             /\ nodes' = nodes
    <2>1. /\ thr'[t].pc = "copy" /\ thr'[t].node = i
          /\ thr'[t].cred = thr[t].cred /\ thr'[t].tnow = thr[t].tnow
      BY <1>1, <1>6
    <2>2. Copied(nodes, thr'[t])
      BY <1>3, <1>6, <2>1 DEF Copied
    <2>3. RequestRight(world.method, said, before, nodes, thr'[t])
      BY <1>2, <2>1, <2>2 DEF RequestRight, CacheStates
    <2> QED
      BY <1>1, <1>6, <2>3, NodesLeftAlone
  <1>7. CASE /\ i # 0
             /\ thr' = [thr EXCEPT ![t].pc = "clear", ![t].node = i]
             /\ nodes' = [nodes EXCEPT ![i].freed = TRUE]
    <2>1. RequestRight(world.method, said, before, nodes', thr'[t])
      BY <1>1, <1>2, <1>7 DEF RequestRight, CacheStates
    <2>2. /\ i \in DOMAIN nodes /\ nodes[i] \in Cells
          /\ nodes[i].token \in Tokens /\ nodes[i] # Cleared
      BY <1>1, <1>2, <1>3, <1>7, RecordTypes
    <2>3. /\ nodes'[i] \in Cells
          /\ nodes'[i].token = nodes[i].token
          /\ nodes'[i].ctime = nodes[i].ctime
          /\ nodes'[i].level = nodes[i].level
          /\ nodes'[i].tenants = nodes[i].tenants
          /\ \A j \in DOMAIN nodes : j # i => nodes'[j] = nodes[j]
          /\ DOMAIN nodes' = DOMAIN nodes
      BY <1>7, <2>2 DEF Cells
    <2>4. nodes \in Seq(Cells)
      BY DEF RightsInv, NodesInv
    <2>5. nodes' \in Seq(Cells)
      BY <1>7, <2>2, <2>3, <2>4
    <2>6. CellRight(world.method, said, before, nodes'[i], now)
      BY <2>2, <2>3 DEF RightsInv, NodesInv, CellRight
    <2>7. \A j \in DOMAIN nodes' :
             CellRight(world.method, said, before, nodes'[j], now)
      BY <2>3, <2>6 DEF RightsInv, NodesInv
    <2>8. Kept(nodes, nodes')
      BY <2>2, <2>3 DEF Kept
    <2> QED
      BY <1>1, <2>1, <2>5, <2>7, <2>8, ServedRight
  <1> QED
    BY <1>4, <1>5, <1>6, <1>7 DEF Lookup, i

(* The end of a clear: whoever copies that node finds it cleared.          *)
LEMMA ClearEndRight ==
    ASSUME RightsInv, NEW t \in Threads, ClearEnd(t)
    PROVE  RightsInv'
  <1> USE IdleIsARequest DEF Goto
  <1>1. /\ TimeInv' /\ Serving(t)
        /\ DOMAIN thr = Threads /\ DOMAIN thr[t] = RequestFields
        /\ RequestRight(world.method, said, before, nodes, thr[t])
    BY ServedRequest DEF Serve
  <1>2. /\ DOMAIN nodes' = DOMAIN nodes
        /\ \A i \in DOMAIN nodes : nodes'[i] \in {nodes[i], Cleared}
        /\ nodes' = [i \in DOMAIN nodes |-> nodes'[i]]
    BY DEF ClearEnd
  <1>3. /\ nodes' \in Seq(Cells)
        /\ \A i \in DOMAIN nodes' :
              CellRight(world.method, said, before, nodes'[i], now)
        /\ Kept(nodes, nodes')
    BY <1>2, ClearedRight DEF RightsInv
  <1>4. RequestRight(world.method, said, before, nodes', thr'[t])
    BY <1>1 DEF ClearEnd, RequestRight, CacheStates
  <1> QED
    BY <1>1, <1>3, <1>4, ServedRight

(* The copy: what the node holds was true a cache lifetime before at most, *)
(* and an empty one rejects.                                               *)
LEMMA CopyRight ==
    ASSUME RightsInv, NEW t \in Threads, Copy(t)
    PROVE  RightsInv'
  <1> DEFINE n == nodes[thr[t].node]
             k == thr[t].cred
             m == world.method
  <1> USE IdleIsARequest DEF Goto
  <1>1. /\ TimeInv' /\ Serving(t)
        /\ DOMAIN thr = Threads /\ DOMAIN thr[t] = RequestFields
        /\ nodes \in [DOMAIN nodes -> Cells] /\ thr[t].tnow \in Nat
        /\ RequestRight(m, said, before, nodes, thr[t])
    BY ServedRequest DEF Serve
  <1>2. thr[t].pc = "copy" /\ k \in Tokens /\ Copied(nodes, thr[t])
    BY <1>1 DEF Copy, RequestRight, CacheStates
  <1>3. n \in Cells /\ CellRight(m, said, before, n, now)
    BY <1>1, <1>2 DEF RightsInv, NodesInv, Copied
  <1>4. CASE n = Cleared
    <2>0. /\ n.tenants = {} /\ (n.level = "GUEST") = TRUE
          /\ thr' = [thr EXCEPT ![t].pc = "expire", ![t].level = n.level,
                                ![t].tenants = n.tenants,
                                ![t].rejected = n.level = "GUEST"]
      BY <1>4, RecordTypes DEF Copy
    <2>1. /\ thr'[t].pc = "expire" /\ thr'[t].rejected
          /\ thr'[t].cred = k
      BY <1>1, <2>0
    <2>2. RequestRight(m, said, before, nodes, thr'[t])
      BY <1>2, <2>1 DEF RequestRight, CacheStates
    <2> QED
      BY <1>1, <2>2, NodesLeftAlone DEF Copy
  <1>5. CASE n # Cleared
    <2>1. /\ n.token = k /\ n.ctime + TimeoutValid > thr[t].tnow
          /\ n.ctime \in Nat
          /\ Vouched(m, said[k], before[k], n.level, n.tenants,
                     n.ctime - MaxStall)
      BY <1>2, <1>3, <1>5 DEF Copied, Fresh, CellRight, Cells
    <2>2. /\ thr'[t].pc = "expire" /\ thr'[t].level = n.level
          /\ thr'[t].tenants \in {n.tenants, Garbage}
          /\ thr'[t].cred = k /\ thr'[t].tnow = thr[t].tnow
      BY <1>1 DEF Copy
    <2>3. Vouched(m, said[k], before[k], thr'[t].level, thr'[t].tenants,
                  n.ctime - MaxStall)
      BY <2>1, <2>2 DEF Vouched
    <2>4. /\ before[k].until \in Nat
          /\ n.ctime - MaxStall \in Int
          /\ thr[t].tnow - TimeoutValid - MaxStall + 1 \in Int
          /\ thr[t].tnow - TimeoutValid - MaxStall + 1 <= n.ctime - MaxStall
      <3> HIDE DEF n, k
      <3>1. before[k].until \in Nat
        BY <1>2 DEF RightsInv, SaidInv
      <3> QED
        BY <1>1, <2>1, <3>1, RecordTypes
    <2>5. Vouched(m, said[k], before[k], thr'[t].level, thr'[t].tenants,
                  thr[t].tnow - TimeoutValid - MaxStall + 1)
      BY <2>3, <2>4, VouchedEarlier
    <2>6. RequestRight(m, said, before, nodes, thr'[t])
      BY <1>2, <2>2, <2>5 DEF RequestRight, CacheStates
    <2> QED
      BY <1>1, <2>6, NodesLeftAlone DEF Copy
  <1> QED
    BY <1>4, <1>5

(* Stale nodes are cleared while nobody reads them.                        *)
LEMMA ExpireRight ==
    ASSUME RightsInv, NEW t \in Threads, Expire(t)
    PROVE  RightsInv'
  <1> USE IdleIsARequest DEF Goto
  <1>1. /\ TimeInv' /\ Serving(t)
        /\ DOMAIN thr = Threads /\ DOMAIN thr[t] = RequestFields
        /\ RequestRight(world.method, said, before, nodes, thr[t])
    BY ServedRequest DEF Serve
  <1>2. /\ DOMAIN nodes' = DOMAIN nodes
        /\ \A i \in DOMAIN nodes : nodes'[i] \in {nodes[i], Cleared}
        /\ nodes' = [i \in DOMAIN nodes |-> nodes'[i]]
    <2>1. nodes = [i \in DOMAIN nodes |-> nodes[i]]
      BY DEF RightsInv, NodesInv
    <2> QED
      BY <2>1 DEF Expire, DropStale
  <1>3. /\ nodes' \in Seq(Cells)
        /\ \A i \in DOMAIN nodes' :
              CellRight(world.method, said, before, nodes'[i], now)
        /\ Kept(nodes, nodes')
    BY <1>2, ClearedRight DEF RightsInv
  <1>4. RequestRight(world.method, said, before, nodes', thr'[t])
    BY <1>1 DEF Expire, RequestRight, CacheStates
  <1> QED
    BY <1>1, <1>3, <1>4, ServedRight

(* What the provider answers is what it says now; no answer is a refusal.  *)
LEMMA AskProviderRight ==
    ASSUME RightsInv, NEW t \in Threads, AskProvider(t)
    PROVE  RightsInv'
  <1> DEFINE k == thr[t].cred
             m == world.method
  <1> USE IdleIsARequest
  <1>1. /\ TimeInv' /\ Serving(t)
        /\ DOMAIN thr = Threads /\ DOMAIN thr[t] = RequestFields
        /\ RequestRight(m, said, before, nodes, thr[t])
    BY ServedRequest DEF Serve
  <1>2. k \in Tokens
    BY <1>1 DEF AskProvider, RequestRight, CacheStates
  <1>3. PICK data \in {said[k], Unknown} :
            thr' = [thr EXCEPT
                      ![t].pc = IF Worth(data) = "GUEST" THEN "store_invalid"
                                ELSE "store_valid",
                      ![t].level = Worth(data),
                      ![t].rejected = Worth(data) = "GUEST",
                      ![t].tenants = IF Worth(data) = "GUEST" THEN {}
                                     ELSE data.tenants]
    BY DEF AskProvider
  <1>4. thr'[t].cred = k
    BY <1>1, <1>3
  <1>5. CASE Worth(data) = "GUEST"
    <2>1. thr'[t].pc = "store_invalid" /\ thr'[t].rejected
      BY <1>1, <1>3, <1>5
    <2>2. RequestRight(m, said, before, nodes, thr'[t])
      BY <1>2, <1>4, <2>1 DEF RequestRight, CacheStates
    <2> QED
      BY <1>1, <2>2, NodesLeftAlone DEF AskProvider
  <1>6. CASE Worth(data) # "GUEST"
    <2>1. data = said[k]
      BY <1>3, <1>6, WorthIsALevel
    <2>2. /\ thr'[t].pc = "store_valid" /\ thr'[t].level = Worth(said[k])
          /\ thr'[t].tenants = said[k].tenants
      BY <1>1, <1>3, <1>6, <2>1
    <2>3. Vouched(m, said[k], before[k], thr'[t].level, thr'[t].tenants,
                  thr'[t].tnow)
      BY <1>6, <2>1, <2>2, WorthIsALevel DEF Vouched
    <2>4. RequestRight(m, said, before, nodes, thr'[t])
      BY <1>2, <1>4, <2>2, <2>3 DEF RequestRight, CacheStates
    <2> QED
      BY <1>1, <2>4, NodesLeftAlone DEF AskProvider
  <1> QED
    BY <1>5, <1>6

(* A refusal empties the nodes, which nobody reads then.                   *)
LEMMA StoreInvalidRight ==
    ASSUME RightsInv, NEW t \in Threads, StoreInvalid(t)
    PROVE  RightsInv'
  <1> USE IdleIsARequest DEF Goto
  <1>1. /\ TimeInv' /\ Serving(t)
        /\ DOMAIN thr = Threads /\ DOMAIN thr[t] = RequestFields
        /\ RequestRight(world.method, said, before, nodes, thr[t])
    BY ServedRequest DEF Serve
  <1>2. /\ DOMAIN nodes' = DOMAIN nodes
        /\ \A i \in DOMAIN nodes : nodes'[i] \in {nodes[i], Cleared}
        /\ nodes' = [i \in DOMAIN nodes |-> nodes'[i]]
    BY DEF StoreInvalid, ClearHash
  <1>3. /\ nodes' \in Seq(Cells)
        /\ \A i \in DOMAIN nodes' :
              CellRight(world.method, said, before, nodes'[i], now)
        /\ Kept(nodes, nodes')
    BY <1>2, ClearedRight DEF RightsInv
  <1>4. RequestRight(world.method, said, before, nodes', thr'[t])
    BY <1>1 DEF StoreInvalid, RequestRight, CacheStates
  <1> QED
    BY <1>1, <1>3, <1>4, ServedRight

(* The answer that is stored was true when the request came, and is later  *)
(* than that by no more than a request is served.                          *)
LEMMA StoreValidRight ==
    ASSUME RightsInv, NEW t \in Threads, StoreValid(t)
    PROVE  RightsInv'
  <1> DEFINE k == thr[t].cred
             m == world.method
             new == NewNode(t)
  <1> USE IdleIsARequest DEF Goto
  <1>1. /\ TimeInv' /\ Serving(t)
        /\ DOMAIN thr = Threads /\ DOMAIN thr[t] = RequestFields
        /\ thr[t].tnow \in Nat /\ now \in Nat
        /\ thr[t].tnow <= now /\ now <= thr[t].tnow + MaxStall
        /\ RequestRight(m, said, before, nodes, thr[t])
    BY ServedRequest DEF Serve
  <1>2. /\ k \in Tokens /\ said[k] \in ProviderSays
        /\ before[k].what \in ProviderSays
        /\ before[k].until \in Nat
        /\ Vouched(m, said[k], before[k], thr[t].level, thr[t].tenants,
                   thr[t].tnow)
    BY <1>1 DEF StoreValid, RequestRight, CacheStates, RightsInv, SaidInv
  <1>3. new \in Cells
    BY <1>1, <1>2, VouchedTypes DEF NewNode, Cells
  <1>4. /\ new.token = k /\ new.ctime = now
        /\ new.level = thr[t].level /\ new.tenants = thr[t].tenants
    BY DEF NewNode
  <1>5. CellRight(m, said, before, new, now)
    <2>1. /\ now - MaxStall \in Int /\ now - MaxStall <= thr[t].tnow
      BY <1>1, RecordTypes
    <2>2. Vouched(m, said[k], before[k], thr[t].level, thr[t].tenants,
                  now - MaxStall)
      BY <1>1, <1>2, <2>1, VouchedEarlier
    <2> QED
      BY <1>1, <1>2, <1>4, <2>2 DEF CellRight
  <1> HIDE DEF new
  <1>6. /\ nodes \in Seq(Cells)
        /\ \A i \in DOMAIN nodes : CellRight(m, said, before, nodes[i], now)
    BY DEF RightsInv, NodesInv
  <1>7. \/ nodes' = Append(nodes, new)
        \/ \E i \in DOMAIN nodes : nodes' = [nodes EXCEPT ![i] = new]
    <2>1. \A i \in Slots(nodes, TimeoutValid) : i \in DOMAIN nodes
      <3> DEFINE free == {i \in DOMAIN nodes :
                             \/ nodes[i].token = None
                             \/ ~Fresh(nodes[i], TimeoutValid, now)}
      <3>1. free \in SUBSET Nat
        BY <1>6
      <3>2. free # {} => Min(free) \in free
        BY <3>1, LeastOf
      <3> QED
        BY <3>2 DEF Slots
    <2> QED
      BY <2>1 DEF StoreValid, new
  <1>8. /\ nodes' \in Seq(Cells)
        /\ \A i \in DOMAIN nodes' : CellRight(m, said, before, nodes'[i], now)
    <2>1. CASE nodes' = Append(nodes, new)
      BY <1>3, <1>5, <1>6, <2>1
    <2>2. CASE \E i \in DOMAIN nodes : nodes' = [nodes EXCEPT ![i] = new]
      <3>1. PICK i \in DOMAIN nodes : nodes' = [nodes EXCEPT ![i] = new]
        BY <2>2
      <3>2. nodes' \in Seq(Cells)
        BY <1>3, <1>6, <3>1
      <3>3. \A j \in DOMAIN nodes : nodes'[j] = IF j = i THEN new ELSE nodes[j]
        BY <3>1
      <3>4. DOMAIN nodes' = DOMAIN nodes
        BY <3>1
      <3> QED
        BY <1>5, <1>6, <3>2, <3>3, <3>4
    <2> QED
      BY <1>7, <2>1, <2>2
  <1>9. \A u \in Threads : thr[u].pc # "copy"
    BY DEF StoreValid, Reading
  <1>10. RequestRight(m, said, before, nodes', thr'[t])
    <2>1. /\ thr[t].tnow - TimeoutValid - MaxStall + 1 \in Int
          /\ thr[t].tnow - TimeoutValid - MaxStall + 1 <= thr[t].tnow
      BY <1>1, RecordTypes
    <2>2. Vouched(m, said[k], before[k], thr[t].level, thr[t].tenants,
                  thr[t].tnow - TimeoutValid - MaxStall + 1)
      BY <1>1, <1>2, <2>1, VouchedEarlier
    <2>3. thr'[t].pc = "route" /\ thr'[t].cred = k
          /\ thr'[t].level = thr[t].level
          /\ thr'[t].tenants = thr[t].tenants /\ thr'[t].tnow = thr[t].tnow
      BY <1>1 DEF StoreValid
    <2> QED
      BY <2>2, <2>3 DEF RequestRight, CacheStates
  <1> QED
    BY <1>1, <1>8, <1>9, <1>10, ServedRight

(* Every step of serving a request keeps what everyone has right.          *)
LEMMA ServeRight ==
    ASSUME RightsInv, NEW t \in Threads, Serve(t)
    PROVE  RightsInv'
  <1> USE IdleIsARequest DEF Goto
  <1>1. /\ TimeInv' /\ Serving(t)
        /\ DOMAIN thr = Threads /\ DOMAIN thr[t] = RequestFields
        /\ RequestRight(world.method, said, before, nodes, thr[t])
    BY ServedRequest
  <1>2. CASE FindSession(t)
    <2>1. RequestRight(world.method, said, before, nodes, thr'[t])
      BY <1>1, <1>2 DEF FindSession, RequestRight, CacheStates
    <2> QED
      BY <1>1, <1>2, <2>1, NodesLeftAlone DEF FindSession
  <1>3. CASE UseSession(t)
    <2>1. RequestRight(world.method, said, before, nodes, thr'[t])
      BY <1>1, <1>3 DEF UseSession, RequestRight, CacheStates
    <2> QED
      BY <1>1, <1>3, <2>1, NodesLeftAlone DEF UseSession
  <1> QED
    BY <1>2, <1>3, LookupRight, ClearEndRight, CopyRight, ExpireRight,
       AskProviderRight, StoreInvalidRight, StoreValidRight DEF Serve

(* A request that has just come claims nothing yet, and an idle thread     *)
(* claims nothing at all.                                                  *)
LEMMA NewRequestRight ==
    ASSUME NEW m, NEW s, NEW b, NEW cells, NEW r,
           r.pc \in {"lookup", "find", "idle"},
           r.pc = "lookup" <=> (r.cred \in Tokens /\ r.pc # "idle")
    PROVE  RequestRight(m, s, b, cells, r)
  BY DEF RequestRight, CacheStates

(* A request comes or is answered.                                         *)
LEMMA CallRight ==
    ASSUME RightsInv, TimeInv', NEW t \in Threads,
           Reply(t) \/ \E cred : Arrive(t, cred)
    PROVE  RightsInv'
  <1>1. UNCHANGED <<now, world, said, before, nodes>>
    BY DEF Reply, Arrive
  <1>2. DOMAIN thr = Threads
    BY DEF RightsInv, TimeInv, FieldsInv
  <1>3. /\ \A u \in Threads \ {t} : thr'[u] = thr[u]
        /\ thr'[t].pc \in {"lookup", "find", "idle"}
        /\ thr'[t].pc = "lookup" <=>
              (thr'[t].cred \in Tokens /\ thr'[t].pc # "idle")
    <2>1. CASE Reply(t)
      BY <1>2, <2>1 DEF Reply, Idle
    <2>2. ASSUME NEW cred, Arrive(t, cred)
          PROVE  /\ \A u \in Threads \ {t} : thr'[u] = thr[u]
                 /\ thr'[t].pc = IF cred \in Tokens THEN "lookup" ELSE "find"
                 /\ thr'[t].cred = cred
      BY <1>2, <2>2 DEF Arrive, Idle
    <2> QED
      BY <2>1, <2>2
  <1>4. ASSUME NEW u \in Threads PROVE RightInv(u)'
    BY <1>1, <1>3, NewRequestRight DEF RightsInv, RightInv
  <1> QED
    BY <1>1, <1>4 DEF RightsInv, SaidInv, NodesInv

(* A token that is revoked: what requests and nodes hold of it was true    *)
(* until now.                                                              *)
LEMMA RevokeRight ==
    ASSUME RightsInv, TimeInv', NEW k \in Tokens, ProviderRevokes(k)
    PROVE  RightsInv'
  <1> DEFINE m == world.method
  <1>1. /\ UNCHANGED <<now, world, nodes, thr>>
        /\ before[k] = NotYet
        /\ said' = [said EXCEPT ![k] = Unknown]
        /\ before' = [before EXCEPT ![k] = [what |-> said[k], until |-> now]]
    BY DEF ProviderRevokes
  <1>2. /\ said \in [Tokens -> ProviderSays] /\ now \in Nat
        /\ before \in [Tokens -> [what : ProviderSays, until : Nat]]
    BY DEF RightsInv, SaidInv, TimeInv, FieldsInv
  <1>3. SaidInv'
    BY <1>1, <1>2, RecordTypes DEF SaidInv
  <1>4. ASSUME NEW j \in Tokens, NEW level, NEW tenants, NEW at \in Int,
               at <= now, Vouched(m, said[j], before[j], level, tenants, at)
        PROVE  Vouched(m, said'[j], before'[j], level, tenants, at)
    <2>1. CASE j = k
      <3>1. /\ said'[j] = Unknown
            /\ before'[j] = [what |-> said[k], until |-> now]
        BY <1>1, <1>2, <2>1
      <3> QED
        BY <1>1, <1>2, <1>4, <2>1, <3>1, VouchedBefore
    <2>2. CASE j # k
      BY <1>1, <1>4, <2>2
    <2> QED
      BY <2>1, <2>2
  <1>5. ASSUME NEW i \in DOMAIN nodes
        PROVE  CellRight(m, said', before', nodes[i], now)
    <2>1. CellRight(m, said, before, nodes[i], now) /\ nodes[i] \in Cells
      BY DEF RightsInv, NodesInv
    <2>2. nodes[i].ctime \in Nat /\ MaxStall \in Nat
      BY <2>1, RecordTypes DEF Cells
    <2>3. ASSUME nodes[i].ctime <= now
          PROVE  /\ nodes[i].ctime - MaxStall \in Int
                 /\ nodes[i].ctime - MaxStall <= now
      BY <1>2, <2>2, <2>3
    <2> QED
      BY <1>4, <2>1, <2>3 DEF CellRight
  <1>6. ASSUME NEW t \in Threads
        PROVE  RequestRight(m, said', before', nodes, thr[t])
    <2>1. RequestRight(m, said, before, nodes, thr[t])
      BY DEF RightsInv, RightInv
    <2>2. ASSUME thr[t].pc # "idle"
          PROVE  /\ thr[t].tnow \in Int /\ thr[t].tnow <= now
                 /\ thr[t].tnow - TimeoutValid - MaxStall + 1 \in Int
                 /\ thr[t].tnow - TimeoutValid - MaxStall + 1 <= now
      <3>1. thr[t].tnow \in Nat /\ thr[t].tnow <= now
        BY <2>2 DEF RightsInv, TimeInv, FieldsInv, InTime
      <3> QED
        BY <1>2, <3>1, RecordTypes
    <2>3. ASSUME thr[t].pc = "store_valid"
          PROVE  Vouched(m, said'[thr[t].cred], before'[thr[t].cred],
                         thr[t].level, thr[t].tenants, thr[t].tnow)
      BY <1>4, <2>1, <2>2, <2>3 DEF RequestRight, CacheStates
    <2>4. ASSUME thr[t].pc \in {"expire", "route"}, thr[t].cred \in Tokens,
                 ~thr[t].rejected
          PROVE  Vouched(m, said'[thr[t].cred], before'[thr[t].cred],
                         thr[t].level, thr[t].tenants,
                         thr[t].tnow - TimeoutValid - MaxStall + 1)
      BY <1>4, <2>1, <2>2, <2>4 DEF RequestRight
    <2> QED
      BY <2>1, <2>3, <2>4 DEF RequestRight
  <1> QED
    BY <1>1, <1>3, <1>5, <1>6 DEF RightsInv, NodesInv, RightInv

(* A token that is given out: nothing was held of it.                      *)
LEMMA IssueRight ==
    ASSUME RightsInv, TimeInv', NEW k \in Tokens, ProviderIssues(k)
    PROVE  RightsInv'
  <1> DEFINE m == world.method
  <1>1. /\ UNCHANGED <<now, world, nodes, thr, before>>
        /\ before[k] = NotYet /\ said[k] = Unknown
        /\ said' = [said EXCEPT ![k] = Issued[k]]
    BY DEF ProviderIssues
  <1>2. said \in [Tokens -> ProviderSays]
    BY DEF RightsInv, SaidInv
  <1>3. SaidInv'
    BY <1>1, <1>2, RecordTypes DEF RightsInv, SaidInv
  <1>4. ASSUME NEW j \in Tokens, NEW level, NEW tenants, NEW at,
               Vouched(m, said[j], before[j], level, tenants, at)
        PROVE  Vouched(m, said'[j], before[j], level, tenants, at)
    BY <1>1, <1>2, <1>4, NothingVouched
  <1>5. ASSUME NEW i \in DOMAIN nodes
        PROVE  CellRight(m, said', before, nodes[i], now)
    BY <1>4 DEF RightsInv, NodesInv, CellRight
  <1>6. ASSUME NEW t \in Threads
        PROVE  RequestRight(m, said', before, nodes, thr[t])
    BY <1>4 DEF RightsInv, RightInv, RequestRight, CacheStates
  <1> QED
    BY <1>1, <1>3, <1>5, <1>6 DEF RightsInv, NodesInv, RightInv

(* A crash ends every request and empties the cache.                       *)
LEMMA CrashRight ==
    ASSUME RightsInv, TimeInv', Crash
    PROVE  RightsInv'
  <1>1. /\ UNCHANGED <<now, world, said, before>> /\ nodes' = <<>>
        /\ \A t \in Threads : thr'[t].pc = "idle"
    BY DEF Crash, Idle
  <1>2. NodesInv'
    BY <1>1 DEF NodesInv
  <1>3. ASSUME NEW t \in Threads PROVE RightInv(t)'
    BY <1>1, NewRequestRight DEF RightInv
  <1> QED
    BY <1>1, <1>2, <1>3 DEF RightsInv, SaidInv

(* Steps that no answer of the provider and no node depends on.            *)
LEMMA ElsewhereRight ==
    ASSUME RightsInv, TimeInv', now' \in {now, now + 1},
           UNCHANGED <<world, said, before, nodes, thr>>
    PROVE  RightsInv'
  <1>1. now \in Nat
    BY DEF RightsInv, TimeInv, FieldsInv
  <1>2. ASSUME NEW i \in DOMAIN nodes
        PROVE  CellRight(world.method, said, before, nodes[i], now')
    <2>1. nodes[i] \in Cells
      BY DEF RightsInv, NodesInv
    <2>2. nodes[i].ctime \in Nat
      BY <2>1 DEF Cells
    <2>3. nodes[i].ctime <= now => nodes[i].ctime <= now'
      BY <1>1, <2>2
    <2> QED
      BY <2>3 DEF RightsInv, NodesInv, CellRight
  <1> QED
    BY <1>2 DEF RightsInv, SaidInv, NodesInv, RightInv

(* Every step keeps every request's rights within what was granted.        *)
LEMMA RightsStep ==
    ASSUME RightsInv, [Next]_vars
    PROVE  RightsInv'
  <1>0. /\ CliThread \in Threads /\ world.others \subseteq Threads
        /\ TimeInv'
    BY CliConstants, ServerConstants, TimeStep
       DEF RightsInv, TimeInv, FieldsInv
  <1>1. ASSUME NEW t \in Threads, NEW cred, Arrive(t, cred)
        PROVE  RightsInv'
    BY <1>0, <1>1, CallRight
  <1>2. ASSUME NEW t \in Threads, Reply(t) PROVE RightsInv'
    BY <1>0, <1>2, CallRight
  <1>3. ASSUME NEW t \in Threads, Serve(t) PROVE RightsInv'
    BY <1>3, ServeRight
  <1>4. CASE Environment
    <2>1. CASE Tick
      BY <1>0, <2>1, ElsewhereRight DEF Tick
    <2> QED
      BY <1>0, <1>4, <2>1, RevokeRight, CrashRight DEF Environment
  <1>5. CASE UNCHANGED serverVars
    BY <1>0, <1>5, ElsewhereRight DEF serverVars
  <1>6. ASSUME NEW s \in SessionIds,
               Login(CliThread, s, "USER", CliTenant)
        PROVE  RightsInv'
    BY <1>0, <1>6, ElsewhereRight DEF Login
  <1>7. ASSUME NEW k \in Tokens, ProviderIssues(k) PROVE RightsInv'
    BY <1>0, <1>7, IssueRight
  <1>8. CASE CliStart \/ CliValidated \/ CliLogin \/ CliSend \/ CliAnswered
    BY <1>0, <1>1, <1>2, <1>5, <1>6, <1>7, <1>8
       DEF CliStart, CliValidated, CliLogin, CliSend, CliAnswered
  <1> QED
    BY <1>0, <1>1, <1>2, <1>3, <1>4, <1>5, <1>8
       DEF Next, OtherRequest, CliCutOff, vars

(* What it is good for: a request that reaches a tenant's pages.           *)
LEMMA RightsSuffice ==
    ASSUME RightsInv
    PROVE  RightsAreGranted
  <1> SUFFICES ASSUME NEW t \in Threads, thr[t].pc = "route",
                      thr[t].cred \in Tokens, NEW u \in Tenants,
                      <<Ctx(t), u>> \in Reaches
               PROVE  \/ Allows(said[thr[t].cred], u)
                      \/ /\ now < before[thr[t].cred].until
                                  + TimeoutValid + 2 * MaxStall
                         /\ Allows(before[thr[t].cred].what, u)
    BY DEF RightsAreGranted
  <1> DEFINE k == thr[t].cred
             level == thr[t].level
             at == thr[t].tnow - TimeoutValid - MaxStall + 1
  <1>1. /\ ~thr[t].rejected
        /\ \/ level \in {"ADMIN", "PROV"}
           \/ thr[t].tenants # Garbage /\ u \in thr[t].tenants
    BY PagesAreGuarded DEF Ctx
  <1>2. Vouched(world.method, said[k], before[k], level, thr[t].tenants, at)
    BY <1>1 DEF RightsInv, RightInv, RequestRight
  <1>3. CASE level = WorthIn(world.method, said[k])
             /\ thr[t].tenants \in {said[k].tenants, Garbage}
    BY <1>1, <1>2, <1>3, WorthIsALevel DEF Vouched, Allows, Levels
  <1>4. CASE /\ level = WorthIn(world.method, before[k].what)
             /\ at <= before[k].until
             /\ thr[t].tenants \in {before[k].what.tenants, Garbage}
    <2>1. Allows(before[k].what, u)
      BY <1>1, <1>2, <1>4, WorthIsALevel DEF Vouched, Allows, Levels
    <2>2. /\ now \in Nat /\ thr[t].tnow \in Nat
          /\ now <= thr[t].tnow + MaxStall
      BY DEF RightsInv, TimeInv, FieldsInv, InTime
    <2>3. before[k].until \in Nat
      BY DEF RightsInv, SaidInv
    <2>4. now < before[k].until + TimeoutValid + 2 * MaxStall
      <3> HIDE DEF k
      <3> QED
        BY <1>4, <2>2, <2>3, RecordTypes
    <2> QED
      BY <2>1, <2>4
  <1> QED
    BY <1>2, <1>3, <1>4 DEF Vouched

(* The rights of every request stay right.                                 *)
LEMMA RightsKept == Spec => []RightsInv
  <1>1. Init => RightsInv
    <2> SUFFICES ASSUME Init PROVE RightsInv
      OBVIOUS
    <2>1. TimeInv
      BY IdleIsARequest
         DEF Init, ServerInit, TimeInv, FieldsInv, InTime, Idle, NoSession
    <2>2. SaidInv
      <3>1. Issued \in [Tokens -> ProviderSays]
        BY ServerConstants DEF ProviderSays
      <3>2. [k \in Tokens |-> Unknown] \in [Tokens -> ProviderSays]
        BY RecordTypes
      <3>3. said \in [Tokens -> ProviderSays]
        BY <3>1, <3>2 DEF Init, ServerInit
      <3> QED
        BY <3>3, RecordTypes DEF Init, ServerInit, SaidInv
    <2>3. NodesInv
      BY DEF Init, ServerInit, NodesInv
    <2>4. ASSUME NEW t \in Threads PROVE RightInv(t)
      BY NewRequestRight DEF Init, ServerInit, Idle, RightInv
    <2> QED
      BY <2>1, <2>2, <2>3, <2>4 DEF RightsInv
  <1>2. RightsInv /\ [Next]_vars => RightsInv'
    BY RightsStep
  <1> QED
    BY <1>1, <1>2, PTL DEF Spec

(* Whatever tokens are given out and revoked, whoever asks and however     *)
(* the requests interleave, time out or are cut off, nobody comes to a     *)
(* tenant's pages with a token unless the provider gives it that tenant or *)
(* a level above tenants, or did so less than a cache lifetime and two     *)
(* requests ago.                                                           *)
THEOREM OnlyGrantedRights == Spec => []RightsAreGranted
  <1>1. RightsInv => RightsAreGranted
    BY RightsSuffice
  <1> QED
    BY <1>1, RightsKept, PTL

-----------------------------------------------------------------------------
(* The user who is locked out                                              *)

Creds == Tokens \union SessionIds \union {None}
CliFields == [pc : {"off", "validate", "main", "send", "login"},
              file : Creds, mtime : Nat, refused : Creds,
              first : Nat, last : Nat]

(* A credential that has been given out is not given out again.            *)
Used(c, s, b, ss) ==
    /\ c \in Tokens => s[c] # Unknown \/ b[c] # NotYet
    /\ c \in SessionIds => ss[c].state # None

UsedNow(c) == Used(c, said, before, sessions)
UsedThen(c) == Used(c, said', before', sessions')

(* The credential that was refused is the one of the file until there is a *)
(* login.  The file was written before the first refusal, and a run that   *)
(* uses it without validating it comes before it is old.                   *)
Refused(c) ==
    c.refused # None =>
        /\ c.first <= c.last /\ c.last <= c.first + Revalidate + MaxStall
        /\ c.refused = c.file => c.mtime <= c.first

(* A run that has validated its token or logged in has none that was       *)
(* refused, and one that has not came in time.                             *)
Running(c, r) ==
    /\ c.pc \in {"validate", "send", "main"} => c.file # None
    /\ c.pc = "send" => c.refused # c.file
    /\ c.pc = "main" /\ c.refused = c.file /\ r.pc # "idle" =>
          r.tnow <= c.mtime + Revalidate

LockoutInv ==
    /\ cli \in CliFields
    /\ cli.pc # "off" => world.cli
    /\ cli.mtime <= now /\ cli.last <= now
    /\ UsedNow(cli.file) /\ UsedNow(cli.refused)
    /\ Refused(cli) /\ Running(cli, thr[CliThread])

(* What has been given out stays so, revoked, expired or lost in a crash.  *)
LEMMA UsedStays ==
    ASSUME RightsInv, [Next]_vars, NEW c, UsedNow(c)
    PROVE  UsedThen(c)
  <1>0. /\ FieldsInv /\ DOMAIN said = Tokens /\ DOMAIN before = Tokens
        /\ DOMAIN sessions = SessionIds
        /\ CliThread \in Threads /\ world.others \subseteq Threads
    BY CliConstants, ServerConstants
       DEF RightsInv, SaidInv, TimeInv, FieldsInv
  <1>1. CASE UNCHANGED <<said, before, sessions>>
    BY <1>1 DEF Used, UsedNow, UsedThen
  <1>2. ASSUME NEW t \in Threads, Serve(t) PROVE UsedThen(c)
    BY <1>0, <1>2, ServingStep DEF Serving, Used, UsedNow, UsedThen
  <1>3. ASSUME NEW k \in Tokens, ProviderRevokes(k) PROVE UsedThen(c)
    BY <1>0, <1>3 DEF ProviderRevokes, Used, UsedNow, UsedThen, NotYet
  <1>4. ASSUME NEW k \in Tokens, ProviderIssues(k) PROVE UsedThen(c)
    BY <1>0, <1>4, CredentialsAssumption
       DEF ProviderIssues, Used, UsedNow, UsedThen
  <1>5. CASE Crash
    BY <1>0, <1>5 DEF Crash, Used, UsedNow, UsedThen, NoSession, None
  <1>6. ASSUME NEW s \in SessionIds,
               Login(CliThread, s, "USER", CliTenant)
        PROVE  UsedThen(c)
    BY <1>0, <1>6 DEF Login, Used, UsedNow, UsedThen, None
  <1>7. ASSUME NEW t \in Threads, NEW cred, Reply(t) \/ Arrive(t, cred)
        PROVE  UsedThen(c)
    BY <1>1, <1>7 DEF Reply, Arrive
  <1>8. CASE CliStart \/ CliValidated \/ CliLogin \/ CliSend \/ CliAnswered
    BY <1>0, <1>1, <1>4, <1>6, <1>7, <1>8
       DEF CliStart, CliValidated, CliLogin, CliSend, CliAnswered, serverVars
  <1> QED
    BY <1>0, <1>1, <1>2, <1>3, <1>5, <1>7, <1>8
       DEF Next, OtherRequest, Environment, Tick, CliCutOff, vars, serverVars

(* What is given out was not given out before.                             *)
LEMMA GivenOutOnce ==
    ASSUME RightsInv
    PROVE  /\ \A k \in Tokens :
                 ProviderIssues(k) => ~UsedNow(k) /\ UsedThen(k)
           /\ \A s \in SessionIds :
                 Login(CliThread, s, "USER", CliTenant) =>
                     ~UsedNow(s) /\ UsedThen(s)
  <1>1. /\ DOMAIN said = Tokens /\ DOMAIN sessions = SessionIds
        /\ Tokens \intersect SessionIds = {}
    BY CredentialsAssumption
       DEF RightsInv, SaidInv, TimeInv, FieldsInv
  <1>2. \A k \in Tokens : ProviderIssues(k) => ~UsedNow(k) /\ UsedThen(k)
    BY <1>1, CredentialsAssumption DEF ProviderIssues, Used, UsedNow, UsedThen
  <1>3. \A s \in SessionIds :
           Login(CliThread, s, "USER", CliTenant) => ~UsedNow(s) /\ UsedThen(s)
    BY <1>1 DEF Login, Used, UsedNow, UsedThen, None
  <1> QED
    BY <1>2, <1>3

(* The server, its other clients, the provider and the clock: none of them *)
(* touches the file, and a request that is served keeps the time it came.  *)
LEMMA ServerLockout ==
    ASSUME RightsInv, LockoutInv, [Next]_vars, UNCHANGED cli,
           world' = world, now' \in {now, now + 1},
           \/ ~world.cli
           \/ thr'[CliThread].pc = "idle"
           \/ /\ thr[CliThread].pc # "idle"
              /\ thr'[CliThread].tnow = thr[CliThread].tnow
           \/ thr'[CliThread] = thr[CliThread]
    PROVE  LockoutInv'
  <1>1. UsedThen(cli.file) /\ UsedThen(cli.refused)
    BY UsedStays DEF LockoutInv
  <1>2. cli.mtime <= now' /\ cli.last <= now'
    BY DEF LockoutInv, CliFields, RightsInv, TimeInv, FieldsInv
  <1>3. Running(cli, thr'[CliThread])
    BY DEF LockoutInv, Running
  <1> QED
    BY <1>1, <1>2, <1>3 DEF LockoutInv, UsedNow, UsedThen

(* What is known of the client's request and of the constants.             *)
LEMMA ClientFacts ==
    ASSUME RightsInv, LockoutInv
    PROVE  /\ DOMAIN thr = Threads /\ CliThread \in Threads
           /\ world \in Worlds /\ now \in Nat
           /\ Revalidate \in Nat /\ MaxStall \in Nat
           /\ world.cli => CliThread \notin world.others
           /\ world.others \subseteq Threads
           /\ thr[CliThread].tnow \in Nat
           /\ thr[CliThread].pc # "idle" =>
                 now <= thr[CliThread].tnow + MaxStall
           /\ cli \in CliFields /\ cli.mtime <= now /\ cli.last <= now
           /\ None \notin Tokens /\ None \notin SessionIds
  BY CliConstants, ServerConstants, CredentialsAssumption
     DEF RightsInv, TimeInv, FieldsInv, InTime, LockoutInv

(* A run starts: when it does not validate the token, the file is not old. *)
LEMMA StartLockout ==
    ASSUME RightsInv, LockoutInv, [Next]_vars, CliStart
    PROVE  LockoutInv'
  <1> USE ClientFacts
  <1>1. UsedThen(cli.file) /\ UsedThen(cli.refused)
    BY UsedStays DEF LockoutInv
  <1>2. CASE cli.file = None
    <2>1. /\ cli' = [cli EXCEPT !.pc = "login"]
          /\ UNCHANGED <<now, world, thr>> /\ world.cli
      BY <1>2 DEF CliStart, serverVars
    <2>2. /\ cli'.file = cli.file /\ cli'.refused = cli.refused
          /\ cli'.pc = "login" /\ cli' \in CliFields
          /\ cli'.mtime = cli.mtime /\ cli'.first = cli.first
          /\ cli'.last = cli.last
      BY <2>1 DEF CliFields
    <2> QED
      BY <1>1, <2>1, <2>2 DEF LockoutInv, Refused, Running, UsedNow, UsedThen
  <1>3. CASE cli.file # None
    <2>1. /\ Arrive(CliThread, cli.file) /\ world.cli
          /\ cli' = [cli EXCEPT !.pc = IF Stale(now - cli.mtime)
                                       THEN "validate" ELSE "main"]
      BY <1>3 DEF CliStart
    <2>2. /\ UNCHANGED <<now, world>> /\ thr'[CliThread].tnow = now
      BY <2>1 DEF Arrive, Idle
    <2>3. /\ cli'.file = cli.file /\ cli'.refused = cli.refused
          /\ cli'.pc \in {"validate", "main"} /\ cli' \in CliFields
          /\ cli'.mtime = cli.mtime /\ cli'.first = cli.first
          /\ cli'.last = cli.last
          /\ cli'.pc = "main" => now - cli.mtime <= Revalidate
      BY <2>1 DEF CliFields, Stale
    <2>4. cli'.pc = "main" => now <= cli.mtime + Revalidate
      BY <2>3 DEF CliFields
    <2> QED
      BY <1>1, <1>3, <2>1, <2>2, <2>3, <2>4
         DEF LockoutInv, Refused, Running, UsedNow, UsedThen
  <1> QED
    BY <1>2, <1>3

(* The validation: a good token is no longer a refused one.                *)
LEMMA ValidatedLockout ==
    ASSUME RightsInv, LockoutInv, [Next]_vars, CliValidated
    PROVE  LockoutInv'
  <1> USE ClientFacts
  <1>1. /\ UsedThen(cli.file) /\ UsedThen(cli.refused) /\ UsedThen(None)
        /\ cli.file # None /\ world.cli
    BY UsedStays DEF LockoutInv, Running, CliValidated, Used, UsedNow, UsedThen
  <1>2. UNCHANGED <<now, world>>
    BY DEF CliValidated, Reply
  <1>3. CASE cli' = [cli EXCEPT !.pc = "send", !.mtime = now,
                                !.refused = None]
    <2>1. /\ cli'.file = cli.file /\ cli'.refused = None
          /\ cli'.pc = "send" /\ cli' \in CliFields /\ cli'.mtime = now
          /\ cli'.last = cli.last
      BY <1>3 DEF CliFields, Creds
    <2> QED
      BY <1>1, <1>2, <2>1 DEF LockoutInv, Refused, Running, UsedNow, UsedThen
  <1>4. CASE cli' = [cli EXCEPT !.pc = "login"]
    <2>1. /\ cli'.file = cli.file /\ cli'.refused = cli.refused
          /\ cli'.pc = "login" /\ cli' \in CliFields
          /\ cli'.mtime = cli.mtime /\ cli'.first = cli.first
          /\ cli'.last = cli.last
      BY <1>4 DEF CliFields
    <2> QED
      BY <1>1, <1>2, <2>1 DEF LockoutInv, Refused, Running, UsedNow, UsedThen
  <1> QED
    BY <1>3, <1>4 DEF CliValidated

(* A login gives a credential that has never been refused.                 *)
LEMMA LoginLockout ==
    ASSUME RightsInv, LockoutInv, [Next]_vars, CliLogin
    PROVE  LockoutInv'
  <1> USE ClientFacts
  <1>1. /\ UsedThen(cli.file) /\ UsedThen(cli.refused) /\ world.cli
    BY UsedStays DEF LockoutInv, CliLogin
  <1>2. ASSUME NEW c \in Tokens \union SessionIds, ~UsedNow(c), UsedThen(c),
               cli' = [cli EXCEPT !.pc = "send", !.file = c, !.mtime = now],
               UNCHANGED <<now, world>>
        PROVE  LockoutInv'
    <2>1. /\ cli'.file = c /\ cli'.refused = cli.refused
          /\ cli'.pc = "send" /\ cli' \in CliFields
          /\ cli'.mtime = now /\ cli'.first = cli.first
          /\ cli'.last = cli.last /\ c # None
      BY <1>2 DEF CliFields, Creds
    <2>2. cli.refused # c
      BY <1>2 DEF LockoutInv
    <2> QED
      BY <1>1, <1>2, <2>1, <2>2
         DEF LockoutInv, Refused, Running, UsedNow, UsedThen
  <1>3. CASE cli' = [cli EXCEPT !.pc = "off"] /\ UNCHANGED serverVars
    <2>1. /\ cli'.file = cli.file /\ cli'.refused = cli.refused
          /\ cli'.pc = "off" /\ cli' \in CliFields
          /\ cli'.mtime = cli.mtime /\ cli'.first = cli.first
          /\ cli'.last = cli.last
      BY <1>3 DEF CliFields
    <2> QED
      BY <1>1, <1>3, <2>1
         DEF LockoutInv, Refused, Running, UsedNow, UsedThen, serverVars
  <1>4. /\ \A k \in Tokens : ProviderIssues(k) => UNCHANGED <<now, world>>
        /\ \A s \in SessionIds : Login(CliThread, s, "USER", CliTenant) =>
                                     UNCHANGED <<now, world>>
    BY DEF ProviderIssues, Login
  <1> QED
    BY <1>2, <1>3, <1>4, GivenOutOnce DEF CliLogin

(* The command's own request goes out with a token that was not refused.   *)
LEMMA SendLockout ==
    ASSUME RightsInv, LockoutInv, [Next]_vars, CliSend
    PROVE  LockoutInv'
  <1> USE ClientFacts
  <1>1. /\ UsedThen(cli.file) /\ UsedThen(cli.refused) /\ world.cli
        /\ cli.file # None /\ cli.refused # cli.file
    BY UsedStays DEF LockoutInv, CliSend, Running
  <1>2. UNCHANGED <<now, world>> /\ cli' = [cli EXCEPT !.pc = "main"]
    BY DEF CliSend, Arrive
  <1>3. /\ cli'.file = cli.file /\ cli'.refused = cli.refused
        /\ cli'.pc = "main" /\ cli' \in CliFields
        /\ cli'.mtime = cli.mtime /\ cli'.first = cli.first
        /\ cli'.last = cli.last
    BY <1>2 DEF CliFields
  <1> QED
    BY <1>1, <1>2, <1>3 DEF LockoutInv, Refused, Running, UsedNow, UsedThen

(* The answer: the one that says the user is refused again came in time    *)
(* after the file was written, or the file is another one.                 *)
LEMMA AnsweredLockout ==
    ASSUME RightsInv, LockoutInv, [Next]_vars, CliAnswered
    PROVE  LockoutInv'
  <1> USE ClientFacts
  <1>1. /\ UsedThen(cli.file) /\ UsedThen(cli.refused) /\ UsedThen(None)
        /\ cli.file # None /\ world.cli
    BY UsedStays DEF LockoutInv, Running, CliAnswered, Used, UsedNow, UsedThen
  <1>2. /\ UNCHANGED <<now, world>>
        /\ cli.pc = "main" /\ thr[CliThread].pc # "idle"
    BY DEF CliAnswered, Reply
  <1>3. CASE cli' = [cli EXCEPT !.pc = "off", !.refused = None]
    <2>1. /\ cli'.file = cli.file /\ cli'.refused = None
          /\ cli'.pc = "off" /\ cli' \in CliFields /\ cli'.mtime = cli.mtime
          /\ cli'.last = cli.last
      BY <1>3 DEF CliFields, Creds
    <2> QED
      BY <1>1, <1>2, <2>1
         DEF LockoutInv, Refused, Running, UsedNow, UsedThen
  <1>4. CASE cli' = [cli EXCEPT !.pc = "login"]
    <2>1. /\ cli'.file = cli.file /\ cli'.refused = cli.refused
          /\ cli'.pc = "login" /\ cli' \in CliFields
          /\ cli'.mtime = cli.mtime /\ cli'.first = cli.first
          /\ cli'.last = cli.last
      BY <1>4 DEF CliFields
    <2> QED
      BY <1>1, <1>2, <2>1
         DEF LockoutInv, Refused, Running, UsedNow, UsedThen
  <1>5. CASE cli' = [cli EXCEPT !.pc = "off", !.refused = cli.file,
                                !.last = now,
                                !.first = IF cli.refused = cli.file
                                          THEN @ ELSE now]
    <2>1. /\ cli'.file = cli.file /\ cli'.refused = cli.file
          /\ cli'.pc = "off" /\ cli' \in CliFields
          /\ cli'.mtime = cli.mtime /\ cli'.last = now
          /\ cli'.first = IF cli.refused = cli.file THEN cli.first ELSE now
      BY <1>5 DEF CliFields
    <2>2. CASE cli.refused = cli.file
      <3>1. /\ cli.mtime <= cli.first /\ cli.first <= cli.last
            /\ thr[CliThread].tnow <= cli.mtime + Revalidate
            /\ now <= thr[CliThread].tnow + MaxStall
        BY <1>1, <1>2, <2>2 DEF LockoutInv, Refused, Running
      <3>2. /\ cli.first \in Nat /\ cli.mtime \in Nat
            /\ thr[CliThread].tnow \in Nat
        BY DEF CliFields
      <3>3. now <= cli.first + Revalidate + MaxStall
        BY <3>1, <3>2
      <3>4. cli.first <= now
        BY <3>1, <3>2 DEF CliFields
      <3> QED
        BY <1>1, <1>2, <2>1, <2>2, <3>1, <3>3, <3>4
           DEF LockoutInv, Refused, Running, UsedNow, UsedThen
    <2>3. CASE cli.refused # cli.file
      BY <1>1, <1>2, <2>1, <2>3
         DEF LockoutInv, Refused, Running, UsedNow, UsedThen
    <2> QED
      BY <2>2, <2>3
  <1> QED
    BY <1>3, <1>4, <1>5 DEF CliAnswered

(* A run that is cut off asks for a password, or ends.                     *)
LEMMA CutOffLockout ==
    ASSUME RightsInv, LockoutInv, [Next]_vars, CliCutOff
    PROVE  LockoutInv'
  <1> USE ClientFacts
  <1>1. UsedThen(cli.file) /\ UsedThen(cli.refused) /\ world.cli
    BY UsedStays DEF LockoutInv, CliCutOff
  <1>2. UNCHANGED <<now, world>>
    BY DEF CliCutOff, serverVars
  <1>3. /\ cli'.file = cli.file /\ cli'.refused = cli.refused
        /\ cli'.pc \in {"off", "login"} /\ cli' \in CliFields
        /\ cli'.mtime = cli.mtime /\ cli'.first = cli.first
        /\ cli'.last = cli.last
    BY DEF CliFields, CliCutOff
  <1> QED
    BY <1>1, <1>2, <1>3 DEF LockoutInv, Refused, Running, UsedNow, UsedThen

(* Every step keeps the user's lockout short.                              *)
LEMMA LockoutStep ==
    ASSUME RightsInv, LockoutInv, [Next]_vars
    PROVE  LockoutInv'
  <1> USE ClientFacts
  <1>1. ASSUME NEW t \in Threads, Serve(t), UNCHANGED cli PROVE LockoutInv'
    <2>1. Serving(t)
      BY <1>1, ServingStep DEF RightsInv, TimeInv
    <2>2. /\ UNCHANGED <<now, world>>
          /\ t # CliThread => thr'[CliThread] = thr[CliThread]
          /\ t = CliThread => /\ thr[CliThread].pc # "idle"
                             /\ thr'[CliThread].tnow = thr[CliThread].tnow
      BY <2>1 DEF Serving
    <2> QED
      BY <1>1, <2>2, ServerLockout
  <1>2. ASSUME NEW t \in world.others, OtherRequest(t) \/ Reply(t),
               UNCHANGED cli
        PROVE  LockoutInv'
    <2>1. UNCHANGED <<now, world>>
      BY <1>2 DEF OtherRequest, Arrive, Reply
    <2>2. t # CliThread => thr'[CliThread] = thr[CliThread]
      BY <1>2 DEF OtherRequest, Arrive, Reply
    <2> QED
      BY <1>2, <2>1, <2>2, ServerLockout
  <1>3. CASE Environment /\ UNCHANGED cli
    <2>1. /\ world' = world /\ now' \in {now, now + 1}
          /\ thr' = thr \/ thr'[CliThread].pc = "idle"
      BY <1>3 DEF Environment, Tick, ProviderRevokes, Crash, Idle
    <2> QED
      BY <1>3, <2>1, ServerLockout
  <1>4. CASE UNCHANGED vars
    BY <1>4, ServerLockout DEF vars, serverVars
  <1> QED
    BY <1>1, <1>2, <1>3, <1>4, StartLockout, ValidatedLockout, LoginLockout,
       SendLockout, AnsweredLockout, CutOffLockout DEF Next

(* A user whose token is revoked, or whose session expires or is lost in a *)
(* crash, is not refused for longer than the token goes without being      *)
(* validated, whatever the server answers and whenever it is cut off.      *)
THEOREM LockoutsAreShort == Spec => []LockoutIsShort
  <1>1. Init => LockoutInv
    <2> SUFFICES ASSUME Init PROVE LockoutInv
      OBVIOUS
    <2>1. /\ cli.pc = "off" /\ cli.file = None /\ cli.refused = None
          /\ cli.mtime = 0 /\ now = 0 /\ cli.last = 0
          /\ cli \in CliFields
      BY DEF Init, ServerInit, CliFields, Creds
    <2> QED
      BY <2>1, CredentialsAssumption
         DEF LockoutInv, UsedNow, Used, Refused, Running
  <1>2. RightsInv /\ LockoutInv /\ [Next]_vars => LockoutInv'
    BY LockoutStep
  <1>3. LockoutInv => LockoutIsShort
    <2> SUFFICES ASSUME LockoutInv, cli.refused # None
                 PROVE  cli.last - cli.first <= Revalidate + MaxStall
      BY DEF LockoutIsShort
    <2>1. /\ cli.first \in Nat /\ cli.last \in Nat
          /\ Revalidate \in Nat /\ MaxStall \in Nat
          /\ cli.last <= cli.first + Revalidate + MaxStall
      BY CliConstants, ServerConstants DEF LockoutInv, CliFields, Refused
    <2> QED
      BY <2>1
  <1> QED
    BY <1>1, <1>2, <1>3, RightsKept, PTL DEF Spec

-----------------------------------------------------------------------------
(* The routes: every request of an administrator's clients is answered by  *)
(* the function it was written for.                                        *)

(* The entries that are about no tenant, and the filters.                  *)
LEMMA Entrances ==
    /\ Routes[1] = R(<<"obligatory-dancing-bears">>, GET, "cmd_dancing_bears")
    /\ Routes[2] = R(<<"*">>, ANY, "flt_add_cors")
    /\ Routes[3] = R(<<"login">>, POST, "cmd_login")
    /\ Routes[4] = R(<<"*">>, ANY, "flt_check_validuser")
    /\ Routes[5] = R(<<Empty>>, GET, "cmd_list_tenants")
    /\ Routes[6] = R(<<Empty>>, ANY, "err_method_not_allowed")
    /\ Routes[7] = R(<<"token">>, GET, "cmd_token")
    /\ Routes[8] = R(<<"session">>, GET, "flt_check_admin")
    /\ Routes[9] = R(<<"session">>, GET, "cmd_list_sessions")
    /\ Routes[10] = R(<<"user", "%s">>, UPDATE, "cmd_user_set")
    /\ Routes[11] = R(<<"user", "%s">>, DELETE, "cmd_user_delete")
    /\ Routes[12] = R(<<"any*">>, ANY, "flt_check_admin")
    /\ Routes[13] =
          R(<<"any", "host", "overview">>, GET, "cmd_host_any_overview")
    /\ Routes[14] = R(<<"any", "host", "%U">>, GET, "cmd_host_any_get")
    /\ Routes[15] =
          R(<<"any", "host", "%U", "tenant">>, GET, "cmd_host_any_get_tenant")
    /\ Routes[16] = R(<<"%U", "*">>, ANY, "flt_check_tenant")
  BY Zenon DEF Routes

(* Those about a tenant.                                                   *)
LEMMA TenantEntries ==
    /\ Routes[17] = R(<<"%U">>, GET, "cmd_tenant_get")
    /\ Routes[18] = R(<<"%U">>, POST, "cmd_tenant_create")
    /\ Routes[19] = R(<<"%U">>, PUT, "cmd_tenant_update")
    /\ Routes[20] = R(<<"%U">>, DELETE, "flt_check_admin")
    /\ Routes[21] = R(<<"%U">>, DELETE, "cmd_tenant_delete")
    /\ Routes[22] = R(<<"%U", "summary">>, GET, "cmd_tenant_get_summary")
    /\ Routes[23] = R(<<"%U", "quota">>, GET, "cmd_tenant_get_quota")
    /\ Routes[24] = R(<<"%U", "meta">>, GET, "cmd_tenant_get_meta")
    /\ Routes[25] = R(<<"%U", "meta">>, UPDATE, "cmd_tenant_set_meta")
    /\ Routes[26] = R(<<"%U", "meta">>, ANY, "err_method_not_allowed")
    /\ Routes[27] = R(<<"%U", "meter">>, GET, "cmd_tenant_list_meters")
  BY Zenon DEF Routes

(* About its meters and watchers, and the list of its hosts.               *)
LEMMA MeterEntries ==
    /\ Routes[28] = R(<<"%U", "meter", "%S">>, UPDATE, "cmd_tenant_set_meter")
    /\ Routes[29] =
          R(<<"%U", "meter", "%S", "%S">>, UPDATE, "cmd_tenant_set_meter")
    /\ Routes[30] =
          R(<<"%U", "meter", "%S">>, DELETE, "cmd_tenant_delete_meter")
    /\ Routes[31] =
          R(<<"%U", "meter", "%S", "%S">>, DELETE, "cmd_tenant_delete_meter")
    /\ Routes[32] = R(<<"%U", "watcher">>, GET, "cmd_tenant_list_watchers")
    /\ Routes[33] =
          R(<<"%U", "watcher", "%S">>, UPDATE, "cmd_tenant_set_watcher")
    /\ Routes[34] =
          R(<<"%U", "watcher", "%S", "%S">>, UPDATE, "cmd_tenant_set_watcher")
    /\ Routes[35] =
          R(<<"%U", "watcher", "%S">>, DELETE, "cmd_tenant_delete_watcher")
    /\ Routes[36] =
          R(<<"%U", "watcher", "%S", "%S">>, DELETE,
            "cmd_tenant_delete_watcher")
    /\ Routes[37] = R(<<"%U", "host">>, GET, "cmd_tenant_list_hosts")
    /\ Routes[38] = R(<<"%U", "host">>, ANY, "err_method_not_allowed")
  BY Zenon DEF Routes

(* About a host.                                                           *)
LEMMA HostEntries ==
    /\ Routes[39] = R(<<"%U", "host", "overview">>, GET, "cmd_host_overview")
    /\ Routes[40] = R(<<"%U", "host", "%U", "*">>, ANY, "flt_check_host")
    /\ Routes[41] = R(<<"%U", "host", "%U">>, GET, "cmd_host_get")
    /\ Routes[42] = R(<<"%U", "host", "%U">>, DELETE, "cmd_host_remove")
    /\ Routes[43] = R(<<"%U", "host", "%U">>, ANY, "err_method_not_allowed")
    /\ Routes[44] = R(<<"%U", "host", "%U", "log">>, GET, "cmd_host_get_log")
    /\ Routes[45] =
          R(<<"%U", "host", "%U", "externaldata">>, GET,
            "cmd_host_get_external")
    /\ Routes[46] =
          R(<<"%U", "host", "%U", "watcher">>, GET, "cmd_host_list_watchers")
    /\ Routes[47] =
          R(<<"%U", "host", "%U", "watcher">>, ANY, "err_method_not_allowed")
  BY Zenon DEF Routes

(* About its watchers, graphs and times; and what is left over.            *)
LEMMA LastEntries ==
    /\ Routes[48] =
          R(<<"%U", "host", "%U", "watcher", "%S">>, UPDATE,
            "cmd_host_set_watcher")
    /\ Routes[49] =
          R(<<"%U", "host", "%U", "watcher", "%S", "%S">>, UPDATE,
            "cmd_host_set_watcher")
    /\ Routes[50] =
          R(<<"%U", "host", "%U", "watcher", "%S">>, DELETE,
            "cmd_host_delete_watcher")
    /\ Routes[51] =
          R(<<"%U", "host", "%U", "watcher", "%S", "%S">>, DELETE,
            "cmd_host_delete_watcher")
    /\ Routes[52] =
          R(<<"%U", "host", "%U", "range", "%T", "%T">>, GET,
            "cmd_host_get_range")
    /\ Routes[53] =
          R(<<"%U", "host", "%U", "graph">>, GET, "cmd_host_list_graphs")
    /\ Routes[54] =
          R(<<"%U", "host", "%U", "graph", "%S", "%S", "%i", "%i">>, GET,
            "cmd_host_get_graph")
    /\ Routes[55] =
          R(<<"%U", "host", "%U", "time", "%T">>, GET, "cmd_host_get_time")
    /\ Routes[56] = R(<<"*">>, GET, "err_not_found")
    /\ Routes[57] = R(<<"*">>, ANY, "err_method_not_allowed")
  BY Zenon DEF Routes

(* What a pattern asks of a url: its number of fields, and which they are. *)
LEMMA Lengths ==
    ASSUME NEW url
    PROVE  /\ \A a : a # "any*" /\ a # "*" /\ Matches(<<a>>, url) =>
                 Len(url) = 1
           /\ \A a, b : b # "*" /\ Matches(<<a, b>>, url) =>
                 Len(url) = 2 /\ Accepts(b, url[2])
           /\ \A a, b, c : c # "*" /\ Matches(<<a, b, c>>, url) =>
                 Len(url) = 3 /\ Accepts(b, url[2]) /\ Accepts(c, url[3])
           /\ \A a, b, c, d : d # "*" /\ Matches(<<a, b, c, d>>, url) =>
                 /\ Len(url) = 4 /\ Accepts(b, url[2]) /\ Accepts(c, url[3])
                 /\ Accepts(d, url[4])
           /\ \A a, b, c, d, e : e # "*" /\ Matches(<<a, b, c, d, e>>, url) =>
                 Len(url) = 5 /\ Accepts(b, url[2]) /\ Accepts(d, url[4])
           /\ \A a, b, c, d, e, f :
                 f # "*" /\ Matches(<<a, b, c, d, e, f>>, url) =>
                 Len(url) = 6 /\ Accepts(b, url[2]) /\ Accepts(d, url[4])
           /\ \A a, b, c, d, e, f, g, h :
                 h # "*" /\ Matches(<<a, b, c, d, e, f, g, h>>, url) =>
                 Len(url) = 8 /\ Accepts(b, url[2]) /\ Accepts(d, url[4])
  <1> USE DEF Matches
  <1>1. ASSUME NEW a, a # "any*", a # "*", Matches(<<a>>, url)
        PROVE  Len(url) = 1
    BY <1>1
  <1>2. ASSUME NEW a, NEW b, b # "*", Matches(<<a, b>>, url)
        PROVE  Len(url) = 2 /\ Accepts(b, url[2])
    BY <1>2
  <1>3. ASSUME NEW a, NEW b, NEW c, c # "*", Matches(<<a, b, c>>, url)
        PROVE  Len(url) = 3 /\ Accepts(b, url[2]) /\ Accepts(c, url[3])
    BY <1>3
  <1>4. ASSUME NEW a, NEW b, NEW c, NEW d, d # "*",
               Matches(<<a, b, c, d>>, url)
        PROVE  /\ Len(url) = 4 /\ Accepts(b, url[2]) /\ Accepts(c, url[3])
               /\ Accepts(d, url[4])
    BY <1>4
  <1>5. ASSUME NEW a, NEW b, NEW c, NEW d, NEW e, e # "*",
               Matches(<<a, b, c, d, e>>, url)
        PROVE  Len(url) = 5 /\ Accepts(b, url[2]) /\ Accepts(d, url[4])
    BY <1>5
  <1>6. ASSUME NEW a, NEW b, NEW c, NEW d, NEW e, NEW f, f # "*",
               Matches(<<a, b, c, d, e, f>>, url)
        PROVE  Len(url) = 6 /\ Accepts(b, url[2]) /\ Accepts(d, url[4])
    BY <1>6
  <1>7. ASSUME NEW a, NEW b, NEW c, NEW d, NEW e, NEW f, NEW g, NEW h,
               h # "*", Matches(<<a, b, c, d, e, f, g, h>>, url)
        PROVE  Len(url) = 8 /\ Accepts(b, url[2]) /\ Accepts(d, url[4])
    BY <1>7
  <1> QED
    BY <1>1, <1>2, <1>3, <1>4, <1>5, <1>6, <1>7

(* And what is enough for it.                                              *)
LEMMA Fits ==
    ASSUME NEW url
    PROVE  /\ \A a :
                a # "any*" /\ a # "*" /\ Len(url) = 1 /\ Accepts(a, url[1])
                  => Matches(<<a>>, url)
           /\ \A a, b : b # "*" /\ Len(url) = 2 /\ Accepts(a, url[1])
                           /\ Accepts(b, url[2]) => Matches(<<a, b>>, url)
           /\ \A a, b, c :
                c # "*" /\ Len(url) = 3 /\ Accepts(a, url[1])
                /\ Accepts(b, url[2]) /\ Accepts(c, url[3])
                  => Matches(<<a, b, c>>, url)
           /\ \A a, b, c, d :
                d # "*" /\ Len(url) = 4 /\ Accepts(a, url[1])
                /\ Accepts(b, url[2]) /\ Accepts(c, url[3])
                /\ Accepts(d, url[4]) => Matches(<<a, b, c, d>>, url)
           /\ \A a, b, c, d, e :
                e # "*" /\ Len(url) = 5 /\ Accepts(a, url[1])
                /\ Accepts(b, url[2]) /\ Accepts(c, url[3])
                /\ Accepts(d, url[4]) /\ Accepts(e, url[5])
                  => Matches(<<a, b, c, d, e>>, url)
           /\ \A a, b, c, d, e, f :
                f # "*" /\ Len(url) = 6 /\ Accepts(a, url[1])
                /\ Accepts(b, url[2]) /\ Accepts(c, url[3])
                /\ Accepts(d, url[4]) /\ Accepts(e, url[5])
                /\ Accepts(f, url[6]) => Matches(<<a, b, c, d, e, f>>, url)
           /\ \A a, b, c, d, e, f, g, h :
                h # "*" /\ Len(url) = 8 /\ Accepts(a, url[1])
                /\ Accepts(b, url[2]) /\ Accepts(c, url[3])
                /\ Accepts(d, url[4]) /\ Accepts(e, url[5])
                /\ Accepts(f, url[6]) /\ Accepts(g, url[7])
                /\ Accepts(h, url[8])
                  => Matches(<<a, b, c, d, e, f, g, h>>, url)
  BY DEF Matches

(* An entry that takes an administrator's request.                         *)
Hit(req, i) ==
    /\ req.method \in Routes[i].mask
    /\ Matches(Routes[i].pat, req.url)
    /\ Answers(Routes[i].func, req, Administrator)

(* The first one answers it.                                               *)
LEMMA FirstHit ==
    ASSUME NEW req, NEW n \in 1 .. 57, Hit(req, n),
           \A i \in 1 .. n - 1 : ~Hit(req, i)
    PROVE  Dispatch(req, Administrator) = Routes[n].func
  <1> DEFINE hits == {i \in DOMAIN Routes : Hit(req, i)}
  <1>1. hits \in SUBSET Nat /\ n \in hits /\ \A i \in hits : n <= i
    BY Filters
  <1>2. Min(hits) = n
    BY <1>1, LeastOf
  <1>3. Dispatch(req, Administrator) =
          IF hits = {} THEN "err_server_error" ELSE Routes[Min(hits)].func
    BY DEF Dispatch, Hit
  <1> QED
    BY <1>1, <1>2, <1>3

(* The filters let an administrator through.                               *)
LEMMA FiltersPass ==
    ASSUME NEW req, req.method # "OPTIONS"
    PROVE  /\ \A i \in {2, 4, 8, 12, 20} : ~Hit(req, i)
           /\ req.url[1] # NilUuid => ~Hit(req, 16)
           /\ req.url[3] # NilUuid => ~Hit(req, 40)
  <1>1. /\ ~Answers("flt_add_cors", req, Administrator)
        /\ ~Answers("flt_check_validuser", req, Administrator)
        /\ ~Answers("flt_check_admin", req, Administrator)
        /\ req.url[1] # NilUuid =>
             ~Answers("flt_check_tenant", req, Administrator)
        /\ req.url[3] # NilUuid =>
             ~Answers("flt_check_host", req, Administrator)
    BY DEF Answers, flt_check_admin, flt_check_tenant, flt_check_host,
           Administrator
  <1>2. /\ Routes[2].func = "flt_add_cors"
        /\ Routes[4].func = "flt_check_validuser"
        /\ Routes[8].func = "flt_check_admin"
        /\ Routes[12].func = "flt_check_admin"
        /\ Routes[20].func = "flt_check_admin"
        /\ Routes[16].func = "flt_check_tenant"
        /\ Routes[40].func = "flt_check_host"
    <2>1. /\ Routes[2].func = "flt_add_cors"
          /\ Routes[4].func = "flt_check_validuser"
          /\ Routes[16].func = "flt_check_tenant"
      BY Filters DEF R
    <2>4. /\ Routes[8].func = "flt_check_admin"
          /\ Routes[12].func = "flt_check_admin"
      BY DEF Routes, R
    <2>2. Routes[20].func = "flt_check_admin"
      BY TenantEntries DEF R
    <2>3. Routes[40].func = "flt_check_host"
      BY HostEntries DEF R
    <2> QED
      BY <2>1, <2>2, <2>3, <2>4
  <1>3. /\ ~Hit(req, 2) /\ ~Hit(req, 4) /\ ~Hit(req, 8) /\ ~Hit(req, 12)
        /\ ~Hit(req, 20)
    BY <1>1, <1>2 DEF Hit
  <1>4. /\ req.url[1] # NilUuid => ~Hit(req, 16)
        /\ req.url[3] # NilUuid => ~Hit(req, 40)
    BY <1>1, <1>2 DEF Hit
  <1> QED
    BY <1>3, <1>4

(* About a tenant, they come to its pages.                                 *)
LEMMA TenantsPass ==
    ASSUME NEW req, req.method # "OPTIONS", req.url[1] \in Tenants,
           NEW i \in 1 .. 16
    PROVE  ~Hit(req, i)
  <1>1. req.url[1] # NilUuid /\ req.url[1] \notin FirstWords
    BY RouteConstants DEF Uuids
  <1>2. CASE i \in {2, 4, 16}
    BY <1>1, <1>2, FiltersPass
  <1>3. CASE i \in {1, 3} \cup 5 .. 15
    BY <1>1, <1>3, WordPatterns, WordsComeFirst DEF Hit
  <1> QED
    BY <1>2, <1>3

(* What the entries about a tenant ask of a url.                           *)
LEMMA TenantShapes ==
    ASSUME NEW url
    PROVE  /\ \A i \in 17 .. 21 : Matches(Routes[i].pat, url) => Len(url) = 1
           /\ Matches(Routes[22].pat, url) =>
                Len(url) = 2 /\ url[2] = "summary"
           /\ Matches(Routes[23].pat, url) => Len(url) = 2 /\ url[2] = "quota"
           /\ \A i \in 24 .. 26 :
                Matches(Routes[i].pat, url) => Len(url) = 2 /\ url[2] = "meta"
           /\ Matches(Routes[27].pat, url) => Len(url) = 2 /\ url[2] = "meter"
           /\ \A i \in {28, 30} :
                Matches(Routes[i].pat, url) =>
                  Len(url) = 3 /\ url[2] = "meter"
           /\ \A i \in {29, 31} :
                Matches(Routes[i].pat, url) =>
                  Len(url) = 4 /\ url[2] = "meter"
  <1>1. \A a, b : Accepts(a, b) /\ a \in {"summary", "quota", "meta", "meter"}
                    => b = a
    BY DEF Accepts
  <1>2. \A i \in 17 .. 21 : Routes[i].pat = <<"%U">>
    BY TenantEntries DEF R
  <1>3. /\ Routes[22].pat = <<"%U", "summary">>
        /\ Routes[23].pat = <<"%U", "quota">>
        /\ \A i \in 24 .. 26 : Routes[i].pat = <<"%U", "meta">>
        /\ Routes[27].pat = <<"%U", "meter">>
    BY TenantEntries DEF R
  <1>4. /\ Routes[28].pat = <<"%U", "meter", "%S">>
        /\ Routes[29].pat = <<"%U", "meter", "%S", "%S">>
        /\ Routes[30].pat = <<"%U", "meter", "%S">>
        /\ Routes[31].pat = <<"%U", "meter", "%S", "%S">>
    BY MeterEntries DEF R
  <1>5. \A i \in 17 .. 21 : Matches(Routes[i].pat, url) => Len(url) = 1
    BY <1>2, Lengths
  <1>6. /\ Matches(Routes[22].pat, url) => Len(url) = 2 /\ url[2] = "summary"
        /\ Matches(Routes[23].pat, url) => Len(url) = 2 /\ url[2] = "quota"
        /\ \A i \in 24 .. 26 :
             Matches(Routes[i].pat, url) => Len(url) = 2 /\ url[2] = "meta"
        /\ Matches(Routes[27].pat, url) => Len(url) = 2 /\ url[2] = "meter"
    BY <1>1, <1>3, Lengths
  <1>7. /\ Matches(Routes[28].pat, url) => Len(url) = 3 /\ url[2] = "meter"
        /\ Matches(Routes[29].pat, url) => Len(url) = 4 /\ url[2] = "meter"
        /\ Matches(Routes[30].pat, url) => Len(url) = 3 /\ url[2] = "meter"
        /\ Matches(Routes[31].pat, url) => Len(url) = 4 /\ url[2] = "meter"
    BY <1>1, <1>4, Lengths
  <1> QED
    BY <1>5, <1>6, <1>7

(* What those about its watchers and hosts ask of it.                      *)
LEMMA WatcherShapes ==
    ASSUME NEW url
    PROVE  /\ Matches(Routes[32].pat, url) =>
                Len(url) = 2 /\ url[2] = "watcher"
           /\ \A i \in {33, 35} :
                Matches(Routes[i].pat, url) =>
                  Len(url) = 3 /\ url[2] = "watcher"
           /\ \A i \in {34, 36} :
                Matches(Routes[i].pat, url) =>
                  Len(url) = 4 /\ url[2] = "watcher"
           /\ \A i \in {37, 38} :
                Matches(Routes[i].pat, url) => Len(url) = 2 /\ url[2] = "host"
           /\ Matches(Routes[39].pat, url) =>
                Len(url) = 3 /\ url[2] = "host" /\ url[3] = "overview"
           /\ \A i \in 41 .. 43 : Matches(Routes[i].pat, url) => Len(url) = 3
  <1>1. \A a, b : Accepts(a, b) /\ a \in {"watcher", "host", "overview"}
                    => b = a
    BY DEF Accepts
  <1> QED
    BY <1>1, MeterEntries, HostEntries, Lengths DEF R

(* And those about a host.                                                 *)
LEMMA HostShapes ==
    ASSUME NEW url
    PROVE  /\ Matches(Routes[44].pat, url) => Len(url) = 4 /\ url[4] = "log"
           /\ Matches(Routes[45].pat, url) =>
                Len(url) = 4 /\ url[4] = "externaldata"
           /\ \A i \in {46, 47} :
                Matches(Routes[i].pat, url) =>
                  Len(url) = 4 /\ url[4] = "watcher"
           /\ \A i \in {48, 50} :
                Matches(Routes[i].pat, url) =>
                  Len(url) = 5 /\ url[4] = "watcher"
           /\ \A i \in {49, 51} :
                Matches(Routes[i].pat, url) =>
                  Len(url) = 6 /\ url[4] = "watcher"
           /\ Matches(Routes[52].pat, url) => Len(url) = 6
           /\ Matches(Routes[53].pat, url) => Len(url) = 4 /\ url[4] = "graph"
  <1>1. \A a, b : Accepts(a, b) /\ a \in {"log", "externaldata", "watcher",
                                            "graph"} => b = a
    BY DEF Accepts
  <1>2. /\ Routes[44].pat = <<"%U", "host", "%U", "log">>
        /\ Routes[45].pat = <<"%U", "host", "%U", "externaldata">>
        /\ Routes[46].pat = <<"%U", "host", "%U", "watcher">>
        /\ Routes[47].pat = <<"%U", "host", "%U", "watcher">>
    BY HostEntries DEF R
  <1>3. /\ Routes[48].pat = <<"%U", "host", "%U", "watcher", "%S">>
        /\ Routes[49].pat = <<"%U", "host", "%U", "watcher", "%S", "%S">>
        /\ Routes[50].pat = <<"%U", "host", "%U", "watcher", "%S">>
        /\ Routes[51].pat = <<"%U", "host", "%U", "watcher", "%S", "%S">>
        /\ Routes[52].pat = <<"%U", "host", "%U", "range", "%T", "%T">>
        /\ Routes[53].pat = <<"%U", "host", "%U", "graph">>
    BY LastEntries DEF R
  <1>4. /\ Matches(Routes[44].pat, url) => Len(url) = 4 /\ url[4] = "log"
        /\ Matches(Routes[45].pat, url) =>
             Len(url) = 4 /\ url[4] = "externaldata"
        /\ Matches(Routes[46].pat, url) => Len(url) = 4 /\ url[4] = "watcher"
        /\ Matches(Routes[47].pat, url) => Len(url) = 4 /\ url[4] = "watcher"
        /\ Matches(Routes[53].pat, url) => Len(url) = 4 /\ url[4] = "graph"
    BY <1>1, <1>2, <1>3, Lengths
  <1>5. /\ Matches(Routes[48].pat, url) => Len(url) = 5 /\ url[4] = "watcher"
        /\ Matches(Routes[50].pat, url) => Len(url) = 5 /\ url[4] = "watcher"
    BY <1>1, <1>3, Lengths
  <1>6. /\ Matches(Routes[49].pat, url) => Len(url) = 6 /\ url[4] = "watcher"
        /\ Matches(Routes[51].pat, url) => Len(url) = 6 /\ url[4] = "watcher"
        /\ Matches(Routes[52].pat, url) => Len(url) = 6
    BY <1>1, <1>3, Lengths
  <1> QED
    BY <1>4, <1>5, <1>6

(* The entries that let requests pass.                                     *)
FilterNames == {"flt_add_cors", "flt_check_validuser", "flt_check_admin",
                "flt_check_tenant", "flt_check_host"}

(* The first entry that takes a request answers it.                        *)
LEMMA FirstAnswer ==
    ASSUME NEW req, NEW n \in 1 .. 57, NEW pat, NEW mask, NEW func,
           Routes[n] = R(pat, mask, func), func \notin FilterNames,
           req.method \in mask, Matches(pat, req.url),
           \A i \in 1 .. n - 1 : ~Hit(req, i)
    PROVE  Dispatch(req, Administrator) = func
  <1>1. Answers(func, req, Administrator)
    BY DEF Answers, FilterNames
  <1>2. Hit(req, n) /\ Routes[n].func = func
    BY <1>1 DEF Hit, R
  <1> QED
    BY <1>2, FirstHit

(* The first entry about a tenant that takes a request answers it.         *)
LEMMA TenantPage ==
    ASSUME NEW req, req.method # "OPTIONS", req.url[1] \in Tenants,
           NEW n \in 17 .. 55, NEW pat, NEW mask, NEW func,
           Routes[n] = R(pat, mask, func), func \notin FilterNames,
           req.method \in mask, Matches(pat, req.url),
           \A i \in 17 .. n - 1 : ~Hit(req, i)
    PROVE  Dispatch(req, Administrator) = func
  <1>1. \A i \in 1 .. n - 1 : ~Hit(req, i)
    BY TenantsPass
  <1> QED
    BY <1>1, FirstAnswer

(* What the arguments of a pattern take.                                   *)
LEMMA UuidsFit ==
    /\ \A t \in Tenants : Accepts("%U", t)
    /\ \A h \in Hosts : Accepts("%U", h)
    /\ \A w : w \notin {"%s", "%S", "%U", "%T", "%i"} => Accepts(w, w)
    /\ \A i \in Ints : Accepts("%i", i)
    /\ \A p : p \notin OddFields /\ p # Empty => Accepts("%S", p)
    /\ \A p : p # Empty => Accepts("%s", p)
  BY DEF Accepts, Uuids

(* A tenant is created, changed and deleted.                               *)
LEMMA TenantItself ==
    ASSUME NEW t \in Tenants, NEW req, req.url = <<t>>
    PROVE  /\ req.method = "POST" =>
                Dispatch(req, Administrator) = "cmd_tenant_create"
           /\ req.method = "PUT" =>
                Dispatch(req, Administrator) = "cmd_tenant_update"
           /\ req.method = "DELETE" =>
                Dispatch(req, Administrator) = "cmd_tenant_delete"
  <1>1. /\ req.url[1] \in Tenants /\ Matches(<<"%U">>, req.url)
    <2>1. Accepts("%U", t)
      BY UuidsFit
    <2> QED
      BY <2>1, Fits
  <1>2. /\ Routes[17] = R(<<"%U">>, GET, "cmd_tenant_get")
        /\ Routes[18] = R(<<"%U">>, POST, "cmd_tenant_create")
        /\ Routes[19] = R(<<"%U">>, PUT, "cmd_tenant_update")
        /\ Routes[21] = R(<<"%U">>, DELETE, "cmd_tenant_delete")
    BY TenantEntries
  <1>3. ASSUME req.method = "POST"
        PROVE  Dispatch(req, Administrator) = "cmd_tenant_create"
    <2>1. \A i \in 17 .. 18 - 1 : ~Hit(req, i)
      BY <1>2, <1>3 DEF Hit, R, GET
    <2> QED
      BY <1>1, <1>2, <1>3, <2>1, TenantPage DEF POST, FilterNames
  <1>4. ASSUME req.method = "PUT"
        PROVE  Dispatch(req, Administrator) = "cmd_tenant_update"
    <2>1. \A i \in 17 .. 19 - 1 : ~Hit(req, i)
      BY <1>2, <1>4 DEF Hit, R, GET, POST
    <2> QED
      BY <1>1, <1>2, <1>4, <2>1, TenantPage DEF PUT, FilterNames
  <1>5. ASSUME req.method = "DELETE"
        PROVE  Dispatch(req, Administrator) = "cmd_tenant_delete"
    <2>1. \A i \in 17 .. 21 - 1 : ~Hit(req, i)
      BY <1>2, <1>5, FiltersPass DEF Hit, R, GET, POST, PUT
    <2> QED
      BY <1>1, <1>2, <1>5, <2>1, TenantPage DEF DELETE, FilterNames
  <1> QED
    BY <1>3, <1>4, <1>5

(* What a tenant has is listed.                                            *)
LEMMA TenantLists ==
    ASSUME NEW t \in Tenants, NEW req, req.method = "GET", NEW w,
           req.url = <<t, w>>
    PROVE  /\ w = "summary" =>
                Dispatch(req, Administrator) = "cmd_tenant_get_summary"
           /\ w = "quota" =>
                Dispatch(req, Administrator) = "cmd_tenant_get_quota"
           /\ w = "meta" =>
                Dispatch(req, Administrator) = "cmd_tenant_get_meta"
           /\ w = "meter" =>
                Dispatch(req, Administrator) = "cmd_tenant_list_meters"
           /\ w = "watcher" =>
                Dispatch(req, Administrator) = "cmd_tenant_list_watchers"
           /\ w = "host" =>
                Dispatch(req, Administrator) = "cmd_tenant_list_hosts"
  <1> DEFINE Words == {"summary", "quota", "meta", "meter", "watcher", "host"}
  <1>1. req.url[1] \in Tenants /\ req.url[2] = w /\ Len(req.url) = 2
    OBVIOUS
  <1>2. ASSUME w \in Words, NEW n \in 17 .. 55, NEW func,
               Routes[n] = R(<<"%U", w>>, GET, func), func \notin FilterNames,
               \A i \in 17 .. n - 1 : ~Matches(Routes[i].pat, req.url)
        PROVE  Dispatch(req, Administrator) = func
    <2>1. Accepts("%U", t) /\ Accepts(w, w) /\ w # "*"
      BY <1>2, UuidsFit
    <2>2. Matches(<<"%U", w>>, req.url)
      BY <2>1, Fits
    <2>3. req.method \in GET /\ req.method # "OPTIONS"
      BY DEF GET
    <2>4. \A i \in 17 .. n - 1 : ~Hit(req, i)
      BY <1>2 DEF Hit
    <2> QED
      BY <1>1, <1>2, <2>2, <2>3, <2>4, TenantPage
  <1>3. /\ \A i \in 17 .. 21 : ~Matches(Routes[i].pat, req.url)
        /\ Matches(Routes[22].pat, req.url) => w = "summary"
        /\ Matches(Routes[23].pat, req.url) => w = "quota"
        /\ \A i \in 24 .. 26 : Matches(Routes[i].pat, req.url) => w = "meta"
        /\ Matches(Routes[27].pat, req.url) => w = "meter"
        /\ \A i \in 28 .. 31 : ~Matches(Routes[i].pat, req.url)
    BY <1>1, TenantShapes
  <1>4. /\ Matches(Routes[32].pat, req.url) => w = "watcher"
        /\ \A i \in 33 .. 36 : ~Matches(Routes[i].pat, req.url)
    BY <1>1, WatcherShapes
  <1>5. ASSUME w = "summary"
        PROVE  Dispatch(req, Administrator) = "cmd_tenant_get_summary"
    <2>1. Routes[22] = R(<<"%U", w>>, GET, "cmd_tenant_get_summary")
      BY <1>5, TenantEntries
    <2>2. \A i \in 17 .. 22 - 1 : ~Matches(Routes[i].pat, req.url)
      BY <1>3, <1>5
    <2>3. /\ w \in Words /\ 22 \in 17 .. 55
          /\ "cmd_tenant_get_summary" \notin FilterNames
      BY <1>5 DEF FilterNames
    <2> QED
      BY <1>2, <2>1, <2>2, <2>3, Zenon
  <1>6. ASSUME w = "quota"
        PROVE  Dispatch(req, Administrator) = "cmd_tenant_get_quota"
    <2>1. Routes[23] = R(<<"%U", w>>, GET, "cmd_tenant_get_quota")
      BY <1>6, TenantEntries
    <2>2. \A i \in 17 .. 23 - 1 : ~Matches(Routes[i].pat, req.url)
      BY <1>3, <1>6
    <2>3. /\ w \in Words /\ 23 \in 17 .. 55
          /\ "cmd_tenant_get_quota" \notin FilterNames
      BY <1>6 DEF FilterNames
    <2> QED
      BY <1>2, <2>1, <2>2, <2>3, Zenon
  <1>7. ASSUME w = "meta"
        PROVE  Dispatch(req, Administrator) = "cmd_tenant_get_meta"
    <2>1. Routes[24] = R(<<"%U", w>>, GET, "cmd_tenant_get_meta")
      BY <1>7, TenantEntries
    <2>2. \A i \in 17 .. 24 - 1 : ~Matches(Routes[i].pat, req.url)
      BY <1>3, <1>7
    <2>3. /\ w \in Words /\ 24 \in 17 .. 55
          /\ "cmd_tenant_get_meta" \notin FilterNames
      BY <1>7 DEF FilterNames
    <2> QED
      BY <1>2, <2>1, <2>2, <2>3, Zenon
  <1>8. ASSUME w = "meter"
        PROVE  Dispatch(req, Administrator) = "cmd_tenant_list_meters"
    <2>1. Routes[27] = R(<<"%U", w>>, GET, "cmd_tenant_list_meters")
      BY <1>8, TenantEntries
    <2>2. \A i \in 17 .. 27 - 1 : ~Matches(Routes[i].pat, req.url)
      BY <1>3, <1>8
    <2>3. /\ w \in Words /\ 27 \in 17 .. 55
          /\ "cmd_tenant_list_meters" \notin FilterNames
      BY <1>8 DEF FilterNames
    <2> QED
      BY <1>2, <2>1, <2>2, <2>3, Zenon
  <1>9. ASSUME w = "watcher"
        PROVE  Dispatch(req, Administrator) = "cmd_tenant_list_watchers"
    <2>1. Routes[32] = R(<<"%U", w>>, GET, "cmd_tenant_list_watchers")
      BY <1>9, MeterEntries
    <2>2. \A i \in 17 .. 32 - 1 : ~Matches(Routes[i].pat, req.url)
      BY <1>3, <1>9
    <2>3. /\ w \in Words /\ 32 \in 17 .. 55
          /\ "cmd_tenant_list_watchers" \notin FilterNames
      BY <1>9 DEF FilterNames
    <2> QED
      BY <1>2, <2>1, <2>2, <2>3, Zenon
  <1>10. ASSUME w = "host"
        PROVE  Dispatch(req, Administrator) = "cmd_tenant_list_hosts"
    <2>1. Routes[37] = R(<<"%U", w>>, GET, "cmd_tenant_list_hosts")
      BY <1>10, MeterEntries
    <2>2. \A i \in 17 .. 37 - 1 : ~Matches(Routes[i].pat, req.url)
      BY <1>3, <1>4, <1>10
    <2>3. /\ w \in Words /\ 37 \in 17 .. 55
          /\ "cmd_tenant_list_hosts" \notin FilterNames
      BY <1>10 DEF FilterNames
    <2> QED
      BY <1>2, <2>1, <2>2, <2>3, Zenon
  <1> QED
    BY <1>5, <1>6, <1>7, <1>8, <1>9, <1>10

(* The words of urls take themselves.                                      *)
LEMMA WordsFit ==
    /\ Accepts("any", "any") /\ Accepts("host", "host")
    /\ Accepts("overview", "overview") /\ Accepts("tenant", "tenant")
    /\ Accepts("meta", "meta") /\ Accepts("meter", "meter")
    /\ Accepts("watcher", "watcher") /\ Accepts("log", "log")
    /\ Accepts("externaldata", "externaldata") /\ Accepts("graph", "graph")
    /\ Accepts("user", "user")
  BY DEF Accepts

(* What the clients call meters and graphs.                                *)
LEMMA NamesFit ==
    /\ Accepts("%S", "pcpu") /\ Accepts("%S", "net")
    /\ Accepts("%S", "in_kbs") /\ Accepts("%S", "cpu")
    /\ Accepts("%S", "usage")
  <1>1. /\ "pcpu" \notin OddFields /\ "net" \notin OddFields
        /\ "in_kbs" \notin OddFields /\ "cpu" \notin OddFields
        /\ "usage" \notin OddFields
    BY ClientConstants
  <1> QED
    BY <1>1, EmptyIsNoWord, UuidsFit

(* A host's uuid is no word.                                               *)
LEMMA HostsAreNoWords ==
    ASSUME NEW h \in Hosts
    PROVE  h # "overview" /\ h # NilUuid
  BY ClientConstants, RouteConstants

(* What posts and deletions may match.                                     *)
LEMMA Masks ==
    /\ "GET" \in GET /\ "GET" \notin UPDATE /\ "GET" \notin DELETE
    /\ "POST" \in UPDATE /\ "POST" \notin DELETE /\ "POST" \notin GET
    /\ "DELETE" \in DELETE /\ "DELETE" \notin UPDATE /\ "DELETE" \notin GET
  BY DEF UPDATE, POST, PUT, DELETE, GET

(* A tenant's metadata are written.                                        *)
LEMMA TenantMeta ==
    ASSUME NEW t \in Tenants, NEW req, req.method = "POST",
           req.url = <<t, "meta">>
    PROVE  Dispatch(req, Administrator) = "cmd_tenant_set_meta"
  <1>1. req.url[1] \in Tenants /\ req.url[2] = "meta" /\ Len(req.url) = 2
    OBVIOUS
  <1>2. Matches(<<"%U", "meta">>, req.url)
    BY <1>1, UuidsFit, WordsFit, Fits
  <1>3. ~Hit(req, 24)
    BY Masks, TenantEntries DEF Hit, R
  <1>4. \A i \in 17 .. 25 - 1 : ~Hit(req, i)
    BY <1>1, <1>3, TenantShapes DEF Hit
  <1>5. Routes[25] = R(<<"%U", "meta">>, UPDATE, "cmd_tenant_set_meta")
    BY TenantEntries
  <1> QED
    BY <1>1, <1>2, <1>4, <1>5, Masks, TenantPage DEF FilterNames

(* A tenant's meters, whose ids are of one field or of two.                *)
LEMMA TenantMeter ==
    ASSUME NEW req, Len(req.url) = 3, req.url[1] \in Tenants,
           req.url[2] = "meter", Accepts("%S", req.url[3])
    PROVE  /\ req.method = "POST" =>
                Dispatch(req, Administrator) = "cmd_tenant_set_meter"
           /\ req.method = "DELETE" =>
                Dispatch(req, Administrator) = "cmd_tenant_delete_meter"
  <1>1. Matches(<<"%U", "meter", "%S">>, req.url)
    BY UuidsFit, WordsFit, Fits
  <1>2. /\ Routes[28] = R(<<"%U", "meter", "%S">>, UPDATE,
                          "cmd_tenant_set_meter")
        /\ Routes[30] = R(<<"%U", "meter", "%S">>, DELETE,
                          "cmd_tenant_delete_meter")
    BY MeterEntries
  <1>3. \A i \in 17 .. 28 - 1 : ~Hit(req, i)
    BY TenantShapes DEF Hit
  <1>4. req.method = "DELETE" => ~Hit(req, 28)
    BY <1>2, Masks DEF Hit, R
  <1>5. req.method = "DELETE" => \A i \in 17 .. 30 - 1 : ~Hit(req, i)
    <2>1. ~Hit(req, 29)
      BY TenantShapes DEF Hit
    <2> QED
      BY <1>3, <1>4, <2>1
  <1>6. req.method = "POST" =>
          Dispatch(req, Administrator) = "cmd_tenant_set_meter"
    BY <1>1, <1>2, <1>3, Masks, TenantPage DEF FilterNames
  <1>7. req.method = "DELETE" =>
          Dispatch(req, Administrator) = "cmd_tenant_delete_meter"
    BY <1>1, <1>2, <1>5, Masks, TenantPage DEF FilterNames
  <1> QED
    BY <1>6, <1>7

(* Those of two fields.                                                    *)
LEMMA TenantMeter2 ==
    ASSUME NEW req, Len(req.url) = 4, req.url[1] \in Tenants,
           req.url[2] = "meter", Accepts("%S", req.url[3]),
           Accepts("%S", req.url[4])
    PROVE  /\ req.method = "POST" =>
                Dispatch(req, Administrator) = "cmd_tenant_set_meter"
           /\ req.method = "DELETE" =>
                Dispatch(req, Administrator) = "cmd_tenant_delete_meter"
  <1>1. Matches(<<"%U", "meter", "%S", "%S">>, req.url)
    BY UuidsFit, WordsFit, Fits
  <1>2. /\ Routes[29] = R(<<"%U", "meter", "%S", "%S">>, UPDATE,
                          "cmd_tenant_set_meter")
        /\ Routes[31] = R(<<"%U", "meter", "%S", "%S">>, DELETE,
                          "cmd_tenant_delete_meter")
    BY MeterEntries
  <1>3. \A i \in 17 .. 29 - 1 : ~Hit(req, i)
    BY TenantShapes DEF Hit
  <1>4. req.method = "DELETE" => ~Hit(req, 29)
    BY <1>2, Masks DEF Hit, R
  <1>5. req.method = "DELETE" => \A i \in 17 .. 31 - 1 : ~Hit(req, i)
    <2>1. ~Hit(req, 30)
      BY TenantShapes DEF Hit
    <2> QED
      BY <1>3, <1>4, <2>1
  <1>6. req.method = "POST" =>
          Dispatch(req, Administrator) = "cmd_tenant_set_meter"
    BY <1>1, <1>2, <1>3, Masks, TenantPage DEF FilterNames
  <1>7. req.method = "DELETE" =>
          Dispatch(req, Administrator) = "cmd_tenant_delete_meter"
    BY <1>1, <1>2, <1>5, Masks, TenantPage DEF FilterNames
  <1> QED
    BY <1>6, <1>7

(* And its watchers.                                                       *)
LEMMA TenantWatcher ==
    ASSUME NEW req, Len(req.url) = 3, req.url[1] \in Tenants,
           req.url[2] = "watcher", Accepts("%S", req.url[3])
    PROVE  /\ req.method = "POST" =>
                Dispatch(req, Administrator) = "cmd_tenant_set_watcher"
           /\ req.method = "DELETE" =>
                Dispatch(req, Administrator) = "cmd_tenant_delete_watcher"
  <1>1. Matches(<<"%U", "watcher", "%S">>, req.url)
    BY UuidsFit, WordsFit, Fits
  <1>2. /\ Routes[33] = R(<<"%U", "watcher", "%S">>, UPDATE,
                          "cmd_tenant_set_watcher")
        /\ Routes[35] = R(<<"%U", "watcher", "%S">>, DELETE,
                          "cmd_tenant_delete_watcher")
    BY MeterEntries
  <1>3. \A i \in 17 .. 33 - 1 : ~Hit(req, i)
    BY TenantShapes, WatcherShapes DEF Hit
  <1>4. req.method = "DELETE" => ~Hit(req, 33)
    BY <1>2, Masks DEF Hit, R
  <1>5. req.method = "DELETE" => \A i \in 17 .. 35 - 1 : ~Hit(req, i)
    <2>1. ~Hit(req, 34)
      BY WatcherShapes DEF Hit
    <2> QED
      BY <1>3, <1>4, <2>1
  <1>6. req.method = "POST" =>
          Dispatch(req, Administrator) = "cmd_tenant_set_watcher"
    BY <1>1, <1>2, <1>3, Masks, TenantPage DEF FilterNames
  <1>7. req.method = "DELETE" =>
          Dispatch(req, Administrator) = "cmd_tenant_delete_watcher"
    BY <1>1, <1>2, <1>5, Masks, TenantPage DEF FilterNames
  <1> QED
    BY <1>6, <1>7

(* Those of two fields.                                                    *)
LEMMA TenantWatcher2 ==
    ASSUME NEW req, Len(req.url) = 4, req.url[1] \in Tenants,
           req.url[2] = "watcher", Accepts("%S", req.url[3]),
           Accepts("%S", req.url[4])
    PROVE  /\ req.method = "POST" =>
                Dispatch(req, Administrator) = "cmd_tenant_set_watcher"
           /\ req.method = "DELETE" =>
                Dispatch(req, Administrator) = "cmd_tenant_delete_watcher"
  <1>1. Matches(<<"%U", "watcher", "%S", "%S">>, req.url)
    BY UuidsFit, WordsFit, Fits
  <1>2. /\ Routes[34] = R(<<"%U", "watcher", "%S", "%S">>, UPDATE,
                          "cmd_tenant_set_watcher")
        /\ Routes[36] = R(<<"%U", "watcher", "%S", "%S">>, DELETE,
                          "cmd_tenant_delete_watcher")
    BY MeterEntries
  <1>3. \A i \in 17 .. 34 - 1 : ~Hit(req, i)
    BY TenantShapes, WatcherShapes DEF Hit
  <1>4. req.method = "DELETE" => ~Hit(req, 34)
    BY <1>2, Masks DEF Hit, R
  <1>5. req.method = "DELETE" => \A i \in 17 .. 36 - 1 : ~Hit(req, i)
    <2>1. ~Hit(req, 35)
      BY WatcherShapes DEF Hit
    <2> QED
      BY <1>3, <1>4, <2>1
  <1>6. req.method = "POST" =>
          Dispatch(req, Administrator) = "cmd_tenant_set_watcher"
    BY <1>1, <1>2, <1>3, Masks, TenantPage DEF FilterNames
  <1>7. req.method = "DELETE" =>
          Dispatch(req, Administrator) = "cmd_tenant_delete_watcher"
    BY <1>1, <1>2, <1>5, Masks, TenantPage DEF FilterNames
  <1> QED
    BY <1>6, <1>7

(* The overview is found before the hosts.                                 *)
LEMMA TenantOverview ==
    ASSUME NEW t \in Tenants, NEW req, req.method = "GET",
           req.url = <<t, "host", "overview">>
    PROVE  Dispatch(req, Administrator) = "cmd_host_overview"
  <1>1. /\ req.url[1] \in Tenants /\ req.url[2] = "host"
        /\ req.url[3] = "overview" /\ Len(req.url) = 3
    OBVIOUS
  <1>2. Matches(<<"%U", "host", "overview">>, req.url)
    BY <1>1, UuidsFit, WordsFit, Fits
  <1>3. \A i \in 17 .. 39 - 1 : ~Hit(req, i)
    BY <1>1, TenantShapes, WatcherShapes DEF Hit
  <1>4. Routes[39] = R(<<"%U", "host", "overview">>, GET, "cmd_host_overview")
    BY HostEntries
  <1> QED
    BY <1>1, <1>2, <1>3, <1>4, Masks, TenantPage DEF FilterNames

(* About a host, a request passes the entries before the host's.           *)
AboutHost(req) ==
    /\ req.method # "OPTIONS" /\ req.url[1] \in Tenants
    /\ req.url[2] = "host" /\ req.url[3] \in Hosts

(* Nothing before the host's entries takes it, nor what is about the host  *)
(* alone if there is more.                                                 *)
LEMMA HostsPass ==
    ASSUME NEW req, AboutHost(req), Len(req.url) \in 3 .. 8
    PROVE  /\ \A i \in 17 .. 40 : ~Hit(req, i)
           /\ Len(req.url) # 3 => \A i \in 17 .. 43 : ~Hit(req, i)
  <1>1. req.url[3] # "overview" /\ req.url[3] # NilUuid
    BY HostsAreNoWords DEF AboutHost
  <1>2. \A i \in 17 .. 31 : ~Hit(req, i)
    BY TenantShapes DEF Hit, AboutHost
  <1>3. \A i \in 32 .. 39 : ~Hit(req, i)
    BY <1>1, WatcherShapes DEF Hit, AboutHost
  <1>4. ~Hit(req, 40)
    BY <1>1, FiltersPass DEF AboutHost
  <1>5. Len(req.url) # 3 => \A i \in 41 .. 43 : ~Hit(req, i)
    BY WatcherShapes DEF Hit
  <1> QED
    BY <1>2, <1>3, <1>4, <1>5

(* A host is read, or removed.                                             *)
LEMMA HostItself ==
    ASSUME NEW req, AboutHost(req), Len(req.url) = 3
    PROVE  /\ req.method = "GET" =>
                Dispatch(req, Administrator) = "cmd_host_get"
           /\ req.method = "DELETE" =>
                Dispatch(req, Administrator) = "cmd_host_remove"
  <1>1. Matches(<<"%U", "host", "%U">>, req.url)
    BY UuidsFit, WordsFit, Fits DEF AboutHost
  <1>2. \A i \in 17 .. 41 - 1 : ~Hit(req, i)
    BY HostsPass
  <1>3. /\ Routes[41] = R(<<"%U", "host", "%U">>, GET, "cmd_host_get")
        /\ Routes[42] = R(<<"%U", "host", "%U">>, DELETE, "cmd_host_remove")
    BY HostEntries
  <1>4. req.method = "DELETE" => ~Hit(req, 41)
    BY <1>3, Masks DEF Hit, R
  <1>5. req.method = "DELETE" => \A i \in 17 .. 42 - 1 : ~Hit(req, i)
    BY <1>2, <1>4
  <1>6. req.method = "GET" => Dispatch(req, Administrator) = "cmd_host_get"
    BY <1>1, <1>2, <1>3, Masks, TenantPage DEF FilterNames, AboutHost
  <1>7. req.method = "DELETE" =>
          Dispatch(req, Administrator) = "cmd_host_remove"
    BY <1>1, <1>3, <1>5, Masks, TenantPage DEF FilterNames, AboutHost
  <1> QED
    BY <1>6, <1>7

(* What a host has is listed.                                              *)
LEMMA HostLists ==
    ASSUME NEW req, AboutHost(req), Len(req.url) = 4, req.method = "GET"
    PROVE  /\ req.url[4] = "log" =>
                Dispatch(req, Administrator) = "cmd_host_get_log"
           /\ req.url[4] = "externaldata" =>
                Dispatch(req, Administrator) = "cmd_host_get_external"
           /\ req.url[4] = "watcher" =>
                Dispatch(req, Administrator) = "cmd_host_list_watchers"
  <1> DEFINE w == req.url[4]
  <1>1. /\ w = "log" => Matches(<<"%U", "host", "%U", "log">>, req.url)
        /\ w = "externaldata" =>
             Matches(<<"%U", "host", "%U", "externaldata">>, req.url)
        /\ w = "watcher" => Matches(<<"%U", "host", "%U", "watcher">>, req.url)
    BY UuidsFit, WordsFit, Fits DEF AboutHost
  <1>2. \A i \in 17 .. 44 - 1 : ~Hit(req, i)
    BY HostsPass
  <1>3. /\ w # "log" => ~Hit(req, 44)
        /\ w # "externaldata" => ~Hit(req, 45)
    BY HostShapes DEF Hit
  <1>4. /\ w = "externaldata" => \A i \in 17 .. 45 - 1 : ~Hit(req, i)
        /\ w = "watcher" => \A i \in 17 .. 46 - 1 : ~Hit(req, i)
    BY <1>2, <1>3
  <1>5. /\ Routes[44] = R(<<"%U", "host", "%U", "log">>, GET,
                          "cmd_host_get_log")
        /\ Routes[45] = R(<<"%U", "host", "%U", "externaldata">>, GET,
                          "cmd_host_get_external")
        /\ Routes[46] = R(<<"%U", "host", "%U", "watcher">>, GET,
                          "cmd_host_list_watchers")
    BY HostEntries
  <1>6. w = "log" => Dispatch(req, Administrator) = "cmd_host_get_log"
    BY <1>1, <1>2, <1>5, Masks, TenantPage DEF FilterNames, AboutHost
  <1>7. w = "externaldata" =>
          Dispatch(req, Administrator) = "cmd_host_get_external"
    BY <1>1, <1>4, <1>5, Masks, TenantPage DEF FilterNames, AboutHost
  <1>8. w = "watcher" =>
          Dispatch(req, Administrator) = "cmd_host_list_watchers"
    BY <1>1, <1>4, <1>5, Masks, TenantPage DEF FilterNames, AboutHost
  <1> QED
    BY <1>6, <1>7, <1>8

(* A host's watchers, for meters of one field.                             *)
LEMMA HostWatcher ==
    ASSUME NEW req, AboutHost(req), Len(req.url) = 5,
           req.url[4] = "watcher", Accepts("%S", req.url[5])
    PROVE  /\ req.method = "POST" =>
                Dispatch(req, Administrator) = "cmd_host_set_watcher"
           /\ req.method = "DELETE" =>
                Dispatch(req, Administrator) = "cmd_host_delete_watcher"
  <1> DEFINE pat == <<"%U", "host", "%U", "watcher", "%S">>
  <1>1. Matches(pat, req.url)
    BY UuidsFit, WordsFit, Fits DEF AboutHost
  <1>2. /\ Routes[48] = R(pat, UPDATE, "cmd_host_set_watcher")
        /\ Routes[50] = R(pat, DELETE, "cmd_host_delete_watcher")
    BY LastEntries
  <1> HIDE DEF pat
  <1>3. \A i \in 17 .. 43 : ~Hit(req, i)
    BY HostsPass
  <1>4. \A i \in 44 .. 48 - 1 : ~Hit(req, i)
    BY HostShapes DEF Hit
  <1>5. \A i \in 17 .. 48 - 1 : ~Hit(req, i)
    BY <1>3, <1>4
  <1>6. req.method = "DELETE" => ~Hit(req, 48)
    BY <1>2, Masks DEF Hit, R
  <1>7. ~Hit(req, 49)
    BY HostShapes DEF Hit
  <1>8. req.method = "DELETE" => \A i \in 17 .. 50 - 1 : ~Hit(req, i)
    BY <1>5, <1>6, <1>7
  <1>9. req.method = "POST" =>
          Dispatch(req, Administrator) = "cmd_host_set_watcher"
    BY <1>1, <1>2, <1>5, Masks, TenantPage DEF FilterNames, AboutHost
  <1>10. req.method = "DELETE" =>
           Dispatch(req, Administrator) = "cmd_host_delete_watcher"
    BY <1>1, <1>2, <1>8, Masks, TenantPage DEF FilterNames, AboutHost
  <1> QED
    BY <1>9, <1>10

(* And of two.                                                             *)
LEMMA HostWatcher2 ==
    ASSUME NEW req, AboutHost(req), Len(req.url) = 6,
           req.url[4] = "watcher", Accepts("%S", req.url[5]),
           Accepts("%S", req.url[6])
    PROVE  /\ req.method = "POST" =>
                Dispatch(req, Administrator) = "cmd_host_set_watcher"
           /\ req.method = "DELETE" =>
                Dispatch(req, Administrator) = "cmd_host_delete_watcher"
  <1> DEFINE pat == <<"%U", "host", "%U", "watcher", "%S", "%S">>
  <1>1. Matches(pat, req.url)
    BY UuidsFit, WordsFit, Fits DEF AboutHost
  <1>2. /\ Routes[49] = R(pat, UPDATE, "cmd_host_set_watcher")
        /\ Routes[51] = R(pat, DELETE, "cmd_host_delete_watcher")
    BY LastEntries
  <1> HIDE DEF pat
  <1>3. \A i \in 17 .. 43 : ~Hit(req, i)
    BY HostsPass
  <1>4. \A i \in 44 .. 49 - 1 : ~Hit(req, i)
    BY HostShapes DEF Hit
  <1>5. \A i \in 17 .. 49 - 1 : ~Hit(req, i)
    BY <1>3, <1>4
  <1>6. req.method = "DELETE" => ~Hit(req, 49)
    BY <1>2, Masks DEF Hit, R
  <1>7. ~Hit(req, 50)
    BY HostShapes DEF Hit
  <1>8. req.method = "DELETE" => \A i \in 17 .. 51 - 1 : ~Hit(req, i)
    BY <1>5, <1>6, <1>7
  <1>9. req.method = "POST" =>
          Dispatch(req, Administrator) = "cmd_host_set_watcher"
    BY <1>1, <1>2, <1>5, Masks, TenantPage DEF FilterNames, AboutHost
  <1>10. req.method = "DELETE" =>
           Dispatch(req, Administrator) = "cmd_host_delete_watcher"
    BY <1>1, <1>2, <1>8, Masks, TenantPage DEF FilterNames, AboutHost
  <1> QED
    BY <1>9, <1>10

(* A graph of a host.                                                      *)
LEMMA HostGraph ==
    ASSUME NEW req, AboutHost(req), Len(req.url) = 8, req.method = "GET",
           req.url[4] = "graph", Accepts("%S", req.url[5]),
           Accepts("%S", req.url[6]), Accepts("%i", req.url[7]),
           Accepts("%i", req.url[8])
    PROVE  Dispatch(req, Administrator) = "cmd_host_get_graph"
  <1> DEFINE pat == <<"%U", "host", "%U", "graph", "%S", "%S", "%i", "%i">>
  <1>1. Matches(pat, req.url)
    BY UuidsFit, WordsFit, Fits DEF AboutHost
  <1>2. Routes[54] = R(pat, GET, "cmd_host_get_graph")
    BY LastEntries
  <1> HIDE DEF pat
  <1>3. \A i \in 17 .. 43 : ~Hit(req, i)
    BY HostsPass
  <1>4. \A i \in 44 .. 53 : ~Hit(req, i)
    BY HostShapes DEF Hit
  <1>5. \A i \in 17 .. 54 - 1 : ~Hit(req, i)
    BY <1>3, <1>4
  <1> QED
    BY <1>1, <1>2, <1>5, Masks, TenantPage DEF FilterNames, AboutHost

(* A word takes the url that is only the word.                             *)
LEMMA WordUrl ==
    ASSUME NEW w, NEW url,
           w \notin {"*", "any*", "%s", "%S", "%U", "%T", "%i"}
    PROVE  Matches(<<w>>, url) <=> Len(url) = 1 /\ url[1] = w
  <1>1. /\ <<w>>[1] = w /\ Len(<<w>>) = 1 /\ <<w>> # <<"*">>
        /\ <<w>> # <<"any*">>
    OBVIOUS
  <1>2. Accepts(w, url[1]) <=> url[1] = w
    BY DEF Accepts
  <1> QED
    BY <1>1, <1>2 DEF Matches

(* What the entries that begin with a word ask of a url.                   *)
LEMMA WordShapes ==
    ASSUME NEW url
    PROVE  /\ Matches(Routes[1].pat, url) =>
                url[1] = "obligatory-dancing-bears"
           /\ Matches(Routes[3].pat, url) => url[1] = "login"
           /\ \A i \in {5, 6} : Matches(Routes[i].pat, url) => url[1] = Empty
           /\ Matches(Routes[7].pat, url) => url[1] = "token"
           /\ \A i \in {8, 9} :
                Matches(Routes[i].pat, url) => url[1] = "session"
           /\ \A i \in {10, 11} :
                Matches(Routes[i].pat, url) => url[1] = "user"
           /\ \A i \in {13, 14} : Matches(Routes[i].pat, url) => Len(url) = 3
  <1>1. \A w \in {"obligatory-dancing-bears", "login", Empty, "token",
                  "session"} : Matches(<<w>>, url) => url[1] = w
    BY WordUrl, EmptyIsNoWord
  <1>2. Matches(<<"user", "%s">>, url) => url[1] = "user"
    BY DEF Matches, Accepts
  <1>3. /\ Routes[1].pat = <<"obligatory-dancing-bears">>
        /\ Routes[3].pat = <<"login">> /\ Routes[5].pat = <<Empty>>
        /\ Routes[6].pat = <<Empty>>
    BY Entrances DEF R
  <1>4. /\ Routes[7].pat = <<"token">> /\ Routes[8].pat = <<"session">>
        /\ Routes[9].pat = <<"session">>
    BY Entrances DEF R
  <1>5. /\ Routes[10].pat = <<"user", "%s">>
        /\ Routes[11].pat = <<"user", "%s">>
    BY Entrances DEF R
  <1>6. /\ Routes[13].pat = <<"any", "host", "overview">>
        /\ Routes[14].pat = <<"any", "host", "%U">>
    BY Entrances DEF R
  <1>7. /\ Matches(Routes[1].pat, url) => url[1] = "obligatory-dancing-bears"
        /\ Matches(Routes[3].pat, url) => url[1] = "login"
        /\ Matches(Routes[5].pat, url) => url[1] = Empty
        /\ Matches(Routes[6].pat, url) => url[1] = Empty
    BY <1>1, <1>3
  <1>8. /\ Matches(Routes[7].pat, url) => url[1] = "token"
        /\ Matches(Routes[8].pat, url) => url[1] = "session"
        /\ Matches(Routes[9].pat, url) => url[1] = "session"
    BY <1>1, <1>4
  <1>9. /\ Matches(Routes[10].pat, url) => url[1] = "user"
        /\ Matches(Routes[11].pat, url) => url[1] = "user"
    BY <1>2, <1>5
  <1>10. /\ Matches(Routes[13].pat, url) => Len(url) = 3
         /\ Matches(Routes[14].pat, url) => Len(url) = 3
    BY <1>6, Lengths
  <1> QED
    BY <1>7, <1>8, <1>9, <1>10

(* A page that is about nothing in particular.                             *)
LEMMA WordPages ==
    ASSUME NEW req, NEW w, req.url = <<w>>
    PROVE  /\ req.method = "GET" /\ w = "obligatory-dancing-bears" =>
                Dispatch(req, Administrator) = "cmd_dancing_bears"
           /\ req.method = "POST" /\ w = "login" =>
                Dispatch(req, Administrator) = "cmd_login"
           /\ req.method = "GET" /\ w = Empty =>
                Dispatch(req, Administrator) = "cmd_list_tenants"
           /\ req.method = "GET" /\ w = "token" =>
                Dispatch(req, Administrator) = "cmd_token"
           /\ req.method = "GET" /\ w = "session" =>
                Dispatch(req, Administrator) = "cmd_list_sessions"
  <1>1. Len(req.url) = 1 /\ req.url[1] = w
    OBVIOUS
  <1>2. \A v \in {"obligatory-dancing-bears", "login", Empty, "token",
                  "session"} : w = v => Matches(<<v>>, req.url)
    BY <1>1, WordUrl, EmptyIsNoWord
  <1>3. req.method # "OPTIONS" => ~Hit(req, 2) /\ ~Hit(req, 4) /\ ~Hit(req, 8)
    BY FiltersPass
  <1>4. ASSUME req.method = "GET", w = "obligatory-dancing-bears"
        PROVE  Dispatch(req, Administrator) = "cmd_dancing_bears"
    <2>1. Routes[1] = R(<<"obligatory-dancing-bears">>, GET,
                        "cmd_dancing_bears")
      BY Entrances
    <2> QED
      BY <1>2, <1>4, <2>1, Masks, FirstAnswer DEF FilterNames
  <1>5. ASSUME req.method = "POST", w = "login"
        PROVE  Dispatch(req, Administrator) = "cmd_login"
    <2>1. Routes[3] = R(<<"login">>, POST, "cmd_login")
      BY Entrances
    <2>2. \A i \in 1 .. 3 - 1 : ~Hit(req, i)
      BY <1>1, <1>3, <1>5, WordShapes, EmptyIsNoWord DEF Hit
    <2> QED
      BY <1>2, <1>5, <2>1, <2>2, FirstAnswer DEF FilterNames, POST
  <1>6. ASSUME req.method = "GET", w = Empty
        PROVE  Dispatch(req, Administrator) = "cmd_list_tenants"
    <2>1. Routes[5] = R(<<Empty>>, GET, "cmd_list_tenants")
      BY Entrances
    <2>2. \A i \in 1 .. 5 - 1 : ~Hit(req, i)
      BY <1>1, <1>3, <1>6, WordShapes, EmptyIsNoWord DEF Hit
    <2> QED
      BY <1>2, <1>6, <2>1, <2>2, Masks, FirstAnswer DEF FilterNames
  <1>7. ASSUME req.method = "GET", w = "token"
        PROVE  Dispatch(req, Administrator) = "cmd_token"
    <2>1. Routes[7] = R(<<"token">>, GET, "cmd_token")
      BY Entrances
    <2>2. \A i \in 1 .. 7 - 1 : ~Hit(req, i)
      BY <1>1, <1>3, <1>7, WordShapes, EmptyIsNoWord DEF Hit
    <2> QED
      BY <1>2, <1>7, <2>1, <2>2, Masks, FirstAnswer DEF FilterNames
  <1>8. ASSUME req.method = "GET", w = "session"
        PROVE  Dispatch(req, Administrator) = "cmd_list_sessions"
    <2>1. Routes[9] = R(<<"session">>, GET, "cmd_list_sessions")
      BY Entrances
    <2>2. \A i \in 1 .. 9 - 1 : ~Hit(req, i)
      BY <1>1, <1>3, <1>8, WordShapes, EmptyIsNoWord DEF Hit
    <2> QED
      BY <1>2, <1>8, <2>1, <2>2, Masks, FirstAnswer DEF FilterNames
  <1> QED
    BY <1>4, <1>5, <1>6, <1>7, <1>8

(* A user is written or removed.                                           *)
LEMMA UserPages ==
    ASSUME NEW u, u # Empty, NEW req, req.url = <<"user", u>>
    PROVE  /\ req.method \in {"POST", "PUT"} =>
                Dispatch(req, Administrator) = "cmd_user_set"
           /\ req.method = "DELETE" =>
                Dispatch(req, Administrator) = "cmd_user_delete"
  <1>1. Len(req.url) = 2 /\ req.url[1] = "user" /\ req.url[2] # Empty
    OBVIOUS
  <1>2. Matches(<<"user", "%s">>, req.url)
    BY <1>1, UuidsFit, WordsFit, Fits
  <1>3. /\ Routes[10] = R(<<"user", "%s">>, UPDATE, "cmd_user_set")
        /\ Routes[11] = R(<<"user", "%s">>, DELETE, "cmd_user_delete")
    BY Entrances
  <1>4. /\ {"POST", "PUT"} \subseteq UPDATE /\ "DELETE" \notin UPDATE
        /\ "DELETE" \in DELETE
    BY DEF UPDATE, POST, PUT, DELETE
  <1>5. req.method # "OPTIONS" => ~Hit(req, 2) /\ ~Hit(req, 4)
    BY FiltersPass
  <1>6. req.method # "OPTIONS" => \A i \in 1 .. 10 - 1 : ~Hit(req, i)
    BY <1>1, <1>5, WordShapes, EmptyIsNoWord DEF Hit
  <1>7. req.method = "DELETE" => \A i \in 1 .. 11 - 1 : ~Hit(req, i)
    <2>1. req.method = "DELETE" => ~Hit(req, 10)
      BY <1>3, <1>4 DEF Hit, R
    <2> QED
      BY <1>6, <2>1
  <1>8. req.method \in {"POST", "PUT"} =>
          Dispatch(req, Administrator) = "cmd_user_set"
    BY <1>2, <1>3, <1>4, <1>6, FirstAnswer DEF FilterNames
  <1>9. req.method = "DELETE" =>
          Dispatch(req, Administrator) = "cmd_user_delete"
    BY <1>2, <1>3, <1>4, <1>7, FirstAnswer DEF FilterNames
  <1> QED
    BY <1>8, <1>9

(* What an administrator asks of the hosts of all tenants.                 *)
LEMMA AnyPages ==
    ASSUME NEW req, req.method = "GET"
    PROVE  /\ req.url = <<"any", "host", "overview">> =>
                Dispatch(req, Administrator) = "cmd_host_any_overview"
           /\ \A h \in Hosts :
                req.url = <<"any", "host", h, "tenant">> =>
                  Dispatch(req, Administrator) = "cmd_host_any_get_tenant"
  <1>1. ~Hit(req, 2) /\ ~Hit(req, 4) /\ ~Hit(req, 8) /\ ~Hit(req, 12)
    BY FiltersPass
  <1>2. req.url[1] = "any" => \A i \in 1 .. 12 : ~Hit(req, i)
    BY <1>1, WordShapes, EmptyIsNoWord DEF Hit
  <1>3. ASSUME req.url = <<"any", "host", "overview">>
        PROVE  Dispatch(req, Administrator) = "cmd_host_any_overview"
    <2>1. /\ Len(req.url) = 3 /\ req.url[1] = "any" /\ req.url[2] = "host"
          /\ req.url[3] = "overview"
      BY <1>3
    <2>2. Matches(<<"any", "host", "overview">>, req.url)
      BY <2>1, WordsFit, Fits
    <2>3. Routes[13] = R(<<"any", "host", "overview">>, GET,
                         "cmd_host_any_overview")
      BY Entrances
    <2>4. \A i \in 1 .. 13 - 1 : ~Hit(req, i)
      BY <1>2, <2>1
    <2> QED
      BY <2>2, <2>3, <2>4, Masks, FirstAnswer DEF FilterNames
  <1>4. ASSUME NEW h \in Hosts, req.url = <<"any", "host", h, "tenant">>
        PROVE  Dispatch(req, Administrator) = "cmd_host_any_get_tenant"
    <2>1. /\ Len(req.url) = 4 /\ req.url[1] = "any" /\ req.url[2] = "host"
          /\ req.url[3] = h /\ req.url[4] = "tenant"
      BY <1>4
    <2>2. Matches(<<"any", "host", "%U", "tenant">>, req.url)
      BY <2>1, UuidsFit, WordsFit, Fits
    <2>3. Routes[15] = R(<<"any", "host", "%U", "tenant">>, GET,
                         "cmd_host_any_get_tenant")
      BY Entrances
    <2>4. \A i \in 1 .. 15 - 1 : ~Hit(req, i)
      <3>1. \A i \in {13, 14} : ~Hit(req, i)
        BY <2>1, WordShapes, EmptyIsNoWord DEF Hit
      <3> QED
        BY <1>2, <2>1, <3>1
    <2> QED
      BY <2>2, <2>3, <2>4, Masks, FirstAnswer DEF FilterNames
  <1> QED
    BY <1>3, <1>4

(* What the functions answer with.                                         *)
LEMMA TenantKeys ==
    /\ Replies("cmd_list_tenants") = {"tenant"}
    /\ Replies("cmd_token") = {"token"}
    /\ Replies("cmd_tenant_get_quota") = {"quota", "usage"}
    /\ Replies("cmd_tenant_create") = {"tenant"}
    /\ Replies("cmd_tenant_update") = {"tenant"}
    /\ Replies("cmd_tenant_delete") = {"deleted"}
  BY DEF Replies, TenantReplies, MeterReplies, HostReplies, GraphReplies,
         RecordReplies, UserReplies

(* Those about meters and watchers.                                        *)
LEMMA MeterKeys ==
    /\ Replies("cmd_tenant_get_meta") = {"metadata"}
    /\ Replies("cmd_tenant_set_meta") = {"metadata"}
    /\ Replies("cmd_tenant_get_summary") = {"summary"}
    /\ Replies("cmd_tenant_list_meters") = {"meter"}
    /\ Replies("cmd_tenant_set_meter") = {"meter"}
    /\ Replies("cmd_tenant_delete_meter") = {"meter"}
    /\ Replies("cmd_tenant_list_watchers") = {"watcher"}
    /\ Replies("cmd_tenant_set_watcher") = {"watcher"}
    /\ Replies("cmd_tenant_delete_watcher") = {"watcher"}
    /\ Replies("cmd_tenant_list_hosts") = {"host"}
  BY DEF Replies, TenantReplies, MeterReplies, HostReplies, GraphReplies,
         RecordReplies, UserReplies

(* Those about hosts.                                                      *)
LEMMA HostKeys ==
    /\ Replies("cmd_host_overview") = {"overview"}
    /\ Replies("cmd_host_any_overview") = {"overview"}
    /\ Replies("cmd_host_any_get_tenant") = {"tenant"}
    /\ Replies("cmd_host_get_external") = {"external"}
    /\ Replies("cmd_host_remove") = {"host"}
    /\ Replies("cmd_host_get_log") = {"log"}
    /\ Replies("cmd_host_list_watchers") = {"watcher"}
    /\ Replies("cmd_host_set_watcher") = {"watcher"}
    /\ Replies("cmd_host_delete_watcher") = {"meter"}
  BY DEF Replies, TenantReplies, MeterReplies, HostReplies, GraphReplies,
         RecordReplies, UserReplies

(* And the others.                                                         *)
LEMMA OtherKeys ==
    /\ Replies("cmd_list_sessions") = {"session"}
    /\ Replies("cmd_host_get_graph") =
         {"data", "max", "title", "unit", "color", "meter"}
    /\ Replies("cmd_host_get") = {"record"}
    /\ Replies("cmd_login") = {"token"}
    /\ Replies("cmd_user_set") = {"result"}
    /\ Replies("cmd_user_delete") = {"status"}
    /\ Replies("cmd_dancing_bears") = {"bear"}
  BY DEF Replies, TenantReplies, MeterReplies, HostReplies, GraphReplies,
         RecordReplies, UserReplies

(* What they want of a body.                                               *)
Writers == {"cmd_tenant_create", "cmd_tenant_update", "cmd_tenant_set_meta",
            "cmd_tenant_set_meter", "cmd_tenant_set_watcher",
            "cmd_host_set_watcher", "cmd_user_set", "cmd_login"}

(* The keys they look for.                                                 *)
LEMMA WantedKeys ==
    ASSUME NEW m
    PROVE  /\ Wants("cmd_tenant_create", m) = {"tenant"}
           /\ Wants("cmd_tenant_update", m) = {"tenant"}
           /\ Wants("cmd_tenant_set_meta", m) = {"metadata"}
           /\ Wants("cmd_tenant_set_meter", m) = {"meter"}
           /\ Wants("cmd_tenant_set_watcher", m) = {"watcher"}
           /\ Wants("cmd_host_set_watcher", m) = {"watcher"}
           /\ Wants("cmd_user_set", "PUT") = {"tenant", "password"}
           /\ Wants("cmd_user_set", "POST") = {}
           /\ Wants("cmd_login", m) = {"username", "password"}
           /\ \A f : f \notin Writers => Wants(f, m) = {}
  BY DEF Wants, Writers

(* A request that only reads is understood by a function with such keys.   *)
LEMMA GetUnderstood ==
    ASSUME NEW url, NEW reads, NEW func, func \notin Writers,
           Dispatch(Get(url, reads), Administrator) = func,
           Replies(func) # {"error"}, reads \subseteq Replies(func)
    PROVE  Understood(Get(url, reads), Administrator)
  <1>1. Wants(func, Get(url, reads).method) = {}
    BY WantedKeys
  <1>2. Get(url, reads).reads = reads
    BY DEF Get
  <1> QED
    BY <1>1, <1>2 DEF Understood

(* Requests about nothing in particular are understood.                    *)
LEMMA CommonUnderstood ==
    ASSUME NEW req \in CommonRequests
    PROVE  Understood(req, Administrator)
  <1>1. CASE req \in cli_tenant_list
    <2>1. Dispatch(Get(<<Empty>>, {"tenant"}), Administrator)
            = "cmd_list_tenants"
      BY WordPages DEF Get
    <2> QED
      BY <1>1, <2>1, TenantKeys, GetUnderstood DEF cli_tenant_list, Writers
  <1>2. CASE req \in cli_session_list
    BY <1>2, WordPages, OtherKeys, WantedKeys
       DEF cli_session_list, Get, Understood, Writers
  <1>3. CASE req \in cli_bears
    BY <1>3, WordPages, OtherKeys, WantedKeys
       DEF cli_bears, Get, Understood, Writers
  <1>4. CASE req \in web_auth
    BY <1>4, WordPages, TenantKeys, OtherKeys, WantedKeys
       DEF web_auth, Get, Send, Understood, Writers
  <1> QED
    BY <1>1, <1>2, <1>3, <1>4 DEF CommonRequests

(* So are those about a user,                                              *)
LEMMA UserUnderstood ==
    ASSUME NEW u \in OddFields \union {"user"}, NEW req \in UserRequests(u)
    PROVE  Understood(req, Administrator)
  <1>1. u # Empty
    BY ClientConstants, EmptyIsNoWord
  <1>2. CASE req \in cli_user_create(u)
    BY <1>1, <1>2, UserPages, OtherKeys, WantedKeys
       DEF cli_user_create, Send, Understood
  <1>3. CASE req \in cli_user_set_tenant(u) \union cli_user_set_password(u)
    <2>1. /\ req.url = <<"user", u>> /\ req.method = "POST"
          /\ req.reads = {}
      BY <1>3 DEF cli_user_set_tenant, cli_user_set_password, Send
    <2>2. Dispatch(req, Administrator) = "cmd_user_set"
      BY <1>1, <2>1, UserPages
    <2>3. Wants("cmd_user_set", "POST") = {}
      BY WantedKeys
    <2> QED
      BY <2>1, <2>2, <2>3, OtherKeys DEF Understood
  <1>4. CASE req \in cli_user_delete(u)
    <2>1. /\ req.url = <<"user", u>> /\ req.method = "DELETE"
          /\ req.reads = {}
      BY <1>4 DEF cli_user_delete, Send
    <2>2. Dispatch(req, Administrator) = "cmd_user_delete"
      BY <1>1, <2>1, UserPages
    <2>3. Wants("cmd_user_delete", "DELETE") = {}
      BY WantedKeys DEF Writers
    <2> QED
      BY <2>1, <2>2, <2>3, OtherKeys DEF Understood
  <1> QED
    BY <1>2, <1>3, <1>4 DEF UserRequests

(* A meter adds one field to a url, or two.                                *)
LEMMA MeterFields ==
    ASSUME NEW S, NEW s \in Seq(S), NEW n \in {2, 4}, Len(s) = n,
           NEW m \in Meters
    PROVE  /\ \A i \in 1 .. n : (s \o m)[i] = s[i]
           /\ \/ Len(s \o m) = n + 1 /\ (s \o m)[n + 1] = "pcpu"
              \/ /\ Len(s \o m) = n + 2 /\ (s \o m)[n + 1] = "net"
                 /\ (s \o m)[n + 2] = "in_kbs"
  <1> DEFINE T == S \union {"pcpu", "net", "in_kbs"}
  <1>1. s \in Seq(T)
    OBVIOUS
  <1>2. CASE m = <<"pcpu">>
    BY <1>1, <1>2
  <1>3. CASE m = <<"net", "in_kbs">>
    BY <1>1, <1>3
  <1> QED
    BY <1>2, <1>3 DEF Meters

(* The urls of a tenant's meters and watchers.                             *)
MeterUrl(url, t, w) ==
    /\ url[1] = t /\ url[2] = w
    /\ \/ Len(url) = 3 /\ url[3] = "pcpu"
       \/ Len(url) = 4 /\ url[3] = "net" /\ url[4] = "in_kbs"

LEMMA MeterUrls ==
    ASSUME NEW t, NEW w, NEW m \in Meters
    PROVE  MeterUrl(<<t, w>> \o m, t, w)
  <1> DEFINE s == <<t, w>>
  <1>1. s \in Seq({t, w}) /\ Len(s) = 2 /\ s[1] = t /\ s[2] = w
    OBVIOUS
  <1> HIDE DEF s
  <1>2. MeterUrl(s \o m, t, w)
    BY <1>1, MeterFields DEF MeterUrl
  <1> QED
    BY <1>2 DEF s

(* about a tenant,                                                         *)
LEMMA TenantUnderstood ==
    ASSUME NEW t \in Tenants, NEW req,
           req \in cli_tenant_get_metadata(t)
                   \union cli_tenant_set_metadata(t)
                   \union cli_tenant_set_quota(t)
                   \union cli_tenant_get_quota(t)
                   \union cli_tenant_get_summary(t)
                   \union cli_host_overview(t) \union cli_meter_list(t)
                   \union cli_tenant_delete(t) \union cli_tenant_create(t)
                   \union cli_host_list(t) \union cli_main(t)
                   \union web_tenant(t)
    PROVE  Understood(req, Administrator)
  <1>1. CASE req \in cli_tenant_get_metadata(t)
    <2>1. req.url = <<t, "meta">> /\ req.method = "GET" /\ req.reads = {}
      BY <1>1 DEF cli_tenant_get_metadata, Get
    <2>2. Dispatch(req, Administrator) = "cmd_tenant_get_meta"
      BY <2>1, TenantLists
    <2>3. Wants("cmd_tenant_get_meta", "GET") = {}
      BY WantedKeys DEF Writers
    <2> QED
      BY <2>1, <2>2, <2>3, MeterKeys DEF Understood
  <1>2. CASE req \in cli_tenant_set_metadata(t)
    BY <1>2, TenantLists, TenantMeta, MeterKeys, WantedKeys
       DEF cli_tenant_set_metadata, Get, Send, Understood, Writers
  <1>3. CASE req \in cli_tenant_set_quota(t)
    BY <1>3, TenantItself, TenantKeys, WantedKeys
       DEF cli_tenant_set_quota, Send, Understood
  <1>4. CASE req \in cli_tenant_get_quota(t)
    <2>1. Dispatch(Get(<<t, "quota">>, {"quota", "usage"}), Administrator)
            = "cmd_tenant_get_quota"
      BY TenantLists DEF Get
    <2> QED
      BY <1>4, <2>1, TenantKeys, GetUnderstood
         DEF cli_tenant_get_quota, Writers
  <1>5. CASE req \in cli_tenant_get_summary(t)
    <2>1. Dispatch(Get(<<t, "summary">>, {}), Administrator)
            = "cmd_tenant_get_summary"
      BY TenantLists DEF Get
    <2> QED
      BY <1>5, <2>1, MeterKeys, GetUnderstood
         DEF cli_tenant_get_summary, Writers
  <1>6. CASE req \in cli_host_overview(t)
    BY <1>6, TenantOverview, HostKeys, WantedKeys
       DEF cli_host_overview, Get, Understood, Writers
  <1>7. CASE req \in cli_meter_list(t)
    BY <1>7, TenantLists, MeterKeys, WantedKeys
       DEF cli_meter_list, Get, Understood, Writers
  <1>8. CASE req \in cli_tenant_delete(t)
    <2>1. req.url = <<t>> /\ req.method = "DELETE" /\ req.reads = {}
      BY <1>8 DEF cli_tenant_delete, Send
    <2>2. Dispatch(req, Administrator) = "cmd_tenant_delete"
      BY <2>1, TenantItself
    <2>3. Wants("cmd_tenant_delete", "DELETE") = {}
      BY WantedKeys DEF Writers
    <2> QED
      BY <2>1, <2>2, <2>3, TenantKeys DEF Understood
  <1>9. CASE req \in cli_tenant_create(t)
    BY <1>9, TenantItself, TenantKeys, WantedKeys
       DEF cli_tenant_create, Send, Understood
  <1>10. CASE req \in cli_host_list(t)
    BY <1>10, TenantLists, MeterKeys, WantedKeys
       DEF cli_host_list, Get, Understood, Writers
  <1>11. CASE req \in cli_main(t)
    <2>1. CASE req \in web_auth
      BY <2>1, CommonUnderstood DEF CommonRequests
    <2>2. req \in web_auth \union cli_host_overview(t)
      BY <1>11 DEF cli_main, web_auth
    <2> QED
      BY <1>6, <2>1, <2>2
  <1>12. CASE req \in web_tenant(t)
    <2>1. CASE req \in cli_tenant_list
      BY <2>1, CommonUnderstood DEF CommonRequests
    <2>2. CASE req = Get(<<t, "meta">>, {"metadata"})
      <3>1. Dispatch(req, Administrator) = "cmd_tenant_get_meta"
        BY <2>2, TenantLists DEF Get
      <3> QED
        BY <2>2, <3>1, MeterKeys, GetUnderstood DEF Writers
    <2>3. \/ req \in cli_tenant_list \/ req \in cli_tenant_get_quota(t)
          \/ req = Get(<<t, "meta">>, {"metadata"})
      BY <1>12 DEF web_tenant, cli_tenant_list, cli_tenant_get_quota
    <2> QED
      BY <1>4, <2>1, <2>2, <2>3
  <1> QED
    BY <1>1, <1>2, <1>3, <1>4, <1>5, <1>6, <1>7, <1>8, <1>9, <1>10, <1>11,
       <1>12

(* about its meters,                                                       *)
LEMMA MetersUnderstood ==
    ASSUME NEW t \in Tenants, NEW m \in Meters, NEW req,
           req \in cli_meter_create(t, m) \union cli_meter_delete(t, m)
    PROVE  Understood(req, Administrator)
  <1>1. /\ req.url = <<t, "meter">> \o m /\ req.reads = {}
        /\ \/ req.method = "POST" /\ req.body = {"meter"}
           \/ req.method = "DELETE"
    BY DEF cli_meter_create, cli_meter_delete, Send
  <1>2. /\ req.url[1] = t /\ req.url[2] = "meter"
        /\ \/ Len(req.url) = 3 /\ req.url[3] = "pcpu"
           \/ /\ Len(req.url) = 4 /\ req.url[3] = "net"
              /\ req.url[4] = "in_kbs"
    <2>1. MeterUrl(<<t, "meter">> \o m, t, "meter")
      BY MeterUrls
    <2>2. MeterUrl(req.url, t, "meter")
      BY <1>1, <2>1
    <2> QED
      BY <2>2 DEF MeterUrl
  <1>3. /\ req.method = "POST" =>
             Dispatch(req, Administrator) = "cmd_tenant_set_meter"
        /\ req.method = "DELETE" =>
             Dispatch(req, Administrator) = "cmd_tenant_delete_meter"
    <2>1. CASE Len(req.url) = 3
      <3>1. Accepts("%S", req.url[3])
        BY <1>2, <2>1, NamesFit
      <3> QED
        BY <1>2, <2>1, <3>1, TenantMeter
    <2>2. CASE Len(req.url) = 4
      <3>1. Accepts("%S", req.url[3]) /\ Accepts("%S", req.url[4])
        BY <1>2, <2>2, NamesFit
      <3> QED
        BY <1>2, <2>2, <3>1, TenantMeter2
    <2> QED
      BY <1>2, <2>1, <2>2
  <1>4. Wants("cmd_tenant_delete_meter", "DELETE") = {}
    BY WantedKeys DEF Writers
  <1>5. Wants("cmd_tenant_set_meter", "POST") = {"meter"}
    BY WantedKeys
  <1> QED
    BY <1>1, <1>3, <1>4, <1>5, MeterKeys DEF Understood

(* about its watchers and those of a host,                                 *)
LEMMA WatchersUnderstood ==
    ASSUME NEW t \in Tenants, NEW h \in Hosts, NEW m \in Meters, NEW req,
           req \in cli_watcher_set(t, h, m) \union cli_watcher_delete(t, h, m)
                     \union web_set_watcher(t, h, m)
    PROVE  Understood(req, Administrator)
  <1>1. CASE req \in cli_meter_list(t)
    BY <1>1, TenantUnderstood
  <1>2. CASE /\ req.url = <<t, "watcher">> \o m /\ req.reads = {}
             /\ \/ req.method = "POST" /\ req.body = {"watcher"}
                \/ req.method = "DELETE"
    <2>1. /\ req.url[1] = t /\ req.url[2] = "watcher"
          /\ \/ Len(req.url) = 3 /\ req.url[3] = "pcpu"
             \/ /\ Len(req.url) = 4 /\ req.url[3] = "net"
                /\ req.url[4] = "in_kbs"
      <3>1. MeterUrl(<<t, "watcher">> \o m, t, "watcher")
        BY MeterUrls
      <3>2. MeterUrl(req.url, t, "watcher")
        BY <1>2, <3>1
      <3> QED
        BY <3>2 DEF MeterUrl
    <2>2. /\ req.method = "POST" =>
               Dispatch(req, Administrator) = "cmd_tenant_set_watcher"
          /\ req.method = "DELETE" =>
               Dispatch(req, Administrator) = "cmd_tenant_delete_watcher"
      <3>1. CASE Len(req.url) = 3
        <4>1. Accepts("%S", req.url[3])
          BY <2>1, <3>1, NamesFit
        <4> QED
          BY <2>1, <3>1, <4>1, TenantWatcher
      <3>2. CASE Len(req.url) = 4
        <4>1. Accepts("%S", req.url[3]) /\ Accepts("%S", req.url[4])
          BY <2>1, <3>2, NamesFit
        <4> QED
          BY <2>1, <3>2, <4>1, TenantWatcher2
      <3> QED
        BY <2>1, <3>1, <3>2
    <2>3. Wants("cmd_tenant_delete_watcher", "DELETE") = {}
      BY WantedKeys DEF Writers
    <2>4. Wants("cmd_tenant_set_watcher", "POST") = {"watcher"}
      BY WantedKeys
    <2> QED
      BY <1>2, <2>2, <2>3, <2>4, MeterKeys DEF Understood
  <1>3. CASE /\ req.url = <<t, "host", h, "watcher">> \o m /\ req.reads = {}
             /\ \/ req.method = "POST" /\ req.body = {"watcher"}
                \/ req.method = "DELETE"
    <2>1. /\ req.url[1] = t /\ req.url[2] = "host" /\ req.url[3] = h
          /\ req.url[4] = "watcher"
          /\ \/ Len(req.url) = 5 /\ req.url[5] = "pcpu"
             \/ /\ Len(req.url) = 6 /\ req.url[5] = "net"
                /\ req.url[6] = "in_kbs"
      <3> DEFINE s == <<t, "host", h, "watcher">>
      <3>1. /\ s \in Seq({t, "host", h, "watcher"}) /\ Len(s) = 4
            /\ s[1] = t /\ s[2] = "host" /\ s[3] = h /\ s[4] = "watcher"
        OBVIOUS
      <3>2. req.url = s \o m
        BY <1>3
      <3> HIDE DEF s
      <3> QED
        BY <3>1, <3>2, MeterFields
    <2>2. AboutHost(req)
      BY <1>3, <2>1 DEF AboutHost
    <2>3. /\ req.method = "POST" =>
               Dispatch(req, Administrator) = "cmd_host_set_watcher"
          /\ req.method = "DELETE" =>
               Dispatch(req, Administrator) = "cmd_host_delete_watcher"
      BY <2>1, <2>2, NamesFit, HostWatcher, HostWatcher2
    <2>4. Wants("cmd_host_delete_watcher", "DELETE") = {}
      BY WantedKeys DEF Writers
    <2>5. Wants("cmd_host_set_watcher", "POST") = {"watcher"}
      BY WantedKeys
    <2> QED
      BY <1>3, <2>3, <2>4, <2>5, HostKeys DEF Understood
  <1>4. \/ req \in cli_meter_list(t)
        \/ req = Send("POST", <<t, "host", h, "watcher">> \o m,
                      {"watcher"}, {})
        \/ req = Send("POST", <<t, "watcher">> \o m, {"watcher"}, {})
        \/ req = Send("DELETE", <<t, "host", h, "watcher">> \o m, {}, {})
        \/ req = Send("DELETE", <<t, "watcher">> \o m, {}, {})
    BY DEF cli_watcher_set, cli_watcher_delete, web_set_watcher,
           cli_meter_list
  <1> QED
    BY <1>1, <1>2, <1>3, <1>4 DEF Send

(* and about a host.                                                       *)
LEMMA HostUnderstood ==
    ASSUME NEW t \in Tenants, NEW h \in Hosts, NEW req,
           req \in cli_remove_host(t, h) \union cli_get_record(t, h)
                     \union cli_watcher_list(t, h) \union web_host(t, h)
    PROVE  Understood(req, Administrator)
  <1>1. CASE req \in cli_remove_host(t, h)
    <2>1. /\ req.url = <<t, "host", h>> /\ req.method = "DELETE"
          /\ req.reads = {}
      BY <1>1 DEF cli_remove_host, Send
    <2>2. AboutHost(req) /\ Len(req.url) = 3
      BY <2>1 DEF AboutHost
    <2>3. Dispatch(req, Administrator) = "cmd_host_remove"
      BY <2>1, <2>2, HostItself
    <2>4. Wants("cmd_host_remove", "DELETE") = {}
      BY WantedKeys DEF Writers
    <2> QED
      BY <2>1, <2>3, <2>4, HostKeys DEF Understood
  <1>2. CASE req = Get(<<"any", "host", h, "tenant">>, {"tenant"})
    <2>1. /\ req.url = <<"any", "host", h, "tenant">>
          /\ req.method = "GET" /\ req.reads = {"tenant"}
      BY <1>2 DEF Get
    <2>2. Dispatch(req, Administrator) = "cmd_host_any_get_tenant"
      BY <2>1, AnyPages
    <2>3. Wants("cmd_host_any_get_tenant", "GET") = {}
      BY WantedKeys DEF Writers
    <2> QED
      BY <2>1, <2>2, <2>3, HostKeys DEF Understood
  <1>3. CASE req = Get(<<"any", "host", "overview">>, {"overview"})
    <2>1. /\ req.url = <<"any", "host", "overview">>
          /\ req.method = "GET" /\ req.reads = {"overview"}
      BY <1>3 DEF Get
    <2>2. Dispatch(req, Administrator) = "cmd_host_any_overview"
      BY <2>1, AnyPages
    <2>3. Wants("cmd_host_any_overview", "GET") = {}
      BY WantedKeys DEF Writers
    <2> QED
      BY <2>1, <2>2, <2>3, HostKeys DEF Understood
  <1>4. CASE req = Get(<<t, "host", h>>, {})
    <2>1. AboutHost(req) /\ Len(req.url) = 3 /\ req.method = "GET"
      BY <1>4 DEF AboutHost, Get
    <2>2. Dispatch(req, Administrator) = "cmd_host_get"
      BY <2>1, HostItself
    <2>3. Wants("cmd_host_get", "GET") = {}
      BY WantedKeys DEF Writers
    <2>4. req.reads = {}
      BY <1>4 DEF Get
    <2> QED
      BY <2>1, <2>2, <2>3, <2>4, OtherKeys DEF Understood
  <1>5. CASE \/ req = Get(<<t, "host", h, "externaldata">>, {})
             \/ req = Get(<<t, "host", h, "watcher">>, {"watcher"})
             \/ req = Get(<<t, "host", h, "log">>, {"log"})
    <2>1. AboutHost(req) /\ Len(req.url) = 4 /\ req.method = "GET"
      BY <1>5 DEF AboutHost, Get
    <2>2. /\ Wants("cmd_host_get_external", "GET") = {}
          /\ Wants("cmd_host_list_watchers", "GET") = {}
          /\ Wants("cmd_host_get_log", "GET") = {}
      BY WantedKeys DEF Writers
    <2> QED
      BY <1>5, <2>1, <2>2, HostLists, HostKeys DEF Get, Understood
  <1>6. CASE req = Get(<<t, "watcher">>, {"watcher"})
    BY <1>6, TenantLists, MeterKeys, WantedKeys DEF Get, Understood, Writers
  <1>7. CASE req \in cli_host_overview(t)
    BY <1>7, TenantUnderstood
  <1>8. CASE req \in cli_print_graph(t, h)
    <2>1. PICK i \in Ints :
            req = Get(<<t, "host", h, "graph", "cpu", "usage", i, i>>,
                      {"max", "data", "title", "unit"})
      BY <1>8 DEF cli_print_graph
    <2>2. /\ AboutHost(req) /\ Len(req.url) = 8 /\ req.method = "GET"
          /\ req.url[4] = "graph" /\ req.url[5] = "cpu"
          /\ req.url[6] = "usage" /\ req.url[7] = i /\ req.url[8] = i
          /\ req.reads = {"max", "data", "title", "unit"}
      BY <2>1 DEF AboutHost, Get
    <2>3. Dispatch(req, Administrator) = "cmd_host_get_graph"
      BY <2>2, NamesFit, UuidsFit, HostGraph
    <2>4. Wants("cmd_host_get_graph", "GET") = {}
      BY WantedKeys DEF Writers
    <2> QED
      BY <2>2, <2>3, <2>4, OtherKeys DEF Understood
  <1>9. \/ req \in cli_remove_host(t, h) \/ req \in cli_print_graph(t, h)
        \/ req \in cli_host_overview(t)
        \/ req = Get(<<"any", "host", h, "tenant">>, {"tenant"})
        \/ req = Get(<<"any", "host", "overview">>, {"overview"})
        \/ req = Get(<<t, "host", h>>, {})
        \/ req = Get(<<t, "host", h, "externaldata">>, {})
        \/ req = Get(<<t, "host", h, "watcher">>, {"watcher"})
        \/ req = Get(<<t, "host", h, "log">>, {"log"})
        \/ req = Get(<<t, "watcher">>, {"watcher"})
    BY DEF cli_get_record, cli_watcher_list, web_host, cli_remove_host,
           cli_host_overview
  <1> QED
    BY <1>1, <1>2, <1>3, <1>4, <1>5, <1>6, <1>7, <1>8, <1>9

(* No request of the clients is misunderstood.                             *)
LEMMA AllUnderstood ==
    ASSUME NEW req \in ClientRequests
    PROVE  Understood(req, Administrator)
  <1>1. CASE req \in CommonRequests
    BY <1>1, CommonUnderstood
  <1>2. ASSUME NEW u \in OddFields \union {"user"}, req \in UserRequests(u)
        PROVE  Understood(req, Administrator)
    BY <1>2, UserUnderstood
  <1>3. ASSUME NEW t \in Tenants, req \in TenantRequests(t)
        PROVE  Understood(req, Administrator)
    <2>1. ASSUME NEW h \in Hosts, req \in HostRequests(t, h)
          PROVE  Understood(req, Administrator)
      BY <2>1, HostUnderstood, WatchersUnderstood DEF HostRequests
    <2>2. ASSUME NEW m \in Meters,
                 req \in cli_meter_create(t, m) \union cli_meter_delete(t, m)
          PROVE  Understood(req, Administrator)
      BY <2>2, MetersUnderstood
    <2> QED
      BY <1>3, <2>1, <2>2, TenantUnderstood DEF TenantRequests
  <1> QED
    BY <1>1, <1>2, <1>3 DEF ClientRequests

(* The route a client of an administrator wrote for answers whatever it    *)
(* asks, whichever tenants, hosts, users and times there are: no earlier   *)
(* entry of setup_matches takes it.                                        *)
THEOREM AdministratorIsUnderstood == Spec => []AdminIsUnderstood
  <1>1. AdminIsUnderstood
    BY AllUnderstood DEF AdminIsUnderstood, Misunderstood
  <1> QED
    BY <1>1, PTL
=============================================================================
