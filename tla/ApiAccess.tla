----------------------------- MODULE ApiAccess -----------------------------
(***************************************************************************)
(* opticon-api with its clients: anyone may send a request with any        *)
(* credentials, and one user runs opticon-cli, which keeps its token in a  *)
(* file, validates it again when the file is old, and logs in when that    *)
(* fails (load_cached_token, the login functions, api_call, api_get_raw).  *)
(***************************************************************************)
EXTENDS ApiServer, ApiClients

CONSTANTS CliThread,   \* the connection of the command line client
          CliTenant,   \* the tenant its user wants to see
          Revalidate   \* the age from which a cached token is validated

ASSUME CliConstants ==
    /\ CliThread \in Threads /\ CliTenant \in Tenants /\ Revalidate \in Nat
    /\ \A w \in Worlds : w.cli => CliThread \notin w.others

VARIABLE cli
\* cli.pc        off: no run; validate, main: a request is out; send: about
\*               to send the command's own; login: asks for a password
\* cli.file      the token in ~/.opticon-token-cache, written at cli.mtime
\* cli.refused   the token the last refused run used, first refused at
\*               cli.first and last at cli.last

vars == <<serverVars, cli>>

Init ==
    /\ ServerInit
    /\ cli = [pc |-> "off", file |-> None, mtime |-> 0, refused |-> None,
              first |-> 0, last |-> 0]

Ctx(t) == [level |-> thr[t].level, rejected |-> thr[t].rejected,
           tenants |-> IF thr[t].tenants = Garbage THEN {}
                       ELSE thr[t].tenants]

\* The status of the command the user runs.
Command == Get(<<CliTenant, "host", "overview">>, {"overview"})
StatusOf(ctx) == ErrStatus(Dispatch(Command, ctx), Command)

\* Which callers get past the filters to which first field of a url.
Reaches == {<<cr[1], cr[2].url[1]>> :
               cr \in {x \in Contexts \X ClientRequests :
                          Dispatch(x[2], x[1]) \notin Errors}}

Administrator == [level |-> "ADMIN", tenants |-> {}, rejected |-> FALSE]
Misunderstood == {r.url : r \in {q \in ClientRequests :
                                    ~Understood(q, Administrator)}}

----------------------------------------------------------------------------
(* The command line client                                                 *)

\* Mutant: the cached token is never validated again.
NeverStale(age) == FALSE

Stale(age) == age > Revalidate

\* A run starts with the cached token: an old one is validated first.
CliStart ==
    /\ world.cli /\ cli.pc = "off"
    /\ IF cli.file = None
       THEN /\ cli' = [cli EXCEPT !.pc = "login"]
            /\ UNCHANGED serverVars
       ELSE /\ Arrive(CliThread, cli.file)
            /\ cli' = [cli EXCEPT !.pc = IF Stale(now - cli.mtime)
                                         THEN "validate" ELSE "main"]

\* The answer to GET /token; the file is written again when it is good.
CliValidated ==
    /\ cli.pc = "validate" /\ thr[CliThread].pc = "route"
    /\ Reply(CliThread)
    /\ cli' = IF thr[CliThread].level # "GUEST"
              THEN [cli EXCEPT !.pc = "send", !.mtime = now,
                               !.refused = None]
              ELSE [cli EXCEPT !.pc = "login"]

\* internal_login, keystone_login, unithost_login; or the user gives up or
\* has the password wrong.
CliLogin ==
    /\ cli.pc = "login"
    /\ \/ \E k \in Tokens :
             /\ ProviderIssues(k)
             /\ cli' = [cli EXCEPT !.pc = "send", !.file = k, !.mtime = now]
       \/ \E s \in SessionIds :
             /\ Login(CliThread, s, "USER", CliTenant)
             /\ cli' = [cli EXCEPT !.pc = "send", !.file = s, !.mtime = now]
       \/ /\ cli' = [cli EXCEPT !.pc = "off"]
          /\ UNCHANGED serverVars

CliSend ==
    /\ cli.pc = "send"
    /\ Arrive(CliThread, cli.file)
    /\ cli' = [cli EXCEPT !.pc = "main"]

\* Only a 401 makes the client log in and try again, and not with internal
\* authentication; any other refusal ends the run.
CliAnswered ==
    /\ cli.pc = "main" /\ thr[CliThread].pc = "route"
    /\ Reply(CliThread)
    /\ LET status == StatusOf(Ctx(CliThread)) IN
       cli' = CASE status = 200 -> [cli EXCEPT !.pc = "off", !.refused = None]
                [] status = 401 /\ world.method # "internal" ->
                      [cli EXCEPT !.pc = "login"]
                [] OTHER ->
                      [cli EXCEPT !.pc = "off", !.refused = cli.file,
                                  !.last = now,
                                  !.first = IF cli.refused = cli.file
                                            THEN @ ELSE now]

\* The server went away: http_call returns nothing.
CliCutOff ==
    /\ cli.pc \in {"validate", "main"} /\ thr[CliThread].pc = "idle"
    /\ cli' = [cli EXCEPT !.pc = IF @ = "main" THEN "off" ELSE "login"]
    /\ UNCHANGED serverVars

----------------------------------------------------------------------------

OtherRequest(t) ==
    \E cred \in Tokens \union SessionIds \union {AdminToken} :
        /\ (cred \in Tokens) = (world.method # "internal")
        /\ cred \in SessionIds => sessions[cred].state # None
        /\ Arrive(t, cred)

Environment ==
    \/ Tick
    \/ \E k \in Tokens : ProviderRevokes(k)
    \/ Crash

Next ==
    \/ /\ \/ \E t \in world.others : OtherRequest(t) \/ Reply(t)
          \/ \E t \in Threads : Serve(t)
          \/ Environment
       /\ UNCHANGED cli
    \/ CliStart \/ CliValidated \/ CliLogin \/ CliSend \/ CliAnswered
    \/ CliCutOff

Spec == Init /\ [][Next]_vars

----------------------------------------------------------------------------
(* Properties                                                              *)

\* A request with an external token gets at most as far as the provider's
\* word allows: to a tenant's pages only when the provider gives the token
\* that tenant, or a level above tenants, now or until less than one cache
\* lifetime and two requests ago.  The cache, its colliding hashes, the
\* routes and the filters in front of them are all on that way.  (What a
\* lookup reads out of a freed tenant list is left out: see Copy.)
Allows(data, u) ==
    \/ Worth(data) \in {"ADMIN", "PROV"}
    \/ Worth(data) = "USER" /\ u \in data.tenants
RightsAreGranted ==
    \A t \in Threads :
        thr[t].pc = "route" /\ thr[t].cred \in Tokens =>
            LET k == thr[t].cred
                recent == now < before[k].until + TimeoutValid + 2 * MaxStall
            IN \A u \in Tenants :
                  <<Ctx(t), u>> \in Reaches =>
                     \/ Allows(said[k], u)
                     \/ recent /\ Allows(before[k].what, u)

\* A session that authsession_find returned is not freed by another thread
\* before flt_check_validuser has read it, which it does after the unlock.
SessionOutlivesUse ==
    \A t \in Threads :
        thr[t].pc = "use" => sessions[thr[t].cred].state = "live"

\* A user whose cached token the server no longer takes is not refused for
\* longer than the token goes without validation: a run that finds the file
\* older logs in again, whatever happened to the session or the token.
LockoutIsShort ==
    cli.refused # None => cli.last - cli.first <= Revalidate + MaxStall

\* Whatever an administrator's client asks, the route it was written for
\* answers it: no earlier entry of the match list takes the request, the
\* reply has the keys the client reads, and the body those the function
\* looks for.
AdminIsUnderstood ==
    \A t \in Threads :
        thr[t].pc = "route" /\ thr[t].level = "ADMIN" =>
            Misunderstood = {}
=============================================================================
