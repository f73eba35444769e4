----------------------------- MODULE ApiServer -----------------------------
(***************************************************************************)
(* How opticon-api decides what a request may do: flt_check_validuser, the *)
(* token cache it shares with every other connection thread, the sessions  *)
(* of internal authentication, and the authentication provider it asks.    *)
(*                                                                         *)
(* microhttpd runs a thread per connection, so the steps of the threads    *)
(* interleave wherever no lock is held, and readers of the token cache     *)
(* interleave under its read lock too.  tokencache_lookup clears a stale   *)
(* node under that read lock: two lookups that read the clock on either    *)
(* side of a token's expiry race, and what the copy of a node that is      *)
(* being cleared holds is a choice here (Copy).  The double free of two    *)
(* such clears ends the process, as Crash does at any moment.              *)
(***************************************************************************)
EXTENDS ApiRoutes, Integers

CONSTANTS Threads,        \* connection threads
          Tokens,         \* external tokens
          SessionIds,     \* session uuids that can be given out
          Worlds,         \* the settings explored: auth/auth_method, whether
                          \* the user of opticon-cli is there, the threads
                          \* that serve other clients, how many crashes
                          \* and requests there are
          Issued,         \* what the provider says of each token it gave out
          NodeMax,        \* 256 positive nodes
          InvalidMax,     \* 16 negative nodes
          TimeoutValid, TimeoutInvalid, SessionIdle,
          MaxStall,       \* the longest a request is served, in clock ticks
          MaxTime

ASSUME ServerConstants ==
    /\ {NodeMax, InvalidMax, TimeoutValid, TimeoutInvalid, SessionIdle,
        MaxStall} \subseteq Nat \ {0}
    /\ MaxTime \in Nat
    /\ Worlds \subseteq [method : {"internal", "openstack", "unithost"},
                         cli : BOOLEAN, others : SUBSET Threads,
                         crashes : Nat, requests : Nat]
    /\ Issued \in [Tokens -> [tenants : SUBSET Tenants,
                              role : {"none", "ADMIN", "PROVISIONING"}]]

None == "none"
AdminToken == "admin-token"  \* auth/admin_token, used from auth/admin_host
Garbage == {"garbage"}       \* a tenant list read out of freed memory

\* What the provider says of a token it does not know.
Unknown == [tenants |-> {}, role |-> "none"]
NotYet == [what |-> Unknown, until |-> 0]

\* Tokens and session ids are told apart, and the provider knows a token
\* that it gives out.
ASSUME CredentialsAssumption ==
    /\ Tokens \intersect (SessionIds \union {None, AdminToken}) = {}
    /\ {None, AdminToken} \intersect SessionIds = {}
    /\ \A k \in Tokens : Issued[k] # Unknown

VARIABLES now, world,
          said,      \* [Tokens -> what the provider says now]
          before,    \* [Tokens -> what it said before that and until when]
          nodes,     \* TOKENCACHE.nodes, the first count of them
          invalids,  \* TOKENCACHE.invalids
          sessions,  \* [SessionIds -> session], freed or not
          thr,       \* [Threads -> the request a thread is serving]
          crashes, requests

serverVars == <<now, world, said, before, nodes, invalids, sessions, thr,
                crashes, requests>>

\* An empty node (tcache_node_clear); its hashcode 0 is no token's.
Cleared == [token |-> None, level |-> "GUEST", tenants |-> {}, ctime |-> 0,
            freed |-> FALSE]

Idle == [pc |-> "idle", cred |-> None, tnow |-> 0, node |-> 0,
         level |-> "GUEST", tenants |-> {}, rejected |-> FALSE]

NoSession == [state |-> None, level |-> "GUEST", tenants |-> {}, hb |-> 0]

\* All the tokens of a model collide: hash_token is 32 bits wide, and the
\* cache then tells them apart with strcmp in one place and not in others.
SameHash(node) == node.token # None

ServerInit ==
    /\ now = 0
    /\ world \in Worlds
    /\ said = IF world.cli THEN [k \in Tokens |-> Unknown] ELSE Issued
    /\ before = [k \in Tokens |-> NotYet]
    /\ nodes = <<>>
    /\ invalids = [i \in 1 .. InvalidMax |-> Cleared]
    /\ sessions = [s \in SessionIds |-> NoSession]
    /\ thr = [t \in Threads |-> Idle]
    /\ crashes = 0 /\ requests = 0

----------------------------------------------------------------------------
(* The provider.                                                           *)

\* handle_external_token_openstack, handle_external_token_unithost: the
\* level a reply is worth, GUEST when the token is turned away.
Worth(data) ==
    CASE world.method = "unithost" /\ data.role = "ADMIN"        -> "ADMIN"
      [] world.method = "unithost" /\ data.role = "PROVISIONING" -> "PROV"
      [] world.method # "internal" /\ data.tenants # {}          -> "USER"
      [] OTHER                                             -> "GUEST"

\* The provider hands out a token.
ProviderIssues(k) ==
    /\ world.method # "internal"
    /\ said[k] = Unknown /\ before[k] = NotYet
    /\ said' = [said EXCEPT ![k] = Issued[k]]
    /\ UNCHANGED <<now, world, before, nodes, invalids, sessions, thr,
                   crashes, requests>>

\* It revokes one; once is enough for a model to tell what the provider
\* said before from what it says now.
ProviderRevokes(k) ==
    /\ said[k] # Unknown
    /\ \A j \in Tokens : before[j] = NotYet
    /\ said' = [said EXCEPT ![k] = Unknown]
    /\ before' = [before EXCEPT ![k] = [what |-> said[k], until |-> now]]
    /\ UNCHANGED <<now, world, nodes, invalids, sessions, thr, crashes,
                   requests>>

\* Time passes, but no request is served for longer than MaxStall.
Tick ==
    /\ now < MaxTime
    /\ \A t \in Threads : thr[t].pc # "idle" => now - thr[t].tnow < MaxStall
    /\ now' = now + 1
    /\ UNCHANGED <<world, said, before, nodes, invalids,
                   sessions, thr, crashes, requests>>

----------------------------------------------------------------------------
(* The locks: a writer of the token cache waits for its readers.           *)

Reading == {t \in Threads : thr[t].pc \in {"copy", "clear"}}

Goto(t, pc) == thr' = [thr EXCEPT ![t].pc = pc]

\* A request with credentials reaches flt_check_validuser and reads the
\* clock, in tokencache_lookup or in authsession_find.
Arrive(t, cred) ==
    /\ thr[t].pc = "idle" /\ requests < world.requests
    /\ requests' = requests + 1
    /\ thr' = [thr EXCEPT ![t] =
                 [Idle EXCEPT !.pc = IF cred \in Tokens THEN "lookup"
                                     ELSE "find",
                              !.cred = cred, !.tnow = now]]
    /\ UNCHANGED <<now, world, said, before, nodes, invalids,
                   sessions, crashes>>

\* A crash takes every request, the cache and the sessions with it; init
\* starts the daemon again.
Crash ==
    /\ crashes < world.crashes
    /\ crashes' = crashes + 1
    /\ nodes' = <<>>
    /\ invalids' = [i \in 1 .. InvalidMax |-> Cleared]
    /\ sessions' = [s \in SessionIds |->
                       IF sessions[s].state = None THEN NoSession
                       ELSE [NoSession EXCEPT !.state = "freed"]]
    /\ thr' = [t \in Threads |-> Idle]
    /\ UNCHANGED <<now, world, said, before, requests>>

----------------------------------------------------------------------------
(* tokencache_lookup                                                       *)

\* Mutant: the hash is taken for the token, strcmp is left out.
HitInHash(cells, token) ==
    LET hits == {i \in DOMAIN cells : SameHash(cells[i])}
    IN IF hits = {} THEN 0 ELSE Min(hits)

\* The first node of the token, and none: 0.
HitIn(cells, token) ==
    LET hits == {i \in DOMAIN cells : cells[i].token = token}
    IN IF hits = {} THEN 0 ELSE Min(hits)

Fresh(node, timeout, tnow) == node.ctime + timeout > tnow

\* The scan under the read lock, up to the copy or the clear of a node.  A
\* node that another lookup is clearing is not cleared twice: see Crash.
Lookup(t) ==
    /\ thr[t].pc = "lookup"
    /\ LET tnow == thr[t].tnow
           j == HitIn(invalids, thr[t].cred)
           i == HitIn(nodes, thr[t].cred)
           refused == j # 0 /\ Fresh(invalids[j], TimeoutInvalid, tnow)
       IN \/ /\ refused
             /\ thr' = [thr EXCEPT ![t].pc = "expire", ![t].rejected = TRUE]
             /\ UNCHANGED nodes
          \/ /\ ~refused /\ i = 0
             /\ Goto(t, "provider")
             /\ UNCHANGED nodes
          \/ /\ ~refused /\ i # 0 /\ Fresh(nodes[i], TimeoutValid, tnow)
             /\ thr' = [thr EXCEPT ![t].pc = "copy", ![t].node = i]
             /\ UNCHANGED nodes
          \/ /\ ~refused /\ i # 0 /\ ~Fresh(nodes[i], TimeoutValid, tnow)
             /\ ~nodes[i].freed
             /\ thr' = [thr EXCEPT ![t].pc = "clear", ![t].node = i]
             /\ nodes' = [nodes EXCEPT ![i].freed = TRUE]
    /\ UNCHANGED <<now, world, said, before, invalids, sessions, crashes,
                   requests>>

\* The rest of tcache_node_clear, the unlock, and the answer NULL.
ClearEnd(t) ==
    /\ thr[t].pc = "clear"
    /\ nodes' = [nodes EXCEPT ![thr[t].node] = Cleared]
    /\ Goto(t, "provider")
    /\ UNCHANGED <<now, world, said, before, invalids, sessions,
                   crashes, requests>>

\* tcache_node_copy: of a node that another reader is clearing, the level
\* and the list are from before or after that, and the list may be gone.
Copy(t) ==
    /\ thr[t].pc = "copy"
    /\ LET n == nodes[thr[t].node] IN
       \/ thr' = [thr EXCEPT ![t].pc = "expire", ![t].level = n.level,
                             ![t].tenants = n.tenants,
                             ![t].rejected = n.level = "GUEST"]
       \/ /\ n.freed /\ n.tenants # {}
          /\ thr' = [thr EXCEPT ![t].pc = "expire", ![t].level = n.level,
                                ![t].tenants = Garbage]
    /\ UNCHANGED <<now, world, said, before, nodes, invalids,
                   sessions, crashes, requests>>

DropStale(cells, timeout) ==
    [i \in DOMAIN cells |-> IF Fresh(cells[i], timeout, now) THEN cells[i]
                            ELSE Cleared]

\* tokencache_expire, which every hit calls after its unlock, and which
\* clears the stale nodes at most once a minute.
Expire(t) ==
    /\ thr[t].pc = "expire"
    /\ \/ UNCHANGED <<nodes, invalids>>
       \/ /\ Reading = {}
          /\ invalids' = DropStale(invalids, TimeoutInvalid)
          /\ nodes' = DropStale(nodes, TimeoutValid)
    /\ Goto(t, "route")
    /\ UNCHANGED <<now, world, said, before, sessions, crashes, requests>>

----------------------------------------------------------------------------
(* A miss: the provider is asked and its answer stored.                    *)

\* handle_external_token: the call may fail, which counts as a refusal.
AskProvider(t) ==
    /\ thr[t].pc = "provider"
    /\ \E data \in {said[thr[t].cred], Unknown} :
         LET level == Worth(data)
         IN thr' = [thr EXCEPT
                      ![t].pc = IF level = "GUEST" THEN "store_invalid"
                                ELSE "store_valid",
                      ![t].level = level,
                      ![t].rejected = level = "GUEST",
                      ![t].tenants = IF level = "GUEST" THEN {}
                                     ELSE data.tenants]
    /\ UNCHANGED <<now, world, said, before, nodes, invalids,
                   sessions, crashes, requests>>

\* The slot that is written: the first empty or stale one, else the one
\* not referenced for longest, which may be any.
Slots(cells, timeout) ==
    LET free == {i \in DOMAIN cells : \/ cells[i].token = None
                                      \/ ~Fresh(cells[i], timeout, now)}
    IN IF free # {} THEN {Min(free)} ELSE DOMAIN cells

NewNode(t) == [token |-> thr[t].cred, level |-> thr[t].level,
               tenants |-> thr[t].tenants, ctime |-> now, freed |-> FALSE]

\* Storing one kind clears every node of the other kind with the same hash.
ClearHash(cells) ==
    [i \in DOMAIN cells |-> IF SameHash(cells[i]) THEN Cleared ELSE cells[i]]

StoreInvalid(t) ==
    /\ thr[t].pc = "store_invalid" /\ Reading = {}
    /\ \E i \in Slots(invalids, TimeoutInvalid) :
          invalids' = [invalids EXCEPT ![i] = NewNode(t)]
    /\ nodes' = ClearHash(nodes)
    /\ Goto(t, "route")
    /\ UNCHANGED <<now, world, said, before, sessions, crashes, requests>>

StoreValid(t) ==
    /\ thr[t].pc = "store_valid" /\ Reading = {}
    /\ \/ /\ Len(nodes) < NodeMax
          /\ nodes' = Append(nodes, NewNode(t))
       \/ /\ Len(nodes) = NodeMax
          /\ \E i \in Slots(nodes, TimeoutValid) :
                nodes' = [nodes EXCEPT ![i] = NewNode(t)]
    /\ invalids' = ClearHash(invalids)
    /\ Goto(t, "route")
    /\ UNCHANGED <<now, world, said, before, sessions, crashes, requests>>

----------------------------------------------------------------------------
(* Sessions                                                                *)

\* cmd_login with the right password, and authsession_create.
Login(t, s, level, tenant) ==
    /\ world.method = "internal" /\ thr[t].pc = "idle"
    /\ sessions[s].state = None
    /\ sessions' = [sessions EXCEPT ![s] = [state |-> "live", level |-> level,
                                            tenants |-> {tenant},
                                            hb |-> now]]
    /\ UNCHANGED <<now, world, said, before, nodes, invalids,
                   thr, crashes, requests>>

\* Mutant: a session is freed as soon as it has expired.
ForgottenAtOnce(idle) == idle >= SessionIdle

\* When a session idle for this long is looked up it is freed.
Forgotten(idle) == idle > 2 * SessionIdle

\* authsession_find, under the lock of the list, with the clock of before.
FindSession(t) ==
    /\ thr[t].pc = "find"
    /\ LET s == thr[t].cred
           live == s \in SessionIds /\ sessions[s].state = "live"
           idle == thr[t].tnow - sessions[s].hb
       IN \/ /\ live /\ idle < SessionIdle
             /\ sessions' = [sessions EXCEPT ![s].hb = thr[t].tnow]
             /\ Goto(t, "use")
          \/ /\ ~(live /\ idle < SessionIdle)
             /\ sessions' = IF live /\ Forgotten(idle)
                            THEN [sessions EXCEPT ![s].state = "freed"]
                            ELSE sessions
             /\ thr' = [thr EXCEPT ![t].pc = "route",
                                   ![t].level = IF s = AdminToken THEN "ADMIN"
                                                ELSE "GUEST"]
    /\ UNCHANGED <<now, world, said, before, nodes, invalids,
                   crashes, requests>>

\* flt_check_validuser reads the session after the list is unlocked.
UseSession(t) ==
    /\ thr[t].pc = "use"
    /\ LET s == sessions[thr[t].cred] IN
       thr' = [thr EXCEPT ![t].pc = "route", ![t].level = s.level,
                          ![t].tenants = IF s.state = "live" THEN s.tenants
                                         ELSE Garbage]
    /\ UNCHANGED <<now, world, said, before, nodes, invalids,
                   sessions, crashes, requests>>

\* The dispatcher goes on to a handler and the answer is sent.
Reply(t) ==
    /\ thr[t].pc = "route"
    /\ thr' = [thr EXCEPT ![t] = Idle]
    /\ UNCHANGED <<now, world, said, before, nodes, invalids,
                   sessions, crashes, requests>>

\* What a thread does on its own between a request and its answer.
Serve(t) ==
    \/ Lookup(t) \/ ClearEnd(t) \/ Copy(t) \/ Expire(t)
    \/ AskProvider(t) \/ StoreInvalid(t) \/ StoreValid(t)
    \/ FindSession(t) \/ UseSession(t)
=============================================================================
