-------------------------- MODULE ApiStore_proofs --------------------------
(***************************************************************************)
(* Proofs about ApiStore, for any threads, documents and worlds: the       *)
(* handlers implement AtomicStore.  A request that changes                 *)
(* tenant.metadata, metadata.json or user.db and meets no other one at the *)
(* same documents does so in one step, the rename, with what the files     *)
(* hold in that step, or not at all; requests that meet spoil no others.   *)
(*                                                                         *)
(* The inductive invariant says what a thread relies on from one step to   *)
(* the next, as long as it has met no rival: that what it has read is      *)
(* still what is there, that the file it writes is its own, that its       *)
(* directory has not gone, and that what it has removed stays away.  Of a  *)
(* thread that has met one only its own state is known.  That no file is   *)
(* where its directory is not is an invariant of its own.                  *)
(***************************************************************************)
EXTENDS ApiStore, TLAPS

Kept == {"meta", "host", "users"}
All == Threads \union {Collector}
Requests == TenantWrites \union HostWrites \union UserWrites
               \union TenantLife \union Lists

DocsOf(f) == CASE f = "meta"  -> MetaDocs
               [] f = "host"  -> HostDocs
               [] f = "users" -> UserDocs

\* What a handler has of a file that holds doc.
Held(f, doc) == IF doc \notin {Absent, Torn} THEN doc ELSE Unread(f)

\* The requests that change a document they read, those that write one, and
\* those that change any.
Writer(r) == r \in TenantWrites \union HostWrites \union UserWrites
Binds(r) == Writer(r) \/ r.op = "create"
Removes(r) == r.op \in {"delete", "remove_host"}

\* The documents a writer needs.
Wants(r) ==
    CASE r \in TenantWrites            -> {"meta"}
      [] r.op = "host_set_watcher"     -> {"meta", "host"}
      [] r.op = "host_delete_watcher"  -> {"host"}
      [] r \in UserWrites              -> {"users"}
      [] OTHER                         -> {}

----------------------------------------------------------------------------
(* The inductive invariant.                                                *)

\* Where a thread can be with a request.
Ending == {"open", "dump", "rename", "unlink", "answer"}
Pcs(r) ==
    CASE r = NoRequest -> {"idle"}
      [] r.op = "create" -> {"mkdir"} \union Ending
      [] r.op = "delete" -> {"remove", "removing"}
      [] r.op = "remove_host" ->
            {"remove", "removing", "stat", "read", "act"} \union Ending
      [] r.op = "overview" -> Ending
      [] r \in Lists -> {"stat", "read", "act"}
      [] OTHER -> {"stat", "read", "act"} \union Ending

\* Only who reads two documents has ever something left of its list.
Todo(x) ==
    x.pc \in {"stat", "read", "remove", "removing"} =>
       \/ x.todo = Reads(x.req)
       \/ /\ x.req.op \in {"host_set_watcher", "host_list_watchers"}
          /\ x.todo = <<"host">>

\* What holds of a thread whatever the others do: the new document is the
\* change of what was read.
Formed(x) ==
    /\ x.pc \in Pcs(x.req)
    /\ x.pc = "idle" => x = Idle
    /\ \A f \in Kept : x.got[f] \in DocsOf(f) \union {Unread(f)}
    /\ Todo(x)
    /\ Binds(x.req) /\ x.pc \in {"open", "dump", "rename"} =>
          /\ x.new = Change(x.req, x.got)
          /\ ~Refused(x.req, x.got) /\ ~GoesDown(x.req, x.got)

\* What a writer has read is still what the files hold.
Sees(x, dk) ==
    Writer(x.req) =>
      /\ x.pc = "read" => x.seen = dk[Head(x.todo)]
      /\ x.pc \in {"stat", "read"} /\ x.todo # Reads(x.req) =>
            x.got["meta"] = Held("meta", dk["meta"])
      /\ x.pc \in {"act", "open", "dump", "rename"} =>
            \A f \in Wants(x.req) : x.got[f] = Held(f, dk[f])

\* The temporary file is this thread's alone.
Owns(x, tp) ==
    Binds(x.req) =>
      /\ x.pc # "unlink"
      /\ x.pc = "dump" => x.fd = "tmp" /\ tp[Target(x.req)] = Torn
      /\ x.pc = "rename" => x.fd = "tmp" /\ tp[Target(x.req)] = x.new

\* The directory is there for who needs it, and not yet for who makes it.
InDir(x, dr) ==
    Binds(x.req) =>
      /\ x.pc = "mkdir" => dr = "none"
      /\ x.pc \in {"stat", "read", "act", "open", "dump", "rename"}
            /\ Target(x.req) # "users" => dr # "none"

\* What a removal has taken stays away.
Took(x, dk, tp) ==
    Removes(x.req) =>
      /\ x.pc = "removing" =>
            \A f \in Scope(x.req) \intersect Kept :
               /\ <<"file", f>> \in x.left \/ dk[f] = Absent
               /\ <<"tmp", f>> \in x.left \/ tp[f] = Absent
      /\ x.req.op = "remove_host" /\ x.pc \notin {"remove", "removing"} =>
            dk["host"] = Absent

Trusts(x, dk, tp, dr) ==
    Sees(x, dk) /\ Owns(x, tp) /\ InDir(x, dr) /\ Took(x, dk, tp)

ThreadOK(x, dk, tp, dr) ==
    Formed(x) /\ (~x.rival => Trusts(x, dk, tp, dr))

IsThread(x) ==
    /\ x = [req |-> x.req, pc |-> x.pc, todo |-> x.todo, seen |-> x.seen,
            got |-> x.got, new |-> x.new, fd |-> x.fd, left |-> x.left,
            rival |-> x.rival]
    /\ x.got = [f \in Files |-> x.got[f]]
    /\ x.rival \in BOOLEAN

TypeOK ==
    /\ world \in Worlds /\ crashes \in Nat
    /\ disk = [f \in Files |-> disk[f]] /\ tmp = [f \in Files |-> tmp[f]]
    /\ \A f \in Kept : /\ disk[f] \in DocsOf(f) \union {Absent, Torn}
                       /\ tmp[f] \in DocsOf(f) \union {Absent, Torn}
    /\ dir \in {"none", "tenant", "host"}
    /\ thr = [t \in All |-> thr[t]]
    /\ \A t \in All : IsThread(thr[t])

InWorld ==
    /\ \A t \in Threads : thr[t].req \in world.ops \union {NoRequest}
    /\ thr[Collector].req = NoRequest \/ thr[Collector].req.op = "overview"

\* Who has met no rival has its documents to itself.
Alone ==
    \A t, u \in Threads :
       t # u /\ ~thr[t].rival /\ Group(thr[t].req) # "none" =>
          Group(thr[u].req) # Group(thr[t].req)

ThreadsOK == \A t \in All : ThreadOK(thr[t], disk, tmp, dir)

Inv == TypeOK /\ InWorld /\ Alone /\ ThreadsOK

----------------------------------------------------------------------------
(* The requests, their targets and the changes they make.                  *)

(* The parameters of a request to tenant.metadata. *)
LEMMA KindsTenant ==
    \A r \in TenantWrites :
       /\ r.op \in {"update", "set_meta", "set_meter", "delete_meter",
                    "set_watcher", "delete_watcher"}
       /\ r.op = "update" => /\ r.field \in {"key", "name", "quota"}
                             /\ r.to \in Values
       /\ r.op = "set_meta" => r.to \in Values
       /\ r.op = "set_meter" => r.m \in Meters /\ r.to \in Types
       /\ r.op \in {"delete_meter", "set_watcher", "delete_watcher"} =>
             r.m \in Meters
  <1> SUFFICES ASSUME NEW r \in TenantWrites
               PROVE
       /\ r.op \in {"update", "set_meta", "set_meter", "delete_meter",
                    "set_watcher", "delete_watcher"}
       /\ r.op = "update" => /\ r.field \in {"key", "name", "quota"}
                             /\ r.to \in Values
       /\ r.op = "set_meta" => r.to \in Values
       /\ r.op = "set_meter" => r.m \in Meters /\ r.to \in Types
       /\ r.op \in {"delete_meter", "set_watcher", "delete_watcher"} =>
             r.m \in Meters
    OBVIOUS
  <1>1. CASE r \in {R("update", "none", field, val) :
                       field \in {"key", "name", "quota"}, val \in Values}
    BY <1>1 DEF R
  <1>2. CASE r \in {R("set_meta", "none", "note", val) : val \in Values}
    BY <1>2 DEF R
  <1>3. CASE r \in {R("set_meter", m, field, type) :
                       m \in Meters, type \in Types,
                       field \in {"described", "undescribed"}}
    BY <1>3 DEF R
  <1>4. CASE r \in {R(op, m, "none", 0) : m \in Meters,
                       op \in {"delete_meter", "set_watcher",
                               "delete_watcher"}}
    BY <1>4 DEF R
  <1> QED
    BY <1>1, <1>2, <1>3, <1>4 DEF TenantWrites

(* The parameters of the other requests. *)
LEMMA KindsOther ==
    /\ \A r \in HostWrites :
          /\ r.op \in {"host_set_watcher", "host_delete_watcher"}
          /\ r.m \in Meters
    /\ \A r \in UserWrites :
          /\ r.op \in {"user_put", "user_post", "user_delete"}
          /\ r.m \in Users
          /\ r.op \in {"user_put", "user_post"} => r.to \in Values
    /\ \A r \in TenantLife :
          /\ r.op \in {"create", "delete", "remove_host"}
          /\ r.op = "create" => r.to \in Values
  <1>1. \A r \in HostWrites :
           /\ r.op \in {"host_set_watcher", "host_delete_watcher"}
           /\ r.m \in Meters
    BY DEF HostWrites, R
  <1>2. \A r \in UserWrites :
           /\ r.op \in {"user_put", "user_post", "user_delete"}
           /\ r.m \in Users
           /\ r.op \in {"user_put", "user_post"} => r.to \in Values
    BY DEF UserWrites, R
  <1>3. \A r \in TenantLife :
           /\ r.op \in {"create", "delete", "remove_host"}
           /\ r.op = "create" => r.to \in Values
    BY DEF TenantLife, R
  <1> QED
    BY <1>1, <1>2, <1>3

(* The sets of requests are told apart by their names. *)
LEMMA Kinds ==
    /\ \A r \in TenantWrites :
          r.op \in {"update", "set_meta", "set_meter", "delete_meter",
                    "set_watcher", "delete_watcher"}
    /\ \A r \in HostWrites :
          r.op \in {"host_set_watcher", "host_delete_watcher"}
    /\ \A r \in UserWrites :
          r.op \in {"user_put", "user_post", "user_delete"}
    /\ \A r \in TenantLife : r.op \in {"create", "delete", "remove_host"}
    /\ \A r \in Lists : r.op \in {"get_meta", "host_list_watchers",
                                  "host_overview", "login"}
    /\ NoRequest.op = "none"
  <1>1. \A r \in TenantWrites :
           r.op \in {"update", "set_meta", "set_meter", "delete_meter",
                     "set_watcher", "delete_watcher"}
    BY KindsTenant
  <1>2. /\ \A r \in HostWrites :
              r.op \in {"host_set_watcher", "host_delete_watcher"}
        /\ \A r \in UserWrites :
              r.op \in {"user_put", "user_post", "user_delete"}
        /\ \A r \in TenantLife : r.op \in {"create", "delete", "remove_host"}
    BY KindsOther
  <1>3. \A r \in Lists : r.op \in {"get_meta", "host_list_watchers",
                                  "host_overview", "login"}
    BY DEF Lists, R
  <1>4. NoRequest.op = "none"
    BY DEF NoRequest, R
  <1> QED
    BY <1>1, <1>2, <1>3, <1>4

(* What a request to tenant.metadata reads and writes. *)
LEMMA AimsTenant ==
    ASSUME NEW r \in TenantWrites
    PROVE  Target(r) = "meta" /\ Group(r) = "tenant" /\ Reads(r) = <<"meta">>
  BY Kinds DEF Target, Group, Reads

(* The same of one to metadata.json of the host. *)
LEMMA AimsHost ==
    ASSUME NEW r \in HostWrites
    PROVE  /\ Target(r) = "host" /\ Group(r) = "tenant"
           /\ r.op = "host_set_watcher" => Reads(r) = <<"meta", "host">>
           /\ r.op = "host_delete_watcher" => Reads(r) = <<"host">>
  BY Kinds DEF Target, Group, Reads

(* The same of one to user.db. *)
LEMMA AimsUser ==
    ASSUME NEW r \in UserWrites
    PROVE  /\ Target(r) = "users" /\ Group(r) = "users"
           /\ Reads(r) = <<"users">>
  <1>1. /\ r \notin TenantWrites /\ r \notin HostWrites
        /\ r.op \in {"user_put", "user_post", "user_delete"}
    BY Kinds
  <1> QED
    BY <1>1 DEF Target, Group, Reads

(* The same of those that make and remove tenants and hosts. *)
LEMMA AimsLife ==
    ASSUME NEW r \in TenantLife
    PROVE  /\ Group(r) = "tenant"
           /\ r.op = "create" => Target(r) = "meta"
           /\ r.op = "delete" => Target(r) = "none"
           /\ r.op = "remove_host" => /\ Target(r) = "overview"
                                      /\ Reads(r) = <<"overview">>
  <1>1. r \notin TenantWrites /\ r \notin HostWrites /\ r \notin UserWrites
    BY Kinds
  <1>2. r.op \in {"create", "delete", "remove_host"}
    BY Kinds
  <1> QED
    BY <1>1, <1>2 DEF Target, Group, Reads

(* A list changes nothing. *)
LEMMA AimsLists ==
    ASSUME NEW r \in Lists \union {NoRequest}
    PROVE  Target(r) = "none" /\ Group(r) = "none"
  <1>1. r \notin TenantWrites /\ r \notin HostWrites /\ r \notin UserWrites
    BY Kinds
  <1>2. r.op \in {"get_meta", "host_list_watchers", "host_overview",
                  "login", "none"}
    BY Kinds
  <1> QED
    BY <1>1, <1>2 DEF Target, Group

(* The overview is the collector's, which takes no requests. *)
LEMMA AimsOverview ==
    ASSUME NEW r, r.op = "overview"
    PROVE  Target(r) = "overview" /\ r \notin Requests
  <1>1. r \notin TenantWrites /\ r \notin HostWrites /\ r \notin UserWrites
    BY Kinds
  <1>2. r \notin Lists /\ r \notin TenantLife
    BY Kinds
  <1> QED
    BY <1>1, <1>2 DEF Target, Requests

(* AtomicStore speaks of the same requests. *)
LEMMA SameWords ==
    /\ Abstract!TenantWrites = TenantWrites
    /\ Abstract!HostWrites = HostWrites
    /\ Abstract!UserWrites = UserWrites
    /\ Abstract!TenantLife = TenantLife
    /\ Abstract!Lists = Lists
  BY DEF Abstract!TenantWrites, TenantWrites, Abstract!HostWrites,
     HostWrites, Abstract!UserWrites, UserWrites, Abstract!TenantLife,
     TenantLife, Abstract!Lists, Lists, R, Abstract!R, Types, Abstract!Types

(* It has them write the same files. *)
LEMMA SameTarget ==
    /\ \A r : Abstract!Target(r) = Target(r)
    /\ \A r : Abstract!Group(r) = Group(r)
    /\ \A f : Abstract!GroupOf(f) = GroupOf(f)
  <1>1. \A r : Abstract!Target(r) = Target(r)
    BY SameWords DEF Abstract!Target, Target
  <1> QED
    BY <1>1 DEF Abstract!Group, Group, Abstract!GroupOf, GroupOf

(* It has them make the same changes. *)
LEMMA SameChange == \A r, got : Abstract!Change(r, got) = Change(r, got)
  BY DEF Abstract!Change, Change, Abstract!cmd_tenant_update,
     Abstract!cmd_tenant_set_meta, Abstract!cmd_tenant_set_meter,
     Abstract!cmd_tenant_delete_meter, Abstract!cmd_tenant_set_watcher,
     Abstract!cmd_tenant_delete_watcher, Abstract!cmd_host_set_watcher,
     Abstract!cmd_host_delete_watcher, Abstract!cmd_user_set,
     Abstract!cmd_user_delete, Abstract!NewTenant, cmd_tenant_update,
     cmd_tenant_set_meta, cmd_tenant_set_meter, cmd_tenant_delete_meter,
     cmd_tenant_set_watcher, cmd_tenant_delete_watcher,
     cmd_host_set_watcher, cmd_host_delete_watcher, cmd_user_set,
     cmd_user_delete, NewTenant, NoMeter, Abstract!NoMeter,
     Abstract!TypeFor, TypeFor, Untyped, Abstract!Untyped

(* It refuses the same requests. *)
LEMMA SameRefused ==
    \A r, got : Abstract!Refused(r, got) <=> Refused(r, got)
  BY SameWords DEF Abstract!Refused, Refused, TypeFor, Abstract!TypeFor,
     Untyped, Abstract!Untyped

(* It goes down over the same requests. *)
LEMMA SameGoesDown ==
    \A r, got : Abstract!GoesDown(r, got) <=> GoesDown(r, got)
  BY SameWords DEF Abstract!GoesDown, GoesDown, CannotCompare,
     Abstract!CannotCompare, TypeFor, Abstract!TypeFor, Untyped,
     Abstract!Untyped

(* What the handlers make of nothing are documents, which no marker is. *)
LEMMA Docs ==
    /\ EmptyHost \in HostDocs
    /\ \A f \in Kept : /\ Absent \notin DocsOf(f) /\ Torn \notin DocsOf(f)
                         /\ Null \notin DocsOf(f)
    /\ NoUsers \in UserDocs
    /\ \A val \in Values : NewTenant(val) \in MetaDocs
  <1>1. NoMeter \in Entries
    BY DEF NoMeter, Entries, Types, Untyped
  <1>2. EmptyHost \in HostDocs
    BY <1>1 DEF EmptyHost, HostDocs
  <1>3. \A f \in Kept : /\ Absent \notin DocsOf(f) /\ Torn \notin DocsOf(f)
                        /\ Null \notin DocsOf(f)
    BY NoDocuments DEF Kept, DocsOf
  <1>4. NoUsers \in UserDocs
    BY DEF NoUsers, UserDocs
  <1>5. \A val \in Values : NewTenant(val) \in MetaDocs
    BY <1>1 DEF NewTenant, MetaDocs
  <1> QED
    BY <1>2, <1>3, <1>4, <1>5

(* A document with another entry for a meter; the handlers that write two  *)
(* fields of an entry leave such a document.                               *)
WithMeter(doc, m, e) == [doc EXCEPT !.meter = [doc.meter EXCEPT ![m] = e]]
Typed(e, to) == [e EXCEPT !.there = TRUE, !.type = to]
Watched(e, on) == [e EXCEPT !.there = TRUE, !.watch = on]

(* A trigger that is put or taken away, of an entry that is made. *)
LEMMA ThereAndWatch ==
    ASSUME NEW doc, doc = [x \in DOMAIN doc |-> doc[x]],
           "meter" \in DOMAIN doc, NEW m \in DOMAIN doc.meter,
           doc.meter = [x \in DOMAIN doc.meter |-> doc.meter[x]],
           NEW on
    PROVE  [doc EXCEPT !.meter[m].there = TRUE, !.meter[m].watch = on] =
           WithMeter(doc, m, Watched(doc.meter[m], on))
  <1> DEFINE f == doc.meter
             e1 == [f[m] EXCEPT !.there = TRUE]
             e2 == [e1 EXCEPT !.watch = on]
             d1 == [doc EXCEPT !.meter = [f EXCEPT ![m] = e1]]
  <1>1. d1.meter = [f EXCEPT ![m] = e1] /\ d1.meter[m] = e1
    OBVIOUS
  <1>2. [d1 EXCEPT !.meter = [d1.meter EXCEPT ![m] = e2]]
          = [doc EXCEPT !.meter = [f EXCEPT ![m] = e2]]
    <2> HIDE DEF e2
    <2>1. [d1.meter EXCEPT ![m] = e2] = [f EXCEPT ![m] = e2]
      BY <1>1
    <2> HIDE DEF f
    <2> DEFINE g == [f EXCEPT ![m] = e2]
    <2> HIDE DEF g
    <2>2. [d1 EXCEPT !.meter = g] = [doc EXCEPT !.meter = g]
      OBVIOUS
    <2> QED
      BY <2>1, <2>2 DEF g
  <1>3. [doc EXCEPT !.meter[m].there = TRUE, !.meter[m].watch = on] =
        [d1 EXCEPT !.meter =
           [d1.meter EXCEPT ![m] = [d1.meter[m] EXCEPT !.watch = on]]]
    OBVIOUS
  <1>4. Watched(doc.meter[m], on) = e2
    BY DEF Watched
  <1> HIDE DEF e2
  <1> QED
    BY <1>1, <1>2, <1>3, <1>4 DEF WithMeter, e2

(* A type that is given to a meter, of an entry that is made. *)
LEMMA ThereAndType ==
    ASSUME NEW doc, doc = [x \in DOMAIN doc |-> doc[x]],
           "meter" \in DOMAIN doc, NEW m \in DOMAIN doc.meter,
           doc.meter = [x \in DOMAIN doc.meter |-> doc.meter[x]],
           NEW to
    PROVE  [doc EXCEPT !.meter[m].there = TRUE, !.meter[m].type = to] =
           WithMeter(doc, m, Typed(doc.meter[m], to))
  <1> DEFINE f == doc.meter
             e1 == [f[m] EXCEPT !.there = TRUE]
             e2 == [e1 EXCEPT !.type = to]
             d1 == [doc EXCEPT !.meter = [f EXCEPT ![m] = e1]]
  <1>1. d1.meter = [f EXCEPT ![m] = e1] /\ d1.meter[m] = e1
    OBVIOUS
  <1>2. [d1 EXCEPT !.meter = [d1.meter EXCEPT ![m] = e2]]
          = [doc EXCEPT !.meter = [f EXCEPT ![m] = e2]]
    <2> HIDE DEF e2
    <2>1. [d1.meter EXCEPT ![m] = e2] = [f EXCEPT ![m] = e2]
      BY <1>1
    <2> HIDE DEF f
    <2> DEFINE g == [f EXCEPT ![m] = e2]
    <2> HIDE DEF g
    <2>2. [d1 EXCEPT !.meter = g] = [doc EXCEPT !.meter = g]
      OBVIOUS
    <2> QED
      BY <2>1, <2>2 DEF g
  <1>3. [doc EXCEPT !.meter[m].there = TRUE, !.meter[m].type = to] =
        [d1 EXCEPT !.meter =
           [d1.meter EXCEPT ![m] = [d1.meter[m] EXCEPT !.type = to]]]
    OBVIOUS
  <1>4. Typed(doc.meter[m], to) = e2
    BY DEF Typed
  <1> HIDE DEF e2
  <1> QED
    BY <1>1, <1>2, <1>3, <1>4 DEF WithMeter, e2

(* What the handlers do to the meters of a document. *)
LEMMA MeterHandlers ==
    ASSUME NEW doc \in MetaDocs \union HostDocs, NEW m \in Meters, NEW to
    PROVE  /\ cmd_tenant_set_meter(doc, m, to) =
                WithMeter(doc, m, Typed(doc.meter[m], to))
           /\ cmd_tenant_delete_meter(doc, m) = WithMeter(doc, m, NoMeter)
           /\ cmd_tenant_set_watcher(doc, m) =
                WithMeter(doc, m, Watched(doc.meter[m], TRUE))
           /\ cmd_tenant_delete_watcher(doc, m) =
                WithMeter(doc, m, Watched(doc.meter[m], FALSE))
           /\ cmd_host_delete_watcher(doc, m) =
                WithMeter(doc, m, Watched(doc.meter[m], FALSE))
  <1>1. /\ doc = [x \in DOMAIN doc |-> doc[x]] /\ "meter" \in DOMAIN doc
        /\ doc.meter \in [Meters -> Entries]
    BY DEF MetaDocs, HostDocs
  <1>2. m \in DOMAIN doc.meter
    BY <1>1
  <1>3. doc.meter = [x \in DOMAIN doc.meter |-> doc.meter[x]]
    BY <1>1
  <1>4. \A on : [doc EXCEPT !.meter[m].there = TRUE, !.meter[m].watch = on] =
                WithMeter(doc, m, Watched(doc.meter[m], on))
    BY <1>1, <1>2, <1>3, ThereAndWatch
  <1>5. [doc EXCEPT !.meter[m].there = TRUE, !.meter[m].type = to] =
        WithMeter(doc, m, Typed(doc.meter[m], to))
    BY <1>1, <1>2, <1>3, ThereAndType
  <1>6. cmd_tenant_delete_meter(doc, m) = WithMeter(doc, m, NoMeter)
    BY DEF cmd_tenant_delete_meter, WithMeter
  <1> QED
    BY <1>4, <1>5, <1>6, Zenon
       DEF cmd_tenant_set_meter, cmd_tenant_set_watcher,
           cmd_tenant_delete_watcher, cmd_host_delete_watcher

(* Such an entry is one, and so is the document.                           *)
LEMMA EntriesStay ==
    ASSUME NEW e \in Entries
    PROVE  /\ \A to \in Types : Typed(e, to) \in Entries
           /\ \A on \in BOOLEAN : Watched(e, on) \in Entries
           /\ NoMeter \in Entries
  <1>1. \A to \in Types : Typed(e, to) \in Entries
    BY DEF Entries, Typed
  <1>2. \A on \in BOOLEAN : Watched(e, on) \in Entries
    BY DEF Entries, Watched
  <1>3. NoMeter \in Entries
    BY DEF NoMeter, Entries, Types, Untyped
  <1> QED
    BY <1>1, <1>2, <1>3

(* A document with another entry for a meter is one. *)
LEMMA DocumentsStay ==
    ASSUME NEW m \in Meters, NEW e \in Entries
    PROVE  /\ \A doc \in MetaDocs : WithMeter(doc, m, e) \in MetaDocs
           /\ \A doc \in HostDocs : WithMeter(doc, m, e) \in HostDocs
  <1>1. \A f \in [Meters -> Entries] :
           [f EXCEPT ![m] = e] \in [Meters -> Entries]
    OBVIOUS
  <1>2. \A doc \in MetaDocs, f \in [Meters -> Entries] :
           [doc EXCEPT !.meter = f] \in MetaDocs
    BY DEF MetaDocs
  <1>3. \A doc \in HostDocs, f \in [Meters -> Entries] :
           [doc EXCEPT !.meter = f] \in HostDocs
    BY DEF HostDocs
  <1>4. \A doc \in MetaDocs \union HostDocs : doc.meter \in [Meters -> Entries]
    BY DEF MetaDocs, HostDocs
  <1> QED
    BY <1>1, <1>2, <1>3, <1>4 DEF WithMeter

(* A change of tenant.metadata gives tenant.metadata. *)
LEMMA ChangeTenant ==
    ASSUME NEW r \in TenantWrites, NEW doc \in MetaDocs, NEW got,
           got.meta = doc
    PROVE  Change(r, got) \in MetaDocs
  <1>a. doc.meter \in [Meters -> Entries]
    BY DEF MetaDocs
  <1>b. ASSUME NEW e \in Entries, r.m \in Meters,
               Change(r, got) = WithMeter(doc, r.m, e)
        PROVE  Change(r, got) \in MetaDocs
    BY <1>b, DocumentsStay
  <1>1. CASE r.op = "update"
    BY <1>1, KindsTenant DEF Change, MetaDocs, cmd_tenant_update
  <1>2. CASE r.op = "set_meta"
    BY <1>2, KindsTenant DEF Change, MetaDocs, cmd_tenant_set_meta
  <1>3. CASE r.op = "set_meter"
    <2> DEFINE e == Typed(doc.meter[r.m], r.to)
    <2>1. r.m \in Meters /\ r.to \in Types
      BY <1>3, KindsTenant
    <2>2. Change(r, got) = cmd_tenant_set_meter(doc, r.m, r.to)
      BY <1>3 DEF Change
    <2>3. doc.meter[r.m] \in Entries
      BY <2>1, <1>a
    <2>4. Change(r, got) = WithMeter(doc, r.m, e)
      BY <2>1, <2>2, MeterHandlers
    <2>5. e \in Entries
      BY <2>1, <2>3, EntriesStay
    <2> HIDE DEF e
    <2> QED
      BY <2>1, <2>4, <2>5, <1>b
  <1>4. CASE r.op = "delete_meter"
    <2> DEFINE e == NoMeter
    <2>1. r.m \in Meters
      BY <1>4, KindsTenant
    <2>2. Change(r, got) = cmd_tenant_delete_meter(doc, r.m)
      BY <1>4 DEF Change
    <2>3. doc.meter[r.m] \in Entries
      BY <2>1, <1>a
    <2>4. Change(r, got) = WithMeter(doc, r.m, e)
      BY <2>1, <2>2, MeterHandlers
    <2>5. e \in Entries
      BY <2>1, <2>3, EntriesStay
    <2> HIDE DEF e
    <2> QED
      BY <2>1, <2>4, <2>5, <1>b
  <1>5. CASE r.op = "set_watcher"
    <2> DEFINE e == Watched(doc.meter[r.m], TRUE)
    <2>1. r.m \in Meters
      BY <1>5, KindsTenant
    <2>2. Change(r, got) = cmd_tenant_set_watcher(doc, r.m)
      BY <1>5 DEF Change
    <2>3. doc.meter[r.m] \in Entries
      BY <2>1, <1>a
    <2>4. Change(r, got) = WithMeter(doc, r.m, e)
      BY <2>1, <2>2, MeterHandlers
    <2>5. e \in Entries
      BY <2>1, <2>3, EntriesStay
    <2> HIDE DEF e
    <2> QED
      BY <2>1, <2>4, <2>5, <1>b
  <1>6. CASE r.op = "delete_watcher"
    <2> DEFINE e == Watched(doc.meter[r.m], FALSE)
    <2>1. r.m \in Meters
      BY <1>6, KindsTenant
    <2>2. Change(r, got) = cmd_tenant_delete_watcher(doc, r.m)
      BY <1>6 DEF Change
    <2>3. doc.meter[r.m] \in Entries
      BY <2>1, <1>a
    <2>4. Change(r, got) = WithMeter(doc, r.m, e)
      BY <2>1, <2>2, MeterHandlers
    <2>5. e \in Entries
      BY <2>1, <2>3, EntriesStay
    <2> HIDE DEF e
    <2> QED
      BY <2>1, <2>4, <2>5, <1>b
  <1> QED
    BY <1>1, <1>2, <1>3, <1>4, <1>5, <1>6, Kinds

(* A change of a host's metadata.json gives one. *)
LEMMA ChangeHost ==
    ASSUME NEW r \in HostWrites, NEW got, got.host \in HostDocs,
           got.meta \in MetaDocs \union {Null}
    PROVE  Change(r, got) \in HostDocs
  <1> DEFINE type == IF TypeFor(got.meta, r.m) = Untyped THEN "integer"
                     ELSE TypeFor(got.meta, r.m)
  <1>1. got.host.meter \in [Meters -> Entries] /\ r.m \in Meters
    BY KindsOther DEF HostDocs
  <1>2. CASE r.op = "host_set_watcher"
    <2> DEFINE e == [there |-> TRUE, watch |-> TRUE, type |-> type]
    <2>1. TypeFor(got.meta, r.m) \in Types \union {Untyped}
      BY <1>1, HandlerConstants DEF TypeFor, MetaDocs, Entries
    <2>2. type \in Types
      BY <2>1 DEF Types
    <2>3. e \in Entries
      <3> HIDE DEF type
      <3> QED
        BY <2>2 DEF Entries
    <2>4. Change(r, got) = cmd_host_set_watcher(got.host, got.meta, r.m)
      BY <1>2 DEF Change
    <2>5. Change(r, got) = WithMeter(got.host, r.m, e)
      BY <2>4, Zenon DEF cmd_host_set_watcher, WithMeter
    <2> HIDE DEF e
    <2> QED
      BY <1>1, <2>3, <2>5, DocumentsStay
  <1>3. CASE r.op = "host_delete_watcher"
    <2>1. Change(r, got) = cmd_host_delete_watcher(got.host, r.m)
      BY <1>3 DEF Change
    <2>2. got.host.meter[r.m] \in Entries
      BY <1>1
    <2> DEFINE e == Watched(got.host.meter[r.m], FALSE)
    <2>3. e \in Entries
      BY <2>2, EntriesStay
    <2>4. Change(r, got) = WithMeter(got.host, r.m, e)
      BY <1>1, <2>1, MeterHandlers
    <2> HIDE DEF e
    <2> QED
      BY <1>1, <2>3, <2>4, DocumentsStay
  <1> QED
    BY <1>2, <1>3, Kinds

(* A change of user.db gives user.db. *)
LEMMA ChangeUser ==
    ASSUME NEW r \in UserWrites, NEW got, got.users \in UserDocs
    PROVE  Change(r, got) \in UserDocs
  <1>1. CASE r.op \in {"user_put", "user_post"}
    BY <1>1, KindsOther DEF Change, UserDocs, cmd_user_set
  <1>2. CASE r.op = "user_delete"
    BY <1>2, KindsOther DEF Change, UserDocs, cmd_user_delete
  <1> QED
    BY <1>1, <1>2, Kinds

(* What each kind of writer needs. *)
LEMMA Wanted ==
    /\ \A r \in TenantWrites : Wants(r) = {"meta"}
    /\ \A r \in HostWrites :
          /\ r.op = "host_set_watcher" => Wants(r) = {"meta", "host"}
          /\ r.op = "host_delete_watcher" => Wants(r) = {"host"}
    /\ \A r \in UserWrites : Wants(r) = {"users"}
    /\ \A r : Wants(r) \subseteq Kept
  BY Kinds DEF Wants, Kept

(* What a request does depends on the documents it reads only. *)
LEMMA OnlyWanted ==
    ASSUME NEW r, Writer(r), NEW g, NEW h, \A f \in Wants(r) : g[f] = h[f]
    PROVE  /\ Refused(r, g) <=> Refused(r, h)
           /\ GoesDown(r, g) <=> GoesDown(r, h)
           /\ Change(r, g) = Change(r, h)
  <1>1. CASE r \in TenantWrites
    <2>1. "meta" \in Wants(r)
      BY <1>1, Wanted
    <2>2. g.meta = h.meta
      BY <2>1
    <2>3. r.op \in {"update", "set_meta", "set_meter", "delete_meter",
                   "set_watcher", "delete_watcher"} /\ r \notin UserWrites
      BY <1>1, Kinds
    <2> QED
      BY <2>2, <2>3 DEF Refused, GoesDown, Change
  <1>2. CASE r \in HostWrites
    <2>1. r.op \in {"host_set_watcher", "host_delete_watcher"}
          /\ r \notin UserWrites /\ r \notin TenantWrites
      BY <1>2, Kinds
    <2>2. g.host = h.host
      BY <1>2, <2>1, Wanted
    <2>3. r.op = "host_set_watcher" => g.meta = h.meta
      BY <1>2, <2>1, Wanted
    <2> QED
      BY <2>1, <2>2, <2>3 DEF Refused, GoesDown, Change
  <1>3. CASE r \in UserWrites
    <2>1. r.op \in {"user_put", "user_post", "user_delete"}
          /\ r \notin TenantWrites
      BY <1>3, Kinds
    <2>2. g.users = h.users
      BY <1>3 DEF Wants, Kept
    <2> QED
      BY <2>1, <2>2 DEF Refused, GoesDown, Change
  <1> QED
    BY <1>1, <1>2, <1>3 DEF Writer

(* Who writes a document relies on documents of its group only. *)
LEMMA WriterAims ==
    ASSUME NEW r, Binds(r), r \in Requests
    PROVE  /\ Target(r) \in Kept
           /\ Group(r) = GroupOf(Target(r))
           /\ r.op \notin {"delete", "remove_host", "overview", "none"}
           /\ \A f \in Wants(r) : f \in Kept /\ GroupOf(f) = Group(r)
  <1>1. CASE r \in TenantWrites
    BY <1>1, AimsTenant, Kinds, Wanted DEF Kept, GroupOf
  <1>2. CASE r \in HostWrites
    BY <1>2, AimsHost, Kinds, Wanted DEF Kept, GroupOf
  <1>3. CASE r \in UserWrites
    BY <1>3, AimsUser, Kinds, Wanted DEF Kept, GroupOf
  <1>4. CASE r.op = "create"
    <2>1. r \in TenantLife
      BY <1>4, Kinds DEF Requests
    <2>2. Wants(r) = {}
      BY <1>4, Kinds DEF Wants
    <2> QED
      BY <1>4, <2>1, <2>2, AimsLife DEF Kept, GroupOf
  <1> QED
    BY <1>1, <1>2, <1>3, <1>4 DEF Binds, Writer

(* What a removal takes is the tenant's. *)
LEMMA RemovalAims ==
    ASSUME NEW r, Removes(r), r \in Requests
    PROVE  /\ Group(r) = "tenant" /\ ~Binds(r) /\ ~Writer(r)
           /\ Target(r) \in {"none", "overview"}
           /\ "host" \in Scope(r) /\ Scope(r) \subseteq Files \ {"users"}
  <1>1. r \in TenantLife
    BY Kinds DEF Removes, Requests
  <1> QED
    BY <1>1, AimsLife, Kinds DEF Removes, Binds, Writer, Scope, Files

(* What a request is that changes none of the three documents. *)
LEMMA ReqIs ==
    ASSUME NEW r, r \in Requests \union {NoRequest} \/ r.op = "overview"
    PROVE  Binds(r) \/ Removes(r) \/ r \in Lists \union {NoRequest}
              \/ r.op = "overview"
  BY Kinds DEF Requests, Binds, Writer, Removes

(* Nothing a thread trusts in is outside its group. *)
LEMMA Frame ==
    ASSUME NEW x, NEW dk, NEW tp, NEW dr, NEW dk2, NEW tp2, NEW dr2,
           Binds(x.req) \/ Removes(x.req) => x.req \in Requests,
           Formed(x), Trusts(x, dk, tp, dr),
           Binds(x.req) \/ Removes(x.req) =>
              /\ \A f \in Kept : GroupOf(f) = Group(x.req) =>
                                    dk2[f] = dk[f] /\ tp2[f] = tp[f]
              /\ Group(x.req) = "tenant" => (dr2 = "none" <=> dr = "none")
    PROVE  Trusts(x, dk2, tp2, dr2)
  <1>1. Binds(x.req) =>
           /\ x.req \in Requests
           /\ Target(x.req) \in Kept /\ Group(x.req) = GroupOf(Target(x.req))
           /\ \A f \in Wants(x.req) : f \in Kept /\ GroupOf(f) = Group(x.req)
    BY WriterAims
  <1>2. Owns(x, tp2)
    BY <1>1 DEF Trusts, Owns
  <1>3. InDir(x, dr2)
    <2>1. Binds(x.req) /\ Group(x.req) # "tenant" =>
             Target(x.req) = "users" /\ x.pc # "mkdir"
      <3> SUFFICES ASSUME Binds(x.req), Group(x.req) # "tenant"
                   PROVE  Target(x.req) = "users" /\ x.pc # "mkdir"
        OBVIOUS
      <3>1. Target(x.req) = "users"
        BY <1>1 DEF GroupOf
      <3>2. x.req.op # "create"
        BY <3>1, <1>1, AimsLife, Kinds DEF Requests
      <3> QED
        BY <3>1, <3>2, <1>1, Kinds DEF Formed, Pcs, Ending, Requests
    <2> QED
      BY <2>1 DEF Trusts, InDir
  <1>4. Took(x, dk2, tp2)
    <2> SUFFICES ASSUME Removes(x.req) PROVE Took(x, dk2, tp2)
      BY DEF Took
    <2>1. /\ Group(x.req) = "tenant" /\ "host" \in Kept
          /\ \A f \in Scope(x.req) \intersect Kept : GroupOf(f) = "tenant"
      BY RemovalAims DEF GroupOf, Kept
    <2>2. /\ dk2["host"] = dk["host"]
          /\ \A f \in Scope(x.req) \intersect Kept :
                dk2[f] = dk[f] /\ tp2[f] = tp[f]
      BY <2>1 DEF GroupOf
    <2> QED
      BY <2>2 DEF Trusts, Took
  <1>5. Sees(x, dk2)
    <2> SUFFICES ASSUME Writer(x.req) PROVE Sees(x, dk2)
      BY DEF Sees
    <2>0. Sees(x, dk) /\ Todo(x) /\ Binds(x.req)
      BY DEF Trusts, Formed, Binds
    <2>1. \A f \in Wants(x.req) : dk2[f] = dk[f]
      BY <1>1, <2>0
    <2>2. x.pc = "read" => x.seen = dk2[Head(x.todo)]
      <3> SUFFICES ASSUME x.pc = "read" PROVE Head(x.todo) \in Wants(x.req)
        BY <2>0, <2>1 DEF Sees
      <3>1. CASE x.req \in TenantWrites
        BY <3>1, <2>0, AimsTenant, Kinds, Wanted DEF Todo
      <3>2. CASE x.req \in HostWrites
        BY <3>2, <2>0, AimsHost, Kinds, Wanted DEF Todo
      <3>3. CASE x.req \in UserWrites
        BY <3>3, <2>0, AimsUser, Kinds, Wanted DEF Todo
      <3> QED
        BY <3>1, <3>2, <3>3 DEF Writer
    <2>3. x.pc \in {"stat", "read"} /\ x.todo # Reads(x.req) =>
             x.got["meta"] = Held("meta", dk2["meta"])
      <3> SUFFICES ASSUME x.pc \in {"stat", "read"}, x.todo # Reads(x.req)
                   PROVE  "meta" \in Wants(x.req)
        BY <2>0, <2>1 DEF Sees
      <3> QED
        BY <2>0, Kinds, Wanted DEF Todo, Writer
    <2> QED
      BY <2>0, <2>1, <2>2, <2>3 DEF Sees
  <1> QED
    BY <1>2, <1>3, <1>4, <1>5 DEF Trusts

----------------------------------------------------------------------------
(* One step of one thread.                                                 *)

(* The requests of the threads are those of the world. *)
LEMMA WorldTyped ==
    ASSUME TypeOK, InWorld
    PROVE  /\ world.ops \subseteq Requests
           /\ \A t \in Threads : thr[t].req \in Requests \union {NoRequest}
           /\ \A t \in All :
                 Binds(thr[t].req) \/ Removes(thr[t].req) =>
                    t \in Threads /\ thr[t].req \in Requests
  <1>1. world.ops \subseteq Requests
    BY StoreConstants DEF TypeOK, Requests
  <1>2. \A r : r.op = "overview" \/ r = NoRequest =>
                  ~Binds(r) /\ ~Removes(r)
    BY Kinds DEF Binds, Writer, Removes
  <1>3. \A t \in Threads : thr[t].req \in Requests \union {NoRequest}
    BY <1>1 DEF InWorld
  <1> QED
    BY <1>1, <1>2, <1>3 DEF InWorld, All

(* What the invariant says of one thread. *)
LEMMA InvReq ==
    ASSUME Inv, NEW t \in All
    PROVE  /\ IsThread(thr[t]) /\ Formed(thr[t])
           /\ ThreadOK(thr[t], disk, tmp, dir)
           /\ ~thr[t].rival => Trusts(thr[t], disk, tmp, dir)
           /\ thr[t].req \in Requests \union {NoRequest}
              \/ thr[t].req.op = "overview"
           /\ Binds(thr[t].req) \/ Removes(thr[t].req) =>
                 t \in Threads /\ thr[t].req \in Requests
           /\ thr[t].pc \in Pcs(thr[t].req) /\ Todo(thr[t])
  <1>1. TypeOK /\ InWorld /\ ThreadsOK
    BY DEF Inv
  <1>2. ThreadOK(thr[t], disk, tmp, dir)
    BY <1>1 DEF ThreadsOK
  <1>3. thr[t].req \in Requests \union {NoRequest}
              \/ thr[t].req.op = "overview"
    BY <1>1, WorldTyped DEF InWorld, All
  <1>4. Binds(thr[t].req) \/ Removes(thr[t].req) =>
                 t \in Threads /\ thr[t].req \in Requests
    BY <1>1, WorldTyped
  <1> QED
    BY <1>1, <1>2, <1>3, <1>4 DEF TypeOK, ThreadOK, Formed

(* Nobody else is at the documents of who has met no rival. *)
LEMMA OnlyWriter ==
    ASSUME Inv, NEW t \in All, NEW u \in All, u # t, ~thr[u].rival,
           Binds(thr[u].req) \/ Removes(thr[u].req)
    PROVE  t = Collector \/ Group(thr[t].req) # Group(thr[u].req)
  <1>1. u \in Threads /\ thr[u].req \in Requests
    BY InvReq
  <1>2. Group(thr[u].req) # "none"
    BY <1>1, WriterAims, RemovalAims DEF GroupOf
  <1> QED
    BY <1>1, <1>2 DEF Inv, Alone, All

(* A thread whose file was moved, or that has met a rival, is otherwise    *)
(* the same.                                                               *)
ElseSame(x, y) == \E d : y = [x EXCEPT !.fd = d]

(* What is left of a thread's state when its file moves. *)
LEMMA FdOnly ==
    ASSUME NEW x, IsThread(x), NEW d, NEW y, y = [x EXCEPT !.fd = d]
    PROVE  /\ IsThread(y) /\ y.fd = d /\ y.req = x.req /\ y.pc = x.pc
           /\ y.todo = x.todo /\ y.seen = x.seen /\ y.got = x.got
           /\ y.new = x.new /\ y.left = x.left /\ y.rival = x.rival
  <1>1. y = [req |-> x.req, pc |-> x.pc, todo |-> x.todo,
             seen |-> x.seen, got |-> x.got, new |-> x.new, fd |-> d,
             left |-> x.left, rival |-> x.rival]
    BY DEF IsThread
  <1>2. /\ y.fd = d /\ y.req = x.req /\ y.pc = x.pc
        /\ y.todo = x.todo /\ y.seen = x.seen /\ y.got = x.got
        /\ y.new = x.new /\ y.left = x.left /\ y.rival = x.rival
    BY <1>1
  <1> QED
    BY <1>1, <1>2 DEF IsThread

(* What is left of a thread's state when it meets a rival. *)
LEMMA MetOnly ==
    ASSUME NEW x, IsThread(x), NEW y, y = [x EXCEPT !.rival = TRUE]
    PROVE  /\ IsThread(y) /\ y.fd = x.fd /\ y.req = x.req /\ y.pc = x.pc
           /\ y.todo = x.todo /\ y.seen = x.seen /\ y.got = x.got
           /\ y.new = x.new /\ y.left = x.left /\ y.rival
  <1>1. y = [req |-> x.req, pc |-> x.pc, todo |-> x.todo,
             seen |-> x.seen, got |-> x.got, new |-> x.new, fd |-> x.fd,
             left |-> x.left, rival |-> TRUE]
    BY DEF IsThread
  <1>2. /\ y.fd = x.fd /\ y.req = x.req /\ y.pc = x.pc
        /\ y.todo = x.todo /\ y.seen = x.seen /\ y.got = x.got
        /\ y.new = x.new /\ y.left = x.left /\ y.rival
    BY <1>1
  <1> QED
    BY <1>1, <1>2 DEF IsThread

(* It is as well formed as before. *)
LEMMA SameForm ==
    ASSUME NEW x, NEW y, Formed(x), x.pc # "idle",
           y.req = x.req /\ y.pc = x.pc /\ y.todo = x.todo
              /\ y.got = x.got /\ y.new = x.new
    PROVE  Formed(y)
  BY DEF Formed, Todo

(* An idle thread relies on nothing. *)
LEMMA IdleOK ==
    /\ IsThread(Idle) /\ Idle.req = NoRequest /\ Idle.pc = "idle"
    /\ Idle.fd = "none" /\ Idle.rival = FALSE
    /\ \A dk, tp, dr : ThreadOK(Idle, dk, tp, dr)
  <1>1. /\ Idle.req = NoRequest /\ Idle.pc = "idle" /\ Idle.fd = "none"
        /\ Idle.todo = <<>> /\ Idle.new = Absent /\ Idle.rival = FALSE
        /\ Idle.got["meta"] = Null /\ Idle.got["host"] = EmptyHost
        /\ Idle.got["users"] = Null
    BY DEF Idle
  <1>2. IsThread(Idle)
    BY DEF IsThread, Idle, Files
  <1>3. ~Binds(NoRequest) /\ ~Writer(NoRequest) /\ ~Removes(NoRequest)
    BY Kinds DEF Binds, Writer, Removes
  <1>4. \A f \in Kept : Idle.got[f] \in DocsOf(f) \union {Unread(f)}
    BY <1>1 DEF Kept, Unread
  <1>5. "idle" \in Pcs(NoRequest)
    BY Kinds DEF Pcs
  <1> QED
    BY <1>1, <1>2, <1>3, <1>4, <1>5
       DEF ThreadOK, Formed, Trusts, Todo, Sees, Owns, InDir, Took

(* A step of one thread, which keeps its request or ends it and may move   *)
(* the files that others have open, leaves the others what they trust in.  *)
LEMMA StepKeeps ==
    ASSUME Inv, NEW t \in All, NEW f \in Files, NEW y,
           f \in Kept => t \in Threads /\ Group(thr[t].req) = GroupOf(f),
           UNCHANGED <<world, crashes>>,
           thr' = [u \in All |-> thr'[u]], thr'[t] = y,
           \A u \in All : u # t =>
              \/ thr'[u] = thr[u]
              \/ /\ Target(thr[u].req) = f
                 /\ ElseSame(thr[u], thr'[u]),
           \/ y.req = thr[t].req /\ y.rival = thr[t].rival
           \/ y = Idle,
           IsThread(y), ThreadOK(y, disk', tmp', dir'),
           disk' = [g \in Files |-> disk'[g]],
           tmp' = [g \in Files |-> tmp'[g]],
           \A g \in Kept : /\ disk'[g] \in DocsOf(g) \union {Absent, Torn}
                           /\ tmp'[g] \in DocsOf(g) \union {Absent, Torn},
           dir' \in {"none", "tenant", "host"},
           \A g \in Kept :
              t = Collector \/ Group(thr[t].req) # GroupOf(g) =>
                 disk'[g] = disk[g] /\ tmp'[g] = tmp[g],
           t = Collector \/ Group(thr[t].req) # "tenant" =>
              (dir' = "none" <=> dir = "none")
    PROVE  Inv'
  <1>a. Inv /\ TypeOK /\ InWorld /\ Alone /\ ThreadsOK
    BY DEF Inv
  <1>b. \A u \in All : u # t =>
           /\ IsThread(thr'[u]) /\ thr'[u].req = thr[u].req
           /\ thr'[u].pc = thr[u].pc /\ thr'[u].todo = thr[u].todo
           /\ thr'[u].seen = thr[u].seen /\ thr'[u].got = thr[u].got
           /\ thr'[u].new = thr[u].new /\ thr'[u].left = thr[u].left
           /\ thr'[u].rival = thr[u].rival
    <2> SUFFICES ASSUME NEW u \in All, u # t
                 PROVE  /\ IsThread(thr'[u]) /\ thr'[u].req = thr[u].req
                        /\ thr'[u].pc = thr[u].pc
                        /\ thr'[u].todo = thr[u].todo
                        /\ thr'[u].seen = thr[u].seen
                        /\ thr'[u].got = thr[u].got
                        /\ thr'[u].new = thr[u].new
                        /\ thr'[u].left = thr[u].left
                        /\ thr'[u].rival = thr[u].rival
      OBVIOUS
    <2>1. IsThread(thr[u])
      BY <1>a DEF TypeOK
    <2>2. CASE thr'[u] = thr[u]
      BY <2>1, <2>2
    <2>3. CASE \E d : thr'[u] = [thr[u] EXCEPT !.fd = d]
      <3>1. PICK d : thr'[u] = [thr[u] EXCEPT !.fd = d]
        BY <2>3
      <3> PICK z : z = [thr[u] EXCEPT !.fd = d]
        OBVIOUS
      <3>2. /\ IsThread(z) /\ z.req = thr[u].req /\ z.pc = thr[u].pc
            /\ z.todo = thr[u].todo /\ z.seen = thr[u].seen
            /\ z.got = thr[u].got /\ z.new = thr[u].new
            /\ z.left = thr[u].left /\ z.rival = thr[u].rival
        BY <2>1, FdOnly
      <3> QED
        BY <3>1, <3>2
    <2>4. thr'[u] = thr[u] \/ \E d : thr'[u] = [thr[u] EXCEPT !.fd = d]
      BY Zenon DEF ElseSame
    <2> QED
      BY <2>2, <2>3, <2>4
  <1>c. \A u \in All :
           \/ thr'[u].req = thr[u].req /\ thr'[u].rival = thr[u].rival
           \/ thr'[u].req = NoRequest
    BY <1>b, IdleOK
  <1>1. TypeOK'
    <2>1. \A u \in All : IsThread(thr'[u])
      BY <1>b
    <2> QED
      BY <1>a, <2>1 DEF TypeOK
  <1>2. InWorld'
    BY <1>a, <1>c DEF InWorld, All
  <1>3. Alone'
    <2>1. Group(NoRequest) = "none"
      BY AimsLists
    <2> SUFFICES ASSUME NEW u \in Threads, NEW v \in Threads, u # v,
                        ~thr'[u].rival, Group(thr'[u].req) # "none"
                 PROVE  Group(thr'[v].req) # Group(thr'[u].req)
      BY DEF Alone
    <2>2. thr'[u].req = thr[u].req /\ thr'[u].rival = thr[u].rival
      BY <2>1, <1>c DEF All
    <2>3. Group(thr[v].req) # Group(thr[u].req)
      BY <1>a, <2>2 DEF Alone
    <2> QED
      BY <2>1, <2>2, <2>3, <1>c DEF All
  <1>4. ThreadsOK'
    <2> SUFFICES ASSUME NEW u \in All, u # t
                 PROVE  ThreadOK(thr'[u], disk', tmp', dir')
      BY DEF ThreadsOK
    <2>0. /\ Formed(thr[u])
          /\ ~thr[u].rival => Trusts(thr[u], disk, tmp, dir)
          /\ Binds(thr[u].req) \/ Removes(thr[u].req) =>
                thr[u].req \in Requests
      BY InvReq
    <2>1. ~thr[u].rival /\ (Binds(thr[u].req) \/ Removes(thr[u].req)) =>
             t = Collector \/ Group(thr[t].req) # Group(thr[u].req)
      BY OnlyWriter
    <2>2. ~thr[u].rival => Trusts(thr[u], disk', tmp', dir')
      <3> SUFFICES ASSUME ~thr[u].rival
                   PROVE  Trusts(thr[u], disk', tmp', dir')
        OBVIOUS
      <3>1. Binds(thr[u].req) \/ Removes(thr[u].req) =>
              /\ \A g \in Kept : GroupOf(g) = Group(thr[u].req) =>
                               disk'[g] = disk[g] /\ tmp'[g] = tmp[g]
              /\ Group(thr[u].req) = "tenant" =>
                    (dir' = "none" <=> dir = "none")
        BY <2>1
      <3> QED
        BY <2>0, <3>1, Frame
    <2>3. CASE thr'[u] = thr[u]
      BY <2>0, <2>2, <2>3 DEF ThreadOK
    <2>4. CASE Target(thr[u].req) = f
      <3>1. thr[u].pc # "idle"
        <4>1. thr[u].req # NoRequest
          BY <2>4, AimsLists DEF Files
        <4> QED
          BY <2>0, <4>1, IdleOK DEF Formed
      <3>2. Formed(thr'[u])
        BY <2>0, <3>1, <1>b, SameForm
      <3>3. ~thr[u].rival => ~Binds(thr[u].req)
        <4> SUFFICES ASSUME ~thr[u].rival, Binds(thr[u].req) PROVE FALSE
          OBVIOUS
        <4>1. f \in Kept /\ Group(thr[u].req) = GroupOf(f)
          BY <2>0, <2>4, WriterAims
        <4> QED
          BY <4>1, <2>1, StoreConstants
      <3>4. ~thr[u].rival => Trusts(thr'[u], disk', tmp', dir')
        <4> SUFFICES ASSUME ~thr[u].rival
                     PROVE  Trusts(thr'[u], disk', tmp', dir')
          OBVIOUS
        <4>1. ~Binds(thr[u].req) /\ ~Writer(thr[u].req)
          BY <3>3 DEF Binds
        <4>2. Took(thr[u], disk', tmp')
          BY <2>2 DEF Trusts
        <4>3. Took(thr'[u], disk', tmp')
          BY <4>2, <1>b DEF Took
        <4> QED
          BY <4>1, <4>3, <1>b DEF Trusts, Sees, Owns, InDir
      <3> QED
        BY <3>2, <3>4, <1>b DEF ThreadOK
    <2> QED
      BY <2>3, <2>4
  <1> QED
    BY <1>1, <1>2, <1>3, <1>4 DEF Inv

(* What replacing one thread leaves of the others. *)
LEMMA ThrUpdate ==
    ASSUME TypeOK, NEW t \in All, NEW y, thr' = [thr EXCEPT ![t] = y]
    PROVE  /\ thr'[t] = y
           /\ thr' = [u \in All |-> thr'[u]]
           /\ \A u \in All : u # t => thr'[u] = thr[u]
  BY DEF TypeOK

(* A step of one thread that changes no file but tmp'[f] or disk'[f].      *)
LEMMA FilesKeep ==
    ASSUME Inv, NEW t \in All, NEW y,
           UNCHANGED <<world, crashes>>, thr' = [thr EXCEPT ![t] = y],
           \/ y.req = thr[t].req /\ y.rival = thr[t].rival
           \/ y = Idle,
           IsThread(y), ThreadOK(y, disk', tmp', dir'),
           disk' = [g \in Files |-> disk'[g]],
           tmp' = [g \in Files |-> tmp'[g]],
           \A g \in Kept : /\ disk'[g] \in DocsOf(g) \union {Absent, Torn}
                           /\ tmp'[g] \in DocsOf(g) \union {Absent, Torn},
           dir' \in {"none", "tenant", "host"},
           \A g \in Kept :
              t = Collector \/ Group(thr[t].req) # GroupOf(g) =>
                 disk'[g] = disk[g] /\ tmp'[g] = tmp[g],
           t = Collector \/ Group(thr[t].req) # "tenant" =>
              (dir' = "none" <=> dir = "none")
    PROVE  Inv'
  <1>1. /\ thr'[t] = y /\ thr' = [u \in All |-> thr'[u]]
        /\ \A u \in All : u # t => thr'[u] = thr[u]
    BY ThrUpdate DEF Inv
  <1>2. "overview" \in Files /\ "overview" \notin Kept
    BY DEF Files, Kept
  <1> QED
    BY <1>1, <1>2, StepKeeps

(* A step of a thread that changes no file. *)
LEMMA ThreadKeeps ==
    ASSUME Inv, NEW t \in All, NEW y,
           UNCHANGED <<world, dir, disk, tmp, crashes>>,
           thr' = [thr EXCEPT ![t] = y],
           \/ y.req = thr[t].req /\ y.rival = thr[t].rival
           \/ y = Idle,
           IsThread(y), ThreadOK(y, disk, tmp, dir)
    PROVE  Inv'
  <1>1. TypeOK
    BY DEF Inv
  <1>2. ThreadOK(y, disk', tmp', dir')
    OBVIOUS
  <1> QED
    BY <1>1, <1>2, FilesKeep DEF TypeOK

(* What a reader has still to read. *)
LEMMA Reading ==
    ASSUME NEW x, x.pc \in {"stat", "read"}, x.pc \in Pcs(x.req), Todo(x),
           x.req \in Requests \union {NoRequest} \/ x.req.op = "overview"
    PROVE  /\ Head(x.todo) \in Files
           /\ \/ x.todo = <<Head(x.todo)>> /\ Len(x.todo) = 1
                 /\ \/ x.todo = Reads(x.req)
                    \/ /\ x.req.op \in {"host_set_watcher",
                                        "host_list_watchers"}
                       /\ Reads(x.req) = <<"meta", "host">>
                       /\ Head(x.todo) = "host"
              \/ /\ x.todo = Reads(x.req)
                 /\ x.todo = <<"meta", "host">> /\ Len(x.todo) = 2
                 /\ x.req.op \in {"host_set_watcher", "host_list_watchers"}
           /\ Writer(x.req) => Head(x.todo) \in Wants(x.req)
           /\ x.req \in Requests
           /\ x.req.op \notin {"create", "delete", "overview", "none"}
  <1>0. x.req \in Requests /\ x.req.op \notin {"create", "delete", "overview"}
    BY Kinds DEF Pcs, Ending
  <1>a. x.req.op # "none"
    BY <1>0, Kinds DEF Requests
  <1>1. CASE x.req \in TenantWrites
    BY <1>1, <1>0, <1>a, AimsTenant, Wanted, Kinds DEF Todo, Files
  <1>2. CASE x.req \in HostWrites
    <2>1. CASE x.req.op = "host_set_watcher"
      <3>1. /\ Reads(x.req) = <<"meta", "host">>
            /\ Wants(x.req) = {"meta", "host"}
        BY <1>2, <2>1, AimsHost, Wanted
      <3> QED
        BY <2>1, <3>1, <1>0 DEF Todo, Files
    <2>2. CASE x.req.op = "host_delete_watcher"
      <3>1. Reads(x.req) = <<"host">> /\ Wants(x.req) = {"host"}
        BY <1>2, <2>2, AimsHost, Wanted
      <3> QED
        BY <2>2, <3>1, <1>0 DEF Todo, Files
    <2> QED
      BY <1>2, <2>1, <2>2, Kinds
  <1>3. CASE x.req \in UserWrites
    BY <1>3, <1>0, <1>a, AimsUser, Wanted, Kinds DEF Todo, Files
  <1>4. CASE x.req \in TenantLife
    <2>1. x.req.op = "remove_host" /\ ~Writer(x.req)
      BY <1>0, <1>4, Kinds DEF Writer
    <2> QED
      BY <1>4, <1>0, <2>1, AimsLife DEF Todo, Files
  <1>5. CASE x.req \in Lists
    <2>1. /\ ~Writer(x.req) /\ x.req \notin TenantWrites
          /\ x.req \notin UserWrites
      BY <1>5, Kinds DEF Writer
    <2>2. x.req.op \in {"get_meta", "host_list_watchers", "host_overview",
                       "login"}
      BY <1>5, Kinds
    <2>3. \/ Reads(x.req) \in {<<"meta">>, <<"users">>, <<"overview">>}
             /\ x.req.op \notin {"host_set_watcher", "host_list_watchers"}
          \/ Reads(x.req) = <<"meta", "host">>
             /\ x.req.op = "host_list_watchers"
      BY <2>1, <2>2 DEF Reads
    <2> QED
      BY <2>1, <2>3, <1>0, <1>a DEF Todo, Files
  <1> QED
    BY <1>0, <1>1, <1>2, <1>3, <1>4, <1>5 DEF Requests

(* What has been read is what is there. *)
HaveOf(x, doc) ==
    [x EXCEPT !.got[Head(x.todo)] = doc, !.todo = Tail(@), !.seen = Absent,
              !.pc = IF Len(x.todo) = 1 THEN "act" ELSE "stat"]

(* The fields of a reader that has a document. *)
LEMMA HaveFields ==
    ASSUME NEW x, NEW doc, NEW y, IsThread(x), y = HaveOf(x, doc)
    PROVE  /\ IsThread(y) /\ y.req = x.req /\ y.rival = x.rival
           /\ y.pc = IF Len(x.todo) = 1 THEN "act" ELSE "stat"
           /\ y.todo = Tail(x.todo) /\ y.new = x.new /\ y.fd = x.fd
           /\ \A g \in Files :
                 y.got[g] = IF g = Head(x.todo) THEN doc ELSE x.got[g]
  <1> DEFINE got == [x.got EXCEPT ![Head(x.todo)] = doc]
             pc == IF Len(x.todo) = 1 THEN "act" ELSE "stat"
  <1>1. y = [req |-> x.req, pc |-> pc, todo |-> Tail(x.todo),
             seen |-> Absent, got |-> got, new |-> x.new, fd |-> x.fd,
             left |-> x.left, rival |-> x.rival]
    BY DEF IsThread, HaveOf
  <1>2. /\ y.req = x.req /\ y.pc = pc /\ y.todo = Tail(x.todo)
        /\ y.seen = Absent /\ y.got = got /\ y.new = x.new /\ y.fd = x.fd
        /\ y.left = x.left /\ y.rival = x.rival
    BY <1>1
  <1>3. got = [g \in Files |-> got[g]]
    BY DEF IsThread
  <1>4. \A g \in Files : got[g] = IF g = Head(x.todo) THEN doc ELSE x.got[g]
    BY DEF IsThread
  <1>5. IsThread(y)
    <2> HIDE DEF got, pc
    <2> QED
      BY <1>1, <1>2, <1>3 DEF IsThread
  <1> QED
    BY <1>2, <1>4, <1>5

(* A reader that has a document relies on what it did before. *)
LEMMA HaveKeeps ==
    ASSUME NEW x, NEW dk, NEW tp, NEW dr, NEW doc, NEW y,
           IsThread(x), ThreadOK(x, dk, tp, dr), x.pc \in {"stat", "read"},
           x.req \in Requests \union {NoRequest} \/ x.req.op = "overview",
           Head(x.todo) \in Kept =>
              doc \in DocsOf(Head(x.todo)) \union {Unread(Head(x.todo))},
           Writer(x.req) /\ ~x.rival =>
              doc = Held(Head(x.todo), dk[Head(x.todo)]),
           y = HaveOf(x, doc)
    PROVE  /\ IsThread(y) /\ y.req = x.req /\ y.rival = x.rival
           /\ ThreadOK(y, dk, tp, dr) /\ y.pc \in {"act", "stat"}
  <1> DEFINE f == Head(x.todo)
  <1>0. Formed(x) /\ (~x.rival => Trusts(x, dk, tp, dr))
    BY DEF ThreadOK
  <1>1. /\ IsThread(y) /\ y.req = x.req /\ y.rival = x.rival
        /\ y.pc = IF Len(x.todo) = 1 THEN "act" ELSE "stat"
        /\ y.todo = Tail(x.todo)
        /\ \A g \in Files : y.got[g] = IF g = f THEN doc ELSE x.got[g]
    BY HaveFields
  <1>2. y.pc \in {"act", "stat"}
    BY <1>1
  <1>3. /\ f \in Files
        /\ \/ x.todo = <<f>> /\ Len(x.todo) = 1
              /\ \/ x.todo = Reads(x.req)
                 \/ /\ x.req.op \in {"host_set_watcher",
                                     "host_list_watchers"}
                    /\ Reads(x.req) = <<"meta", "host">>
                    /\ f = "host"
           \/ /\ x.todo = Reads(x.req)
              /\ x.todo = <<"meta", "host">> /\ Len(x.todo) = 2
              /\ x.req.op \in {"host_set_watcher", "host_list_watchers"}
        /\ Writer(x.req) => f \in Wants(x.req)
        /\ x.req \in Requests
        /\ x.req.op \notin {"create", "delete", "overview", "none"}
    BY <1>0, Reading DEF Formed
  <1>4. Formed(y)
    <2>1. \A g \in Kept : y.got[g] \in DocsOf(g) \union {Unread(g)}
      BY <1>0, <1>1 DEF Formed, Kept, Files
    <2>2. y.pc \in Pcs(y.req)
      BY <1>0, <1>1 DEF Formed, Pcs, Ending
    <2>3. Todo(y)
      <3> SUFFICES ASSUME Len(x.todo) = 2 PROVE Todo(y)
        BY <1>1, <1>3 DEF Todo
      <3>1. /\ x.todo = <<"meta", "host">>
            /\ x.req.op \in {"host_set_watcher", "host_list_watchers"}
        BY <1>3
      <3> QED
        BY <1>1, <3>1 DEF Todo
    <2> QED
      BY <1>2, <2>1, <2>2, <2>3 DEF Formed
  <1>5. ASSUME ~x.rival PROVE Trusts(y, dk, tp, dr)
    <2>0. Trusts(x, dk, tp, dr) /\ (Writer(x.req) => doc = Held(f, dk[f]))
      BY <1>0, <1>5
    <2>1. Sees(y, dk)
      <3> SUFFICES ASSUME Writer(x.req) PROVE Sees(y, dk)
        BY <1>1 DEF Sees
      <3>0. Sees(x, dk) /\ doc = Held(f, dk[f])
        BY <2>0 DEF Trusts
      <3>1. CASE Len(x.todo) = 1 /\ x.todo = Reads(x.req)
        <4>1. Wants(x.req) = {f}
          BY <3>1, <1>3, AimsTenant, AimsHost, AimsUser, Wanted, Kinds
             DEF Writer
        <4> HIDE DEF f
        <4> QED
          BY <4>1, <3>0, <1>3, <1>1, <3>1 DEF Sees
      <3>2. CASE x.todo # Reads(x.req)
        <4>1. x.req.op = "host_set_watcher" /\ f = "host" /\ Len(x.todo) = 1
          BY <3>2, <1>3, Kinds DEF Writer
        <4>2. x.req \in HostWrites /\ Wants(x.req) = {"meta", "host"}
          BY <4>1, Wanted, Kinds DEF Writer
        <4>3. x.got["meta"] = Held("meta", dk["meta"])
          BY <3>0, <3>2 DEF Sees
        <4> HIDE DEF f
        <4> QED
          BY <4>1, <4>2, <4>3, <3>0, <1>1 DEF Sees, Files
      <3>3. CASE Len(x.todo) = 2
        <4>1. x.todo = <<"meta", "host">>
          BY <3>3, <1>3
        <4>2. f = "meta" /\ y.pc = "stat"
          BY <4>1, <3>3, <1>1
        <4> HIDE DEF f
        <4>3. y.got["meta"] = Held("meta", dk["meta"])
          BY <4>2, <3>0, <1>1 DEF Files
        <4> QED
          BY <4>2, <4>3 DEF Sees
      <3> QED
        BY <3>1, <3>2, <3>3, <1>3
    <2>2. Owns(y, tp)
      BY <1>2 DEF Owns
    <2>3. InDir(y, dr)
      BY <1>1, <1>2, <2>0 DEF Trusts, InDir
    <2>4. Took(y, dk, tp)
      BY <1>1, <1>2, <2>0 DEF Trusts, Took
    <2> QED
      BY <2>1, <2>2, <2>3, <2>4 DEF Trusts
  <1> QED
    BY <1>1, <1>2, <1>4, <1>5 DEF ThreadOK

----------------------------------------------------------------------------
(* The steps keep the invariant.                                           *)

(* stat for the size. *)
LEMMA StatKeeps ==
    ASSUME Inv, NEW t \in All, Stat(t)
    PROVE  Inv'
  <1> DEFINE x == thr[t]
             f == Head(x.todo)
  <1>1. /\ IsThread(x) /\ ThreadOK(x, disk, tmp, dir) /\ Formed(x)
        /\ x.req \in Requests \union {NoRequest} \/ x.req.op = "overview"
        /\ x.pc \in Pcs(x.req) /\ Todo(x) /\ x.pc = "stat"
    BY InvReq DEF Stat
  <1>2. CASE disk[f] = Absent
    <2> DEFINE y == HaveOf(x, Unread(f))
    <2>1. thr' = [thr EXCEPT ![t] = y]
      BY <1>2 DEF Stat, Have, HaveOf, Inv, TypeOK
    <2>2. Writer(x.req) /\ ~x.rival => Unread(f) = Held(f, disk[f])
      BY <1>2 DEF Held
    <2>3. /\ IsThread(y) /\ y.req = x.req /\ y.rival = x.rival
          /\ ThreadOK(y, disk, tmp, dir)
      BY <1>1, <2>2, HaveKeeps
    <2> HIDE DEF y
    <2> QED
      BY <2>1, <2>3, ThreadKeeps DEF Stat
  <1>3. CASE disk[f] # Absent
    <2> PICK y : y = [x EXCEPT !.pc = "read", !.seen = disk[f]]
      OBVIOUS
    <2>1. thr' = [thr EXCEPT ![t] = y]
      BY <1>3 DEF Stat, Inv, TypeOK
    <2>2. y = [req |-> x.req, pc |-> "read", todo |-> x.todo,
               seen |-> disk[f], got |-> x.got, new |-> x.new, fd |-> x.fd,
               left |-> x.left, rival |-> x.rival]
      BY <1>1 DEF IsThread
    <2>3. /\ y.req = x.req /\ y.pc = "read" /\ y.todo = x.todo
          /\ y.got = x.got /\ y.seen = disk[f] /\ y.rival = x.rival
          /\ y.left = x.left
      BY <2>2
    <2>4. IsThread(y)
      BY <2>2, <2>3, <1>1 DEF IsThread
    <2>5. ThreadOK(y, disk, tmp, dir)
      <3>1. Formed(y)
        <4>1. y.pc \in Pcs(y.req)
          BY <2>3, <1>1 DEF Pcs, Ending
        <4> QED
          BY <4>1, <2>3, <1>1 DEF Formed, Todo
      <3>2. Sees(x, disk) => Sees(y, disk)
        BY <2>3, <1>1 DEF Sees
      <3>3. Owns(y, tmp)
        BY <2>3 DEF Owns
      <3>4. InDir(x, dir) => InDir(y, dir)
        BY <2>3, <1>1 DEF InDir
      <3>5. Took(x, disk, tmp) => Took(y, disk, tmp)
        BY <2>3, <1>1 DEF Took
      <3> QED
        BY <3>1, <3>2, <3>3, <3>4, <3>5, <2>3, <1>1 DEF ThreadOK, Trusts
    <2> QED
      BY <2>1, <2>3, <2>4, <2>5, ThreadKeeps DEF Stat
  <1> QED
    BY <1>2, <1>3

(* A writer reads the file it knows the size of, as it still is unless it  *)
(* has met a rival.                                                        *)
LEMMA ReadKeeps ==
    ASSUME Inv, NEW t \in All, Read(t)
    PROVE  Inv'
  <1> DEFINE x == thr[t]
             f == Head(x.todo)
  <1>1. /\ IsThread(x) /\ ThreadOK(x, disk, tmp, dir)
        /\ x.req \in Requests \union {NoRequest} \/ x.req.op = "overview"
        /\ x.pc \in Pcs(x.req) /\ Todo(x) /\ x.pc = "read"
    BY InvReq DEF Read
  <1>2. \A g \in Kept : disk[g] \in DocsOf(g) \union {Absent, Torn}
    BY DEF Inv, TypeOK
  <1>3. PICK doc :
           /\ \/ doc = disk[f] /\ disk[f] \notin {Absent, Torn}
              \/ doc = Unread(f) /\ disk[f] \in {Absent, Torn}
              \/ doc = Unread(f) /\ disk[f] # x.seen
           /\ Have(t, f, doc)
    <2>1. CASE Have(t, f, disk[f]) /\ disk[f] \notin {Absent, Torn}
      BY <2>1
    <2>2. CASE /\ Have(t, f, Unread(f))
               /\ disk[f] \in {Absent, Torn} \/ disk[f] # x.seen
      BY <2>2
    <2> QED
      BY <2>1, <2>2 DEF Read
  <1>4. f \in Kept => doc \in DocsOf(f) \union {Unread(f)}
    BY <1>2, <1>3
  <1>5. Writer(x.req) /\ ~x.rival => doc = Held(f, disk[f])
    <2>1. Writer(x.req) /\ ~x.rival => x.seen = disk[f]
      BY <1>1 DEF ThreadOK, Trusts, Sees
    <2> QED
      BY <2>1, <1>3 DEF Held
  <1> DEFINE y == HaveOf(x, doc)
  <1>6. thr' = [thr EXCEPT ![t] = y]
    BY <1>3, Zenon DEF Have, HaveOf, Inv, TypeOK
  <1>7. /\ IsThread(y) /\ y.req = x.req /\ y.rival = x.rival
        /\ ThreadOK(y, disk, tmp, dir)
    BY <1>1, <1>4, <1>5, HaveKeeps
  <1> HIDE DEF y
  <1> QED
    BY <1>6, <1>7, ThreadKeeps DEF Read

(* The API may end at any point. *)
LEMMA RestartKeeps ==
    ASSUME Inv, UNCHANGED <<world, dir, disk>>, crashes' \in Nat,
           tmp' = [f \in Files |-> tmp'[f]],
           \A f \in Kept : tmp'[f] \in DocsOf(f) \union {Absent, Torn},
           Restart
    PROVE  Inv'
  <1>a. Inv /\ TypeOK /\ InWorld /\ Alone /\ ThreadsOK
    BY DEF Inv
  <1>b. Collector \notin Threads
    BY StoreConstants
  <1>c. /\ thr' = [t \in All |-> thr'[t]] /\ thr'[Collector] = thr[Collector]
        /\ \A t \in Threads : thr'[t] = Idle
    BY <1>a, <1>b DEF TypeOK, Restart, All
  <1>1. TypeOK'
    BY <1>a, <1>c, IdleOK DEF TypeOK, All
  <1>2. InWorld'
    BY <1>a, <1>c, IdleOK DEF InWorld
  <1>3. Alone'
    BY <1>c, IdleOK, AimsLists DEF Alone
  <1>4. ThreadsOK'
    <2>1. /\ ~Binds(thr[Collector].req) /\ ~Removes(thr[Collector].req)
          /\ Collector \in All
      BY <1>a, <1>b, WorldTyped DEF All
    <2>2. /\ Formed(thr[Collector])
          /\ ~thr[Collector].rival => Trusts(thr[Collector], disk, tmp, dir)
      BY <2>1, InvReq
    <2>3. ~thr[Collector].rival => Trusts(thr[Collector], disk', tmp', dir')
      BY <2>1, <2>2, Frame
    <2> QED
      BY <1>c, <2>2, <2>3, IdleOK DEF ThreadsOK, ThreadOK, All
  <1> QED
    BY <1>1, <1>2, <1>3, <1>4 DEF Inv

(* It may end of itself. *)
LEMMA CrashKeeps ==
    ASSUME Inv, Crash
    PROVE  Inv'
  BY RestartKeeps DEF Crash, Inv, TypeOK

(* The watcher is not seen by the API. *)
LEMMA ForgetKeeps ==
    ASSUME Inv, Forget
    PROVE  Inv'
  BY DEF Inv, Forget, TypeOK, InWorld, Alone, ThreadsOK

(* A directory more changes nothing for those that need one. *)
LEMMA HostReportsKeeps ==
    ASSUME Inv, HostReports
    PROVE  Inv'
  <1>a. Inv /\ TypeOK /\ InWorld /\ Alone /\ ThreadsOK
    BY DEF Inv
  <1>b. /\ UNCHANGED <<world, disk, tmp, thr, crashes>>
        /\ dir = "tenant" /\ dir' = "host"
    BY DEF HostReports
  <1>1. TypeOK' /\ InWorld' /\ Alone'
    BY <1>a, <1>b DEF TypeOK, InWorld, Alone
  <1>2. ASSUME NEW t \in All
        PROVE  ThreadOK(thr[t], disk, tmp, "host")
    <2>1. /\ Formed(thr[t]) /\ (~thr[t].rival =>
                                   Trusts(thr[t], disk, tmp, dir))
          /\ Binds(thr[t].req) \/ Removes(thr[t].req) =>
                thr[t].req \in Requests
      BY InvReq
    <2>2. ("host" = "none" <=> dir = "none")
      BY <1>b
    <2>3. ~thr[t].rival => Trusts(thr[t], disk, tmp, "host")
      BY <2>1, <2>2, Frame
    <2> QED
      BY <2>1, <2>3 DEF ThreadOK
  <1>3. ThreadsOK'
    BY <1>2, <1>b DEF ThreadsOK
  <1> QED
    BY <1>1, <1>3 DEF Inv

(* A thread that goes on to write. *)
ToOpen(x) == [x EXCEPT !.pc = "open", !.new = Change(x.req, x.got)]

(* The state of a thread that has made its change. *)
LEMMA OpenFields ==
    ASSUME NEW x, NEW y, IsThread(x), y = ToOpen(x)
    PROVE  /\ IsThread(y) /\ y.req = x.req /\ y.pc = "open"
           /\ y.got = x.got /\ y.new = Change(x.req, x.got)
           /\ y.rival = x.rival /\ y.left = x.left
  <1> DEFINE new == Change(x.req, x.got)
  <1>1. y = [x EXCEPT !.pc = "open", !.new = new]
    BY DEF ToOpen
  <1> HIDE DEF new
  <1>2. y = [req |-> x.req, pc |-> "open", todo |-> x.todo,
             seen |-> x.seen, got |-> x.got, new |-> new,
             fd |-> x.fd, left |-> x.left, rival |-> x.rival]
    BY <1>1 DEF IsThread
  <1>3. /\ y.req = x.req /\ y.pc = "open" /\ y.got = x.got
        /\ y.new = new /\ y.rival = x.rival /\ y.left = x.left
        /\ y.todo = x.todo /\ y.seen = x.seen /\ y.fd = x.fd
    BY <1>2
  <1>4. IsThread(y)
    BY <1>2, <1>3 DEF IsThread
  <1> QED
    BY <1>3, <1>4 DEF new

(* Such a thread is as the invariant says. *)
LEMMA OpenForm ==
    ASSUME NEW x, NEW y, IsThread(x), Formed(x), y = ToOpen(x),
           ~GoesDown(x.req, x.got), ~Refused(x.req, x.got),
           "open" \in Pcs(x.req)
    PROVE  Formed(y)
  <1>1. /\ y.req = x.req /\ y.pc = "open" /\ y.got = x.got
        /\ y.new = Change(x.req, x.got)
    BY OpenFields
  <1>2. Todo(y)
    BY <1>1 DEF Todo
  <1> QED
    BY <1>1, <1>2 DEF Formed

(* The change is made of what is still there. *)
LEMMA ActKeeps ==
    ASSUME Inv, NEW t \in All, Act(t)
    PROVE  Inv'
  <1> DEFINE x == thr[t]
             r == x.req
  <1>1. /\ IsThread(x) /\ Formed(x) /\ x.pc \in Pcs(r) /\ x.pc = "act"
        /\ ~x.rival => Trusts(x, disk, tmp, dir)
        /\ r \in Requests \union {NoRequest} \/ r.op = "overview"
    BY InvReq DEF Act
  <1>2. UNCHANGED <<world, dir, disk, crashes>> /\ TypeOK
    BY DEF Act, Inv
  <1>3. CASE GoDown(t)
    <2>1. /\ tmp' = [f \in Files |-> tmp'[f]]
          /\ \A f \in Kept : tmp'[f] \in DocsOf(f) \union {Absent, Torn}
      <3>1. CASE UNCHANGED tmp
        BY <3>1, <1>2 DEF TypeOK
      <3>2. CASE tmp' = [tmp EXCEPT ![Target(r)] = Torn]
        BY <3>2, <1>2 DEF TypeOK, Kept, Files
      <3> QED
        BY <1>3, <3>1, <3>2 DEF GoDown
    <2>2. Restart
      BY <1>3 DEF GoDown
    <2>3. crashes' \in Nat
      BY <1>2 DEF TypeOK
    <2> QED
      BY <1>2, <2>1, <2>2, <2>3, RestartKeeps
  <1>4. CASE thr' = [thr EXCEPT ![t] = Idle] /\ UNCHANGED tmp
    BY <1>4, <1>2, IdleOK, ThreadKeeps
  <1>5. CASE /\ ~GoesDown(r, x.got) /\ ~Refused(r, x.got)
             /\ Target(r) # "none" /\ UNCHANGED tmp
             /\ thr' = [thr EXCEPT ![t].pc = "open",
                                   ![t].new = Change(r, x.got)]
    <2> PICK y : y = ToOpen(x)
      OBVIOUS
    <2>1. thr' = [thr EXCEPT ![t] = y]
      BY <1>5, <1>2 DEF TypeOK, ToOpen
    <2>2. /\ IsThread(y) /\ y.req = r /\ y.pc = "open" /\ y.got = x.got
          /\ y.rival = x.rival /\ y.left = x.left
      BY <1>1, OpenFields
    <2>3. "open" \in Pcs(r)
      BY <1>1, <1>5, AimsLists, Kinds DEF Pcs, Ending
    <2>4. Formed(y)
      BY <1>1, <1>5, <2>3, OpenForm
    <2>5. ASSUME ~x.rival PROVE Trusts(y, disk, tmp, dir)
      <3>1. Trusts(x, disk, tmp, dir)
        BY <1>1, <2>5
      <3>2. Sees(y, disk)
        BY <3>1, <2>2, <1>1 DEF Trusts, Sees
      <3>3. InDir(y, dir)
        BY <3>1, <2>2, <1>1 DEF Trusts, InDir
      <3>4. Took(y, disk, tmp)
        BY <3>1, <2>2, <1>1 DEF Trusts, Took
      <3> QED
        BY <3>2, <3>3, <3>4, <2>2 DEF Trusts, Owns
    <2>6. ThreadOK(y, disk, tmp, dir)
      BY <2>2, <2>4, <2>5 DEF ThreadOK
    <2> QED
      BY <2>1, <2>2, <2>6, <1>2, <1>5, ThreadKeeps
  <1> QED
    BY <1>3, <1>4, <1>5 DEF Act

(* The fields of a thread that starts. *)
LEMMA StartFields ==
    ASSUME NEW r \in Requests, NEW met \in BOOLEAN, NEW y,
           y = Started(r, met)
    PROVE  /\ IsThread(y) /\ y.req = r /\ y.todo = Reads(r)
           /\ y.got = Idle.got /\ y.rival = met /\ y.fd = "none"
           /\ y.pc = CASE r.op = "create" -> "mkdir"
                       [] r.op \in {"delete", "remove_host"} -> "remove"
                       [] OTHER -> "stat"
  <1> PICK pc : pc = CASE r.op = "create" -> "mkdir"
                       [] r.op \in {"delete", "remove_host"} -> "remove"
                       [] OTHER -> "stat"
    OBVIOUS
  <1>1. y = [Idle EXCEPT !.req = r, !.todo = Reads(r), !.rival = met,
                         !.pc = pc]
    BY DEF Started
  <1>2. y = [req |-> r, pc |-> pc, todo |-> Reads(r), seen |-> Absent,
             got |-> Idle.got, new |-> Absent, fd |-> "none",
             left |-> {}, rival |-> met]
    BY <1>1 DEF Idle
  <1>3. /\ y.req = r /\ y.pc = pc /\ y.todo = Reads(r) /\ y.seen = Absent
        /\ y.got = Idle.got /\ y.new = Absent /\ y.fd = "none"
        /\ y.left = {} /\ y.rival = met
    BY <1>2
  <1>4. IsThread(y)
    BY <1>2, <1>3, IdleOK DEF IsThread
  <1> QED
    BY <1>3, <1>4

(* A thread that has just started trusts in its directory only. *)
LEMMA StartOK ==
    ASSUME NEW r \in Requests, NEW met \in BOOLEAN, NEW y, MayStart(r),
           y = Started(r, met)
    PROVE  ThreadOK(y, disk, tmp, dir)
  <1>1. /\ y.req = r /\ y.todo = Reads(r)
        /\ y.got = Idle.got
        /\ y.pc = CASE r.op = "create" -> "mkdir"
                    [] r.op \in {"delete", "remove_host"} -> "remove"
                    [] OTHER -> "stat"
    BY StartFields
  <1>2. r # NoRequest /\ r.op # "overview"
    BY Kinds DEF Requests
  <1>3. y.pc \in {"mkdir", "remove", "stat"}
    BY <1>1
  <1>4. Formed(y)
    <2>1. y.pc \in Pcs(r)
      BY <1>1, <1>2, Kinds DEF Pcs, Ending
    <2>2. \A f \in Kept : y.got[f] \in DocsOf(f) \union {Unread(f)}
      BY <1>1, IdleOK DEF ThreadOK, Formed
    <2> QED
      BY <1>1, <1>3, <2>1, <2>2 DEF Formed, Todo
  <1>5. InDir(y, dir)
    <2> SUFFICES ASSUME Binds(r) PROVE InDir(y, dir)
      BY <1>1 DEF InDir
    <2>1. r.op = "create" => y.pc = "mkdir" /\ dir = "none"
      BY <1>1 DEF MayStart
    <2>2. r.op # "create" => y.pc # "mkdir"
      BY <1>1
    <2>3. Target(r) = "users" \/ r \notin UserWrites
      BY AimsUser
    <2>4. r.op # "create" /\ r \notin UserWrites => r.op # "login"
      BY Kinds DEF Binds, Writer
    <2> QED
      BY <2>1, <2>2, <2>3, <2>4, <1>1 DEF InDir, MayStart
  <1>6. Took(y, disk, tmp)
    BY <1>1, <1>3 DEF Took, Removes
  <1>7. Sees(y, disk) /\ Owns(y, tmp)
    BY <1>1, <1>3 DEF Sees, Owns
  <1> QED
    BY <1>4, <1>5, <1>6, <1>7 DEF ThreadOK, Trusts

(* A request starts where it may, and those that it meets trust in nothing *)
(* from then on.                                                           *)
LEMMA BeginKeeps ==
    ASSUME Inv, NEW t \in Threads, NEW r \in world.ops, Begin(t, r)
    PROVE  Inv'
  <1> PICK y : y = Started(r, Rivals(t, r) # {})
    OBVIOUS
  <1>a. Inv /\ TypeOK /\ InWorld /\ Alone /\ ThreadsOK
    BY DEF Inv
  <1>b. /\ thr[t].pc = "idle" /\ MayStart(r)
        /\ UNCHANGED <<world, dir, disk, tmp, crashes>>
        /\ thr' = [u \in DOMAIN thr |->
                    IF u = t THEN y
                    ELSE IF u \in Rivals(t, r)
                    THEN [thr[u] EXCEPT !.rival = TRUE] ELSE thr[u]]
    BY DEF Begin
  <1>c. DOMAIN thr = All /\ t \in All /\ t # Collector
    BY <1>a, StoreConstants DEF TypeOK, All
  <1>d. r \in Requests
    BY <1>a, WorldTyped
  <1>e. /\ IsThread(y) /\ y.req = r /\ y.rival = (Rivals(t, r) # {})
        /\ ThreadOK(y, disk, tmp, dir)
    <2> DEFINE met == Rivals(t, r) # {}
    <2>1. met \in BOOLEAN /\ y = Started(r, met)
      OBVIOUS
    <2> HIDE DEF met
    <2>2. IsThread(y) /\ y.req = r /\ y.rival = met
      BY <2>1, <1>d, StartFields
    <2>3. ThreadOK(y, disk, tmp, dir)
      BY <2>1, <1>b, <1>d, StartOK
    <2> QED
      BY <2>2, <2>3 DEF met
  <1>f. /\ thr' = [u \in All |-> thr'[u]] /\ thr'[t] = y
        /\ \A u \in All : u # t /\ u \notin Rivals(t, r) => thr'[u] = thr[u]
        /\ \A u \in All : u # t /\ u \in Rivals(t, r) =>
              thr'[u] = [thr[u] EXCEPT !.rival = TRUE]
    BY <1>b, <1>c
  <1>g. ASSUME NEW u \in All, u # t
        PROVE  /\ IsThread(thr'[u]) /\ thr'[u].req = thr[u].req
               /\ ThreadOK(thr'[u], disk, tmp, dir)
               /\ u \in Rivals(t, r) => thr'[u].rival
               /\ thr'[u].rival \in {thr[u].rival, TRUE}
    <2>1. IsThread(thr[u]) /\ ThreadOK(thr[u], disk, tmp, dir)
          /\ Formed(thr[u])
      BY InvReq
    <2>2. CASE u \notin Rivals(t, r)
      BY <2>1, <2>2, <1>f, <1>g
    <2>3. CASE u \in Rivals(t, r)
      <3> PICK z : z = [thr[u] EXCEPT !.rival = TRUE]
        OBVIOUS
      <3>1. thr'[u] = z
        BY <2>3, <1>f, <1>g
      <3>2. /\ IsThread(z) /\ z.req = thr[u].req /\ z.pc = thr[u].pc
            /\ z.todo = thr[u].todo /\ z.got = thr[u].got
            /\ z.new = thr[u].new /\ z.rival
        BY <2>1, MetOnly
      <3>3. thr[u].pc # "idle"
        <4>1. thr[u].pc = "idle" => Group(thr[u].req) = "none"
          BY <2>1, IdleOK, AimsLists DEF Formed
        <4> QED
          BY <4>1, <2>3 DEF Rivals
      <3>4. Formed(z)
        BY <2>1, <3>2, <3>3, SameForm
      <3>5. ThreadOK(z, disk, tmp, dir)
        BY <3>2, <3>4 DEF ThreadOK
      <3> QED
        BY <3>1, <3>2, <3>5
    <2> QED
      BY <2>2, <2>3
  <1>1. TypeOK'
    BY <1>a, <1>b, <1>e, <1>f, <1>g DEF TypeOK
  <1>2. InWorld'
    BY <1>a, <1>b, <1>c, <1>e, <1>f, <1>g DEF InWorld, All
  <1>3. Alone'
    <2> SUFFICES ASSUME NEW u \in Threads, NEW v \in Threads, u # v,
                        ~thr'[u].rival, Group(thr'[u].req) # "none"
                 PROVE  Group(thr'[v].req) # Group(thr'[u].req)
      BY DEF Alone
    <2>0. u \in All /\ v \in All
      BY DEF All
    <2>1. CASE u = t
      <3>1. Rivals(t, r) = {} /\ Group(r) # "none"
        BY <2>1, <1>e, <1>f
      <3>2. Group(thr[v].req) # Group(r)
        BY <3>1, <2>1 DEF Rivals
      <3> QED
        BY <2>0, <2>1, <3>2, <1>e, <1>f, <1>g
    <2>2. CASE v = t
      <3>1. u \notin Rivals(t, r)
        BY <2>0, <2>2, <1>g
      <3>2. Group(thr[u].req) # Group(r)
        BY <3>1, <2>0, <2>2, <1>g DEF Rivals
      <3> QED
        BY <2>0, <2>2, <3>2, <1>e, <1>f, <1>g
    <2>3. CASE u # t /\ v # t
      <3>1. /\ thr'[u].req = thr[u].req /\ thr'[v].req = thr[v].req
            /\ ~thr[u].rival
        BY <2>0, <2>3, <1>g
      <3> QED
        BY <3>1, <1>a DEF Alone
    <2> QED
      BY <2>1, <2>2, <2>3
  <1>4. ThreadsOK'
    BY <1>b, <1>e, <1>f, <1>g DEF ThreadsOK
  <1> QED
    BY <1>1, <1>2, <1>3, <1>4 DEF Inv

(* An answer ends the request. *)
LEMMA AnswerKeeps ==
    ASSUME Inv, NEW t \in All, Answer(t)
    PROVE  Inv'
  BY IdleOK, ThreadKeeps DEF Answer

(* The collector's round has nothing to do with the three documents. *)
LEMMA OverviewKeeps ==
    ASSUME Inv, OverviewRound
    PROVE  Inv'
  <1> DEFINE r == Overview(memory)
  <1> PICK y : y = [Idle EXCEPT !.req = r, !.pc = "open", !.new = memory]
    OBVIOUS
  <1>a. Inv /\ TypeOK /\ InWorld /\ Alone /\ ThreadsOK
    BY DEF Inv
  <1>b. /\ thr' = [thr EXCEPT ![Collector] = y]
        /\ UNCHANGED <<world, dir, disk, tmp, crashes>>
        /\ Collector \in All /\ Collector \notin Threads
    BY StoreConstants DEF OverviewRound, All
  <1>c. /\ thr'[Collector] = y /\ thr' = [u \in All |-> thr'[u]]
        /\ \A u \in All : u # Collector => thr'[u] = thr[u]
    BY <1>a, <1>b, ThrUpdate
  <1>d. r.op = "overview"
    BY DEF Overview, R
  <1>e. y = [req |-> r, pc |-> "open", todo |-> <<>>, seen |-> Absent,
             got |-> Idle.got, new |-> memory, fd |-> "none",
             left |-> {}, rival |-> FALSE]
    BY DEF Idle
  <1>f. y.req = r /\ y.pc = "open" /\ y.got = Idle.got /\ y.rival = FALSE
    <2>1. y.req = r /\ y.pc = "open" /\ y.got = Idle.got
      BY <1>e
    <2>2. y.rival = Idle.rival
      <3>1. Idle = [req |-> Idle.req, pc |-> Idle.pc, todo |-> Idle.todo,
                    seen |-> Idle.seen, got |-> Idle.got, new |-> Idle.new,
                    fd |-> Idle.fd, left |-> Idle.left,
                    rival |-> Idle.rival]
        BY DEF Idle
      <3> HIDE DEF r
      <3> QED
        BY <3>1
    <2>3. y.rival = FALSE
      BY <2>2, IdleOK
    <2> QED
      BY <2>1, <2>3
  <1>1. TypeOK'
    <2>1. IsThread(y)
      BY <1>e, <1>f, IdleOK DEF IsThread
    <2> QED
      BY <1>a, <1>b, <1>c, <2>1 DEF TypeOK
  <1>2. InWorld'
    BY <1>a, <1>b, <1>c, <1>d, <1>f DEF InWorld, All
  <1>3. Alone'
    <2>1. \A u \in Threads : thr'[u] = thr[u]
      BY <1>b, <1>c DEF All
    <2> QED
      BY <1>a, <2>1 DEF Alone
  <1>4. ThreadsOK'
    <2>1. ~Binds(r) /\ ~Writer(r) /\ ~Removes(r) /\ r # NoRequest
      BY <1>d, Kinds DEF Binds, Writer, Removes
    <2>2. "open" \in Pcs(r)
      BY <1>d, <2>1, Kinds DEF Pcs, Ending
    <2>3. \A f \in Kept : y.got[f] \in DocsOf(f) \union {Unread(f)}
      BY <1>f, IdleOK DEF ThreadOK, Formed
    <2>4. ThreadOK(y, disk, tmp, dir)
      BY <2>1, <2>2, <2>3, <1>f
         DEF ThreadOK, Formed, Trusts, Todo, Sees, Owns, InDir, Took
    <2> QED
      BY <2>4, <1>a, <1>b, <1>c DEF ThreadsOK
  <1> QED
    BY <1>1, <1>2, <1>3, <1>4 DEF Inv

(* The group of a request is that of the file it writes. *)
LEMMA TargetGroup ==
    \A r : Target(r) \in Kept => Group(r) = GroupOf(Target(r))
  BY DEF Group, GroupOf, Kept

(* Who writes the overview has no part in the other documents. *)
LEMMA Writing ==
    ASSUME Inv, NEW t \in All, thr[t].pc \in Ending
    PROVE  /\ Target(thr[t].req) \in Files
           /\ \/ /\ Binds(thr[t].req) /\ thr[t].req \in Requests
                 /\ t \in Threads /\ t # Collector
                 /\ Target(thr[t].req) \in Kept
                 /\ Group(thr[t].req) = GroupOf(Target(thr[t].req))
              \/ /\ ~Binds(thr[t].req) /\ ~Writer(thr[t].req)
                 /\ Target(thr[t].req) = "overview"
                 /\ Group(thr[t].req) = "tenant"
                 /\ thr[t].req.op \in {"remove_host", "overview"}
  <1> DEFINE r == thr[t].req
  <1>1. /\ r \in Requests \union {NoRequest} \/ r.op = "overview"
        /\ Binds(r) \/ Removes(r) => t \in Threads /\ r \in Requests
        /\ thr[t].pc \in Pcs(r)
    BY InvReq
  <1>2. CASE Binds(r)
    BY <1>1, <1>2, WriterAims, StoreConstants DEF Kept, Files
  <1>3. CASE ~Binds(r)
    <2>1. r.op # "delete" /\ r \notin Lists \union {NoRequest}
      BY <1>1, Kinds DEF Pcs, Ending
    <2>2. r.op \in {"remove_host", "overview"}
      BY <1>1, <1>3, <2>1, ReqIs DEF Removes
    <2>3. Target(r) = "overview"
      <3>1. r.op = "remove_host" => r \in TenantLife
        BY <1>1, Kinds DEF Requests
      <3> QED
        BY <2>2, <3>1, AimsLife, AimsOverview
    <2>4. Group(r) = "tenant"
      BY <2>3 DEF Group
    <2> QED
      BY <1>3, <2>2, <2>3, <2>4 DEF Files, Binds
  <1> QED
    BY <1>2, <1>3

(* What a request writes is a document. *)
LEMMA NewTyped ==
    ASSUME NEW x, Formed(x), Binds(x.req), x.req \in Requests,
           x.pc \in {"open", "dump", "rename"}
    PROVE  x.new \in DocsOf(Target(x.req))
  <1> DEFINE r == x.req
  <1>1. /\ \A f \in Kept : x.got[f] \in DocsOf(f) \union {Unread(f)}
        /\ x.new = Change(r, x.got)
        /\ ~Refused(r, x.got) /\ ~GoesDown(r, x.got)
    BY DEF Formed
  <1>2. /\ x.got.meta \in MetaDocs \union {Null}
        /\ x.got.host \in HostDocs
        /\ x.got.users \in UserDocs \union {Null}
    BY <1>1, Docs DEF Kept, DocsOf, Unread
  <1>3. CASE r \in TenantWrites
    <2>1. x.got.meta # Null
      BY <1>1, <1>3 DEF GoesDown
    <2> QED
      BY <1>1, <1>2, <1>3, <2>1, ChangeTenant, AimsTenant DEF DocsOf
  <1>4. CASE r \in HostWrites
    BY <1>1, <1>2, <1>4, ChangeHost, AimsHost DEF DocsOf
  <1>5. CASE r \in UserWrites
    <2>1. x.got.users # Null
      BY <1>1, <1>5 DEF Refused
    <2> QED
      BY <1>1, <1>2, <1>5, <2>1, ChangeUser, AimsUser DEF DocsOf
  <1>6. CASE r.op = "create"
    <2>1. r \in TenantLife /\ r.to \in Values
      BY <1>6, Kinds, KindsOther DEF Requests
    <2>2. Change(r, x.got) = NewTenant(r.to)
      BY <1>6 DEF Change
    <2> QED
      BY <1>1, <1>6, <2>1, <2>2, Docs, AimsLife DEF DocsOf
  <1> QED
    BY <1>3, <1>4, <1>5, <1>6 DEF Binds, Writer

(* Of those that write the same file none has met no rival. *)
LEMMA NobodyElse ==
    ASSUME Inv, NEW t \in All, Binds(thr[t].req), ~thr[t].rival,
           NEW u \in All, u # t
    PROVE  Target(thr[u].req) # Target(thr[t].req)
  <1>1. thr[t].req \in Requests /\ t \in Threads
    BY InvReq
  <1>2. Target(thr[t].req) \in Kept
    BY <1>1, WriterAims
  <1>3. CASE u = Collector
    <2>1. thr[u].req = NoRequest \/ thr[u].req.op = "overview"
      BY <1>3 DEF Inv, InWorld
    <2>2. Target(thr[u].req) \in {"none", "overview"}
      BY <2>1, AimsLists, AimsOverview
    <2> QED
      BY <1>2, <2>2 DEF Kept
  <1>4. CASE u # Collector
    <2>1. Group(thr[u].req) # Group(thr[t].req)
      BY <1>4, OnlyWriter
    <2> QED
      BY <1>2, <2>1, TargetGroup
  <1> QED
    BY <1>3, <1>4

(* The directory of a new tenant. *)
LEMMA MkdirKeeps ==
    ASSUME Inv, NEW t \in All, Mkdir(t)
    PROVE  Inv'
  <1> DEFINE x == thr[t]
             r == x.req
  <1>1. /\ IsThread(x) /\ Formed(x)
        /\ x.pc \in Pcs(r) /\ x.pc = "mkdir"
        /\ Binds(r) => t \in Threads /\ r \in Requests
    BY InvReq DEF Mkdir
  <1>2. TypeOK /\ UNCHANGED <<world, disk, tmp, crashes>>
    BY DEF Mkdir, Inv
  <1>3. r.op = "create" /\ t \in Threads /\ r \in Requests /\ Binds(r)
        /\ t # Collector
    <2>1. r.op = "create"
      BY <1>1, Kinds DEF Pcs, Ending
    <2> QED
      BY <2>1, <1>1, StoreConstants DEF Binds
  <1>4. CASE thr' = [thr EXCEPT ![t] = Idle] /\ UNCHANGED dir
    BY <1>2, <1>4, IdleOK, ThreadKeeps
  <1>5. CASE /\ dir' = IF dir = "none" THEN "tenant" ELSE dir
             /\ thr' = [thr EXCEPT ![t].pc = "open",
                                   ![t].new = Change(r, x.got)]
    <2> PICK y : y = ToOpen(x)
      OBVIOUS
    <2>1. thr' = [thr EXCEPT ![t] = y]
      BY <1>5, <1>2 DEF TypeOK, ToOpen
    <2>2. /\ IsThread(y) /\ y.req = r /\ y.pc = "open" /\ y.got = x.got
          /\ y.rival = x.rival
      BY <1>1, OpenFields
    <2>3. ~Writer(r) /\ r \notin TenantWrites /\ r \notin UserWrites
          /\ ~Removes(r)
      BY <1>3, Kinds DEF Writer, Removes
    <2>4. ~Refused(r, x.got) /\ ~GoesDown(r, x.got)
      BY <1>3, <2>3 DEF Refused, GoesDown
    <2>5. "open" \in Pcs(r)
      BY <1>3, Kinds DEF Pcs, Ending
    <2>6. Formed(y)
      BY <1>1, <2>4, <2>5, OpenForm
    <2>7. dir' # "none" /\ dir' \in {"none", "tenant", "host"}
      BY <1>5, <1>2 DEF TypeOK
    <2>8. ThreadOK(y, disk', tmp', dir')
      BY <2>2, <2>3, <2>6, <2>7
         DEF ThreadOK, Trusts, Sees, Owns, InDir, Took
    <2>9. Group(r) = "tenant"
      BY <1>3, AimsLife, Kinds DEF Requests
    <2> QED
      BY <2>1, <2>2, <2>7, <2>8, <2>9, <1>2, <1>3, FilesKeep DEF TypeOK
  <1> QED
    BY <1>4, <1>5 DEF Mkdir

(* A thread that goes on with its file trusts in what it did before. *)
LEMMA MovesOn ==
    ASSUME NEW x, NEW dk, NEW tp, NEW dr, NEW y, NEW dk2, NEW tp2,
           ThreadOK(x, dk, tp, dr), x.pc \in {"open", "dump", "rename"},
           y.req = x.req /\ y.got = x.got /\ y.new = x.new,
           y.rival = x.rival,
           y.pc \in {"dump", "rename", "unlink", "answer"},
           ~x.rival =>
              /\ Owns(y, tp2)
              /\ y.pc \in {"dump", "rename"} => \A g \in Kept : dk2[g] = dk[g]
              /\ Removes(x.req) => dk2["host"] = dk["host"]
    PROVE  ThreadOK(y, dk2, tp2, dr)
  <1>1. Formed(x) /\ (~x.rival => Trusts(x, dk, tp, dr))
    BY DEF ThreadOK
  <1>2. y.pc \in Pcs(y.req)
    BY <1>1, Kinds DEF Formed, Pcs, Ending
  <1>3. Formed(y)
    BY <1>1, <1>2 DEF Formed, Todo
  <1>4. ASSUME ~x.rival PROVE Trusts(y, dk2, tp2, dr)
    <2>1. Trusts(x, dk, tp, dr)
      BY <1>1, <1>4
    <2>2. Sees(y, dk2)
      <3> SUFFICES ASSUME Writer(x.req), y.pc \in {"dump", "rename"},
                          NEW f \in Wants(x.req)
                   PROVE  x.got[f] = Held(f, dk2[f])
        BY DEF Sees
      <3>1. f \in Kept
        BY Wanted
      <3> QED
        BY <3>1, <2>1, <1>4 DEF Trusts, Sees
    <2>3. InDir(y, dr)
      BY <2>1 DEF Trusts, InDir
    <2>4. Took(y, dk2, tp2)
      BY <2>1, <1>4 DEF Trusts, Took
    <2> QED
      BY <2>2, <2>3, <2>4, <1>4 DEF Trusts
  <1> QED
    BY <1>3, <1>4 DEF ThreadOK

\* A thread elsewhere with its file.
With(x, pc, fd) == [x EXCEPT !.pc = pc, !.fd = fd]

(* The state of a thread that goes on with its file. *)
LEMMA WithFields ==
    ASSUME NEW x, NEW pc, NEW fd, NEW y, IsThread(x), y = With(x, pc, fd)
    PROVE  /\ IsThread(y) /\ y.req = x.req /\ y.pc = pc /\ y.fd = fd
           /\ y.todo = x.todo /\ y.got = x.got /\ y.new = x.new
           /\ y.left = x.left /\ y.rival = x.rival
  <1>1. y = [req |-> x.req, pc |-> pc, todo |-> x.todo,
             seen |-> x.seen, got |-> x.got, new |-> x.new, fd |-> fd,
             left |-> x.left, rival |-> x.rival]
    BY DEF IsThread, With
  <1>2. /\ y.req = x.req /\ y.pc = pc /\ y.fd = fd /\ y.seen = x.seen
        /\ y.todo = x.todo /\ y.got = x.got /\ y.new = x.new
        /\ y.left = x.left /\ y.rival = x.rival
    BY <1>1
  <1> QED
    BY <1>1, <1>2 DEF IsThread

(* In a directory that is not there nothing is written. *)
LEMMA OpenKeeps ==
    ASSUME Inv, NEW t \in All, Open(t)
    PROVE  Inv'
  <1> DEFINE x == thr[t]
             f == Target(x.req)
  <1>1. /\ IsThread(x) /\ ThreadOK(x, disk, tmp, dir) /\ Formed(x)
        /\ x.pc = "open" /\ x.pc \in Ending
    BY InvReq DEF Open, Ending
  <1>2. /\ f \in Files
        /\ f \in Kept => /\ t # Collector
                         /\ Group(x.req) = GroupOf(f)
    BY <1>1, Writing, TargetGroup DEF Kept
  <1>3. TypeOK /\ UNCHANGED <<world, dir, disk, crashes>>
    BY DEF Inv, Open
  <1>4. CASE thr' = [thr EXCEPT ![t] = Idle] /\ UNCHANGED tmp
    BY <1>3, <1>4, IdleOK, ThreadKeeps
  <1>5. CASE /\ tmp' = [tmp EXCEPT ![f] = Torn]
             /\ thr' = [thr EXCEPT ![t].pc = "dump", ![t].fd = "tmp"]
    <2> PICK y : y = With(x, "dump", "tmp")
      OBVIOUS
    <2>1. thr' = [thr EXCEPT ![t] = y]
      BY <1>5, <1>3 DEF TypeOK, With
    <2>2. /\ IsThread(y) /\ y.req = x.req /\ y.pc = "dump" /\ y.fd = "tmp"
          /\ y.got = x.got /\ y.new = x.new /\ y.rival = x.rival
      BY <1>1, WithFields
    <2>3. tmp' = [g \in Files |-> IF g = f THEN Torn ELSE tmp[g]]
      BY <1>5, <1>3, <1>2 DEF TypeOK
    <2>4. Owns(y, tmp')
      BY <2>2, <2>3, <1>2 DEF Owns
    <2>5. ThreadOK(y, disk, tmp', dir)
      BY <1>1, <2>2, <2>4, MovesOn
    <2>6. ThreadOK(y, disk', tmp', dir')
      BY <2>5, <1>3
    <2>7. /\ tmp' = [g \in Files |-> tmp'[g]]
          /\ \A g \in Kept : /\ tmp'[g] \in DocsOf(g) \union {Absent, Torn}
                             /\ g # f => tmp'[g] = tmp[g]
      BY <2>3, <1>3 DEF TypeOK, Kept, Files
    <2>8. \A g \in Kept : t = Collector \/ Group(x.req) # GroupOf(g) =>
                             tmp'[g] = tmp[g]
      BY <2>7, <1>2
    <2> QED
      BY <2>1, <2>2, <2>6, <2>7, <2>8, <1>3, FilesKeep DEF TypeOK
  <1> QED
    BY <1>4, <1>5 DEF Open, OpenTmp

(* The new document is whole unless somebody else writes that file. *)
LEMMA DumpKeeps ==
    ASSUME Inv, NEW t \in All, Dump(t)
    PROVE  Inv'
  <1> DEFINE x == thr[t]
             f == Target(x.req)
  <1>1. /\ IsThread(x) /\ ThreadOK(x, disk, tmp, dir) /\ Formed(x)
        /\ ~x.rival => Trusts(x, disk, tmp, dir)
        /\ x.pc = "dump" /\ x.pc \in Ending
    BY InvReq DEF Dump, Ending
  <1>2. /\ f \in Files
        /\ f \in Kept => /\ t # Collector /\ x.req \in Requests
                         /\ Group(x.req) = GroupOf(f)
        /\ Binds(x.req) <=> f \in Kept
    BY <1>1, Writing, TargetGroup DEF Kept
  <1>3. TypeOK /\ UNCHANGED <<world, dir, crashes>>
    BY DEF Inv, Dump
  <1> PICK y : y = With(x, "rename", x.fd)
    OBVIOUS
  <1>4. thr' = [thr EXCEPT ![t] = y]
    <2>1. [x EXCEPT !.pc = "rename"] = With(x, "rename", x.fd)
      BY <1>1 DEF With, IsThread
    <2> QED
      BY <2>1, <1>3 DEF Dump, TypeOK
  <1>5. /\ IsThread(y) /\ y.req = x.req /\ y.pc = "rename" /\ y.fd = x.fd
        /\ y.got = x.got /\ y.new = x.new /\ y.rival = x.rival
    BY <1>1, WithFields
  <1>6. Over(t, tmp[f]) \union Over(t, disk[f]) \subseteq {x.new, Torn}
    BY DEF Over
  <1>7. PICK doc \in {x.new, Torn} :
           \/ /\ disk' = disk
              /\ tmp' = [g \in Files |-> IF g = f THEN doc ELSE tmp[g]]
           \/ /\ tmp' = tmp
              /\ disk' = [g \in Files |-> IF g = f THEN doc ELSE disk[g]]
           \/ tmp' = tmp /\ disk' = disk
    BY <1>2, <1>3, <1>6 DEF Dump, TypeOK
  <1>8. f \in Kept => x.new \in DocsOf(f)
    BY <1>1, <1>2, NewTyped
  <1>9. /\ disk' = [g \in Files |-> disk'[g]]
        /\ tmp' = [g \in Files |-> tmp'[g]]
        /\ \A g \in Kept : g # f => disk'[g] = disk[g] /\ tmp'[g] = tmp[g]
        /\ \A g \in Kept : /\ disk'[g] \in DocsOf(g) \union {Absent, Torn}
                           /\ tmp'[g] \in DocsOf(g) \union {Absent, Torn}
    BY <1>3, <1>7, <1>8 DEF TypeOK, Kept, Files
  <1>10. \A g \in Kept : t = Collector \/ Group(x.req) # GroupOf(g) =>
                             disk'[g] = disk[g] /\ tmp'[g] = tmp[g]
    BY <1>2, <1>9
  <1>11. ASSUME ~x.rival
         PROVE  /\ Owns(y, tmp')
                /\ \A g \in Kept : disk'[g] = disk[g]
    <2>1. CASE Binds(x.req)
      <3>1. x.fd = "tmp" /\ tmp[f] = Torn
        BY <1>1, <1>11, <2>1 DEF Trusts, Owns
      <3>2. Sharing(t) = {}
        BY <1>11, <2>1, NobodyElse, <1>3 DEF Sharing, TypeOK
      <3>3. tmp' = [tmp EXCEPT ![f] = x.new] /\ disk' = disk
        BY <3>1, <3>2 DEF Dump, Over
      <3>4. tmp'[f] = x.new
        BY <3>3, <1>2, <1>3 DEF TypeOK
      <3> QED
        BY <3>1, <3>3, <3>4, <1>5 DEF Owns
    <2>2. CASE ~Binds(x.req)
      BY <2>2, <1>2, <1>5, <1>9 DEF Owns
    <2> QED
      BY <2>1, <2>2
  <1>12. ThreadOK(y, disk', tmp', dir)
    <2>1. ~x.rival /\ Removes(x.req) => disk'["host"] = disk["host"]
      BY <1>11 DEF Kept
    <2> QED
      BY <1>1, <1>5, <1>11, <2>1, MovesOn
  <1>13. ThreadOK(y, disk', tmp', dir')
    BY <1>12, <1>3
  <1> QED
    BY <1>3, <1>4, <1>5, <1>9, <1>10, <1>13, FilesKeep DEF TypeOK

\* The threads when a file moved, or when one of the two went.
Follow(t, f) == Elsewhere(t, f, Moved)
LoseTmp(t, f) == Elsewhere(t, f, NoTmp)
LoseFile(t, f) == Elsewhere(t, f, NoFile)

(* What becomes of the threads then. *)
LEMMA OthersAre ==
    ASSUME TypeOK, NEW t \in All, NEW f,
           NEW E, E \in {Follow(t, f), LoseTmp(t, f), LoseFile(t, f)}
    PROVE  /\ E = [u \in All |-> E[u]] /\ E[t] = thr[t]
           /\ \A u \in All : u # t =>
                 \/ E[u] = thr[u]
                 \/ /\ Target(thr[u].req) = f
                    /\ ElseSame(thr[u], E[u])
  <1>1. DOMAIN thr = All
    BY DEF TypeOK
  <1>2. CASE E = Follow(t, f)
    BY <1>1, <1>2 DEF Follow, Elsewhere, ElseSame
  <1>3. CASE E = LoseTmp(t, f)
    BY <1>1, <1>3 DEF LoseTmp, Elsewhere, ElseSame
  <1>4. CASE E = LoseFile(t, f)
    BY <1>1, <1>4 DEF LoseFile, Elsewhere, ElseSame
  <1> QED
    BY <1>2, <1>3, <1>4

(* The rename. *)
LEMMA RenameKeeps ==
    ASSUME Inv, NEW t \in All, Rename(t)
    PROVE  Inv'
  <1> DEFINE x == thr[t]
             f == Target(x.req)
  <1>1. /\ IsThread(x) /\ ThreadOK(x, disk, tmp, dir) /\ Formed(x)
        /\ ~x.rival => Trusts(x, disk, tmp, dir)
        /\ x.pc = "rename" /\ x.pc \in Ending
    BY InvReq DEF Rename, Ending
  <1>2. /\ f \in Files
        /\ f \in Kept => /\ t \in Threads /\ t # Collector
                         /\ x.req \in Requests
                         /\ Group(x.req) = GroupOf(f)
        /\ Binds(x.req) <=> f \in Kept
        /\ f \notin Kept => f = "overview"
    BY <1>1, Writing, TargetGroup DEF Kept
  <1>3. TypeOK /\ UNCHANGED <<world, dir, crashes>>
    BY DEF Inv, Rename
  <1>4. CASE tmp[f] = Absent
    <2> PICK y : y = With(x, "unlink", "none")
      OBVIOUS
    <2>1. thr' = [thr EXCEPT ![t] = y] /\ UNCHANGED <<disk, tmp>>
      BY <1>4, <1>3 DEF Rename, RenameTmp, TypeOK, With
    <2>2. /\ IsThread(y) /\ y.req = x.req /\ y.pc = "unlink"
          /\ y.got = x.got /\ y.new = x.new /\ y.rival = x.rival
      BY <1>1, WithFields
    <2>3. ~x.rival => ~Binds(x.req)
      <3> SUFFICES ASSUME ~x.rival, Binds(x.req) PROVE FALSE
        OBVIOUS
      <3>1. tmp[f] = x.new /\ x.new \in DocsOf(f) /\ f \in Kept
        BY <1>1, <1>2, NewTyped DEF Trusts, Owns
      <3> QED
        BY <3>1, <1>4, Docs
    <2>4. ~x.rival => Owns(y, tmp)
      BY <2>2, <2>3 DEF Owns
    <2>5. ThreadOK(y, disk, tmp, dir)
      BY <1>1, <2>2, <2>4, MovesOn
    <2> QED
      BY <2>1, <2>2, <2>5, <1>3, ThreadKeeps
  <1>5. CASE tmp[f] # Absent
    <2> PICK y : y = With(x, "answer", "none")
      OBVIOUS
    <2> PICK E : E = Follow(t, f)
      OBVIOUS
    <2>0. E \in {Follow(t, f), LoseTmp(t, f), LoseFile(t, f)}
      OBVIOUS
    <2>1. /\ E = [u \in All |-> E[u]] /\ E[t] = thr[t]
          /\ \A u \in All : u # t =>
                 \/ E[u] = thr[u]
                 \/ /\ Target(thr[u].req) = f
                    /\ ElseSame(thr[u], E[u])
      BY <1>3, <2>0, OthersAre, Zenon
    <2>2. /\ disk' = [disk EXCEPT ![f] = tmp[f]]
          /\ tmp' = [tmp EXCEPT ![f] = Absent]
          /\ thr' = [E EXCEPT ![t].pc = "answer", ![t].fd = "none"]
      BY <1>5, Zenon DEF Rename, RenameTmp, Follow
    <2>3. thr' = [E EXCEPT ![t] = y]
      BY <2>1, <2>2 DEF With
    <2>4. /\ thr' = [u \in All |-> thr'[u]] /\ thr'[t] = y
          /\ \A u \in All : u # t =>
                 \/ thr'[u] = thr[u]
                 \/ /\ Target(thr[u].req) = f
                    /\ ElseSame(thr[u], thr'[u])
      BY <2>1, <2>3
    <2>5. /\ IsThread(y) /\ y.req = x.req /\ y.pc = "answer"
          /\ y.got = x.got /\ y.new = x.new /\ y.rival = x.rival
      BY <1>1, WithFields
    <2>6. /\ disk' = [g \in Files |-> IF g = f THEN tmp[f] ELSE disk[g]]
          /\ tmp' = [g \in Files |-> IF g = f THEN Absent ELSE tmp[g]]
      BY <2>2, <1>2, <1>3 DEF TypeOK
    <2>7. /\ disk' = [g \in Files |-> disk'[g]]
          /\ tmp' = [g \in Files |-> tmp'[g]]
          /\ \A g \in Kept : g # f => disk'[g] = disk[g] /\ tmp'[g] = tmp[g]
          /\ \A g \in Kept : /\ disk'[g] \in DocsOf(g) \union {Absent, Torn}
                             /\ tmp'[g] \in DocsOf(g) \union {Absent, Torn}
      BY <2>6, <1>3 DEF TypeOK, Kept, Files
    <2>8. \A g \in Kept : t = Collector \/ Group(x.req) # GroupOf(g) =>
                             disk'[g] = disk[g] /\ tmp'[g] = tmp[g]
      BY <1>2, <2>7
    <2>9. Removes(x.req) => disk'["host"] = disk["host"]
      <3> SUFFICES ASSUME Removes(x.req) PROVE f = "overview"
        BY <2>6 DEF Files
      <3>1. ~Binds(x.req)
        BY InvReq, RemovalAims
      <3> QED
        BY <3>1, <1>2
    <2>10. ThreadOK(y, disk', tmp', dir)
      <3>1. Owns(y, tmp')
        BY <2>5 DEF Owns
      <3> QED
        BY <1>1, <2>5, <2>9, <3>1, MovesOn
    <2>11. ThreadOK(y, disk', tmp', dir')
      BY <2>10, <1>3
    <2> QED
      BY <2>4, <2>5, <2>7, <2>8, <2>11, <1>2, <1>3, StepKeeps DEF TypeOK
  <1> QED
    BY <1>4, <1>5

(* The removal of the file that was not renamed. *)
LEMMA UnlinkKeeps ==
    ASSUME Inv, NEW t \in All, Unlink(t)
    PROVE  Inv'
  <1> DEFINE x == thr[t]
             f == Target(x.req)
  <1>1. x.pc \in Ending
    BY DEF Unlink, Ending
  <1>2. /\ f \in Files
        /\ f \in Kept => /\ t \in Threads /\ t # Collector
                         /\ Group(x.req) = GroupOf(f)
    BY <1>1, Writing, TargetGroup DEF Kept
  <1>3. TypeOK /\ UNCHANGED <<world, dir, disk, crashes>>
    BY DEF Inv, Unlink
  <1> PICK E : E = LoseTmp(t, f)
    OBVIOUS
  <1>0. E \in {Follow(t, f), LoseTmp(t, f), LoseFile(t, f)}
    OBVIOUS
  <1>4. /\ E = [u \in All |-> E[u]] /\ E[t] = thr[t]
        /\ \A u \in All : u # t =>
               \/ E[u] = thr[u]
               \/ /\ Target(thr[u].req) = f
                  /\ ElseSame(thr[u], E[u])
    BY <1>3, <1>0, OthersAre, Zenon
  <1>5. /\ tmp' = [tmp EXCEPT ![f] = Absent]
        /\ thr' = [E EXCEPT ![t] = Idle]
    BY Zenon DEF Unlink, LoseTmp
  <1>6. /\ thr' = [u \in All |-> thr'[u]] /\ thr'[t] = Idle
        /\ \A u \in All : u # t =>
               \/ thr'[u] = thr[u]
               \/ /\ Target(thr[u].req) = f
                  /\ ElseSame(thr[u], thr'[u])
    BY <1>4, <1>5
  <1>7. tmp' = [g \in Files |-> IF g = f THEN Absent ELSE tmp[g]]
    BY <1>5, <1>3 DEF TypeOK
  <1>8. /\ tmp' = [g \in Files |-> tmp'[g]]
        /\ \A g \in Kept : g # f => tmp'[g] = tmp[g]
        /\ \A g \in Kept : tmp'[g] \in DocsOf(g) \union {Absent, Torn}
    BY <1>7, <1>3 DEF TypeOK, Kept, Files
  <1>9. \A g \in Kept : t = Collector \/ Group(x.req) # GroupOf(g) =>
                           tmp'[g] = tmp[g]
    BY <1>2, <1>8
  <1>10. IsThread(Idle) /\ ThreadOK(Idle, disk', tmp', dir')
    BY IdleOK
  <1> QED
    BY <1>2, <1>3, <1>6, <1>8, <1>9, <1>10, StepKeeps DEF TypeOK

(* A thread that removes something. *)
LEMMA Removing ==
    ASSUME Inv, NEW t \in All, thr[t].pc \in {"remove", "removing"}
    PROVE  /\ Removes(thr[t].req) /\ t \in Threads /\ t # Collector
           /\ thr[t].req \in Requests /\ ~Binds(thr[t].req)
           /\ ~Writer(thr[t].req) /\ Group(thr[t].req) = "tenant"
           /\ Target(thr[t].req) \in {"none", "overview"}
           /\ "host" \in Scope(thr[t].req)
           /\ Scope(thr[t].req) \subseteq Files \ {"users"}
  <1>1. Removes(thr[t].req)
    BY InvReq, Kinds DEF Pcs, Ending, Removes
  <1> QED
    BY <1>1, InvReq, RemovalAims, StoreConstants

\* A thread elsewhere in its removal.
Leaves(x, pc, left) == [x EXCEPT !.pc = pc, !.left = left]

(* The state of a thread that has removed something. *)
LEMMA LeavesFields ==
    ASSUME NEW x, NEW pc, NEW left, NEW y, IsThread(x),
           y = Leaves(x, pc, left)
    PROVE  /\ IsThread(y) /\ y.req = x.req /\ y.pc = pc /\ y.fd = x.fd
           /\ y.todo = x.todo /\ y.got = x.got /\ y.new = x.new
           /\ y.left = left /\ y.rival = x.rival
  <1>1. y = [req |-> x.req, pc |-> pc, todo |-> x.todo,
             seen |-> x.seen, got |-> x.got, new |-> x.new, fd |-> x.fd,
             left |-> left, rival |-> x.rival]
    BY DEF IsThread, Leaves
  <1>2. /\ y.req = x.req /\ y.pc = pc /\ y.fd = x.fd /\ y.seen = x.seen
        /\ y.todo = x.todo /\ y.got = x.got /\ y.new = x.new
        /\ y.left = left /\ y.rival = x.rival
    BY <1>1
  <1> QED
    BY <1>1, <1>2 DEF IsThread

(* It trusts in nothing but what it has taken. *)
LEMMA RemovalOK ==
    ASSUME NEW x, NEW y, NEW dk, NEW tp, NEW dr,
           Formed(x), x.pc \in {"remove", "removing"},
           ~Binds(x.req), ~Writer(x.req),
           y.req = x.req /\ y.todo = x.todo /\ y.got = x.got,
           y.rival = x.rival,
           y.pc = "removing"
              \/ (y.pc = "stat" /\ x.req.op = "remove_host"),
           ~x.rival => Took(y, dk, tp)
    PROVE  ThreadOK(y, dk, tp, dr)
  <1>1. y.pc \in Pcs(y.req)
    BY Kinds DEF Formed, Pcs, Ending
  <1>2. Formed(y)
    BY <1>1 DEF Formed, Todo
  <1> QED
    BY <1>2 DEF ThreadOK, Trusts, Sees, Owns, InDir

(* Its start. *)
LEMMA StartRemovalKeeps ==
    ASSUME Inv, NEW t \in All, StartRemoval(t)
    PROVE  Inv'
  <1> DEFINE x == thr[t]
  <1>1. /\ IsThread(x) /\ Formed(x) /\ x.pc \in {"remove", "removing"}
        /\ TypeOK /\ UNCHANGED <<world, dir, disk, tmp, crashes>>
    BY InvReq DEF StartRemoval, Inv
  <1> PICK y : y = Leaves(x, "removing", Found(x.req))
    OBVIOUS
  <1>2. thr' = [thr EXCEPT ![t] = y]
    BY <1>1 DEF StartRemoval, Leaves, TypeOK
  <1>3. /\ IsThread(y) /\ y.req = x.req /\ y.pc = "removing"
        /\ y.todo = x.todo /\ y.got = x.got /\ y.rival = x.rival
        /\ y.left = Found(x.req)
    BY <1>1, LeavesFields
  <1>4. Took(y, disk, tmp)
    BY <1>3 DEF Took, Found
  <1>5. ThreadOK(y, disk, tmp, dir)
    BY <1>1, <1>3, <1>4, Removing, RemovalOK
  <1> QED
    BY <1>1, <1>2, <1>3, <1>5, ThreadKeeps


(* One file after the other goes, and none of them comes back. *)
LEMMA RemoveFileKeeps ==
    ASSUME Inv, NEW t \in All, RemoveFile(t)
    PROVE  Inv'
  <1> DEFINE x == thr[t]
  <1>1. /\ IsThread(x) /\ Formed(x) /\ x.pc = "removing"
        /\ ~x.rival => Trusts(x, disk, tmp, dir)
        /\ TypeOK /\ UNCHANGED <<world, dir, crashes>>
    BY InvReq DEF RemoveFile, Inv
  <1>2. /\ t \in Threads /\ t # Collector /\ Group(x.req) = "tenant"
        /\ ~Binds(x.req) /\ ~Writer(x.req) /\ Removes(x.req)
        /\ Scope(x.req) \subseteq Files \ {"users"}
    BY <1>1, Removing
  <1>3. PICK f \in Scope(x.req) :
           \/ /\ disk' = [disk EXCEPT ![f] = Absent] /\ tmp' = tmp
              /\ thr' = [LoseFile(t, f) EXCEPT
                           ![t].left = @ \ {<<"file", f>>}]
           \/ /\ tmp' = [tmp EXCEPT ![f] = Absent] /\ disk' = disk
              /\ thr' = [LoseTmp(t, f) EXCEPT
                           ![t].left = @ \ {<<"tmp", f>>}]
    BY Zenon DEF RemoveFile, LoseFile, LoseTmp
  <1>4. f \in Files /\ (f \in Kept => Group(x.req) = GroupOf(f))
    BY <1>2 DEF GroupOf
  <1>5. \A g \in Kept : t = Collector \/ Group(x.req) # GroupOf(g) => g # f
    BY <1>2, <1>4 DEF GroupOf
  <1>6. ASSUME NEW kind \in {"file", "tmp"}, NEW E,
               E = [u \in All |-> E[u]] /\ E[t] = thr[t],
               \A u \in All : u # t =>
                  \/ E[u] = thr[u]
                  \/ /\ Target(thr[u].req) = f
                     /\ ElseSame(thr[u], E[u]),
               thr' = [E EXCEPT ![t].left = @ \ {<<kind, f>>}],
               disk' = [g \in Files |-> IF g = f /\ kind = "file"
                                        THEN Absent ELSE disk[g]],
               tmp' = [g \in Files |-> IF g = f /\ kind = "tmp"
                                       THEN Absent ELSE tmp[g]]
        PROVE  Inv'
    <2> PICK y : y = Leaves(x, "removing", x.left \ {<<kind, f>>})
      OBVIOUS
    <2>1. /\ E = [u \in All |-> E[u]] /\ E[t] = thr[t]
          /\ \A u \in All : u # t =>
                 \/ E[u] = thr[u]
                 \/ /\ Target(thr[u].req) = f
                    /\ ElseSame(thr[u], E[u])
      BY <1>6
    <2>2. y = [x EXCEPT !.left = x.left \ {<<kind, f>>}]
      BY <1>1 DEF Leaves, IsThread
    <2>3. thr' = [E EXCEPT ![t] = y]
      BY <2>1, <2>2, <1>6
    <2>4. /\ thr' = [u \in All |-> thr'[u]] /\ thr'[t] = y
          /\ \A u \in All : u # t =>
                 \/ thr'[u] = thr[u]
                 \/ /\ Target(thr[u].req) = f
                    /\ ElseSame(thr[u], thr'[u])
      BY <2>1, <2>3
    <2>5. /\ IsThread(y) /\ y.req = x.req /\ y.pc = "removing"
          /\ y.todo = x.todo /\ y.got = x.got /\ y.rival = x.rival
          /\ y.left = x.left \ {<<kind, f>>}
      BY <1>1, LeavesFields
    <2>6. ~x.rival => Took(y, disk', tmp')
      <3> SUFFICES ASSUME ~x.rival, NEW g \in Scope(x.req) \intersect Kept
                   PROVE  /\ <<"file", g>> \in y.left \/ disk'[g] = Absent
                          /\ <<"tmp", g>> \in y.left \/ tmp'[g] = Absent
        BY <2>5 DEF Took
      <3>1. /\ <<"file", g>> \in x.left \/ disk[g] = Absent
            /\ <<"tmp", g>> \in x.left \/ tmp[g] = Absent
        BY <1>1, <1>2 DEF Trusts, Took
      <3>2. g \in Files
        BY <1>2
      <3>3. CASE kind = "file"
        BY <3>1, <3>2, <3>3, <2>5, <1>6
      <3>4. CASE kind = "tmp"
        BY <3>1, <3>2, <3>4, <2>5, <1>6
      <3> QED
        BY <3>3, <3>4
    <2>7. ThreadOK(y, disk', tmp', dir)
      BY <1>1, <1>2, <2>5, <2>6, RemovalOK
    <2>8. ThreadOK(y, disk', tmp', dir')
      BY <2>7, <1>1
    <2>9. /\ disk' = [g \in Files |-> disk'[g]]
          /\ tmp' = [g \in Files |-> tmp'[g]]
          /\ \A g \in Kept : /\ disk'[g] \in DocsOf(g) \union {Absent, Torn}
                             /\ tmp'[g] \in DocsOf(g) \union {Absent, Torn}
          /\ \A g \in Kept : g # f => disk'[g] = disk[g] /\ tmp'[g] = tmp[g]
      BY <1>6, <1>1 DEF TypeOK, Kept, Files
    <2>10. \A g \in Kept : t = Collector \/ Group(x.req) # GroupOf(g) =>
                              disk'[g] = disk[g] /\ tmp'[g] = tmp[g]
      BY <1>5, <2>9
    <2> QED
      BY <1>1, <1>2, <1>4, <2>4, <2>5, <2>8, <2>9, <2>10, StepKeeps
         DEF TypeOK
  <1>7. CASE /\ disk' = [disk EXCEPT ![f] = Absent] /\ tmp' = tmp
             /\ thr' = [LoseFile(t, f) EXCEPT
                          ![t].left = @ \ {<<"file", f>>}]
    <2> PICK E : E = LoseFile(t, f)
      OBVIOUS
    <2>0. /\ E = [u \in All |-> E[u]] /\ E[t] = thr[t]
          /\ \A u \in All : u # t =>
                 \/ E[u] = thr[u]
                 \/ /\ Target(thr[u].req) = f
                    /\ ElseSame(thr[u], E[u])
      BY <1>1, OthersAre
    <2>1. /\ disk' = [g \in Files |-> IF g = f /\ "file" = "file"
                                      THEN Absent ELSE disk[g]]
          /\ tmp' = [g \in Files |-> IF g = f /\ "file" = "tmp"
                                     THEN Absent ELSE tmp[g]]
      BY <1>1, <1>4, <1>7 DEF TypeOK
    <2> QED
      BY <2>0, <2>1, <1>7, <1>6
  <1>8. CASE /\ tmp' = [tmp EXCEPT ![f] = Absent] /\ disk' = disk
             /\ thr' = [LoseTmp(t, f) EXCEPT
                          ![t].left = @ \ {<<"tmp", f>>}]
    <2> PICK E : E = LoseTmp(t, f)
      OBVIOUS
    <2>0. /\ E = [u \in All |-> E[u]] /\ E[t] = thr[t]
          /\ \A u \in All : u # t =>
                 \/ E[u] = thr[u]
                 \/ /\ Target(thr[u].req) = f
                    /\ ElseSame(thr[u], E[u])
      BY <1>1, OthersAre
    <2>1. /\ disk' = [g \in Files |-> IF g = f /\ "tmp" = "file"
                                      THEN Absent ELSE disk[g]]
          /\ tmp' = [g \in Files |-> IF g = f /\ "tmp" = "tmp"
                                     THEN Absent ELSE tmp[g]]
      BY <1>1, <1>4, <1>8 DEF TypeOK
    <2> QED
      BY <2>0, <2>1, <1>8, <1>6
  <1> QED
    BY <1>3, <1>7, <1>8

(* The directory of the host goes, or the removal ends. *)
LEMMA RemoveHostDirKeeps ==
    ASSUME Inv, NEW t \in All, RemoveHostDir(t)
    PROVE  Inv'
  <1> DEFINE x == thr[t]
  <1>1. /\ IsThread(x) /\ Formed(x) /\ x.pc = "removing"
        /\ ~x.rival => Trusts(x, disk, tmp, dir)
        /\ TypeOK /\ UNCHANGED <<world, disk, tmp, crashes>>
    BY InvReq DEF RemoveHostDir, Inv
  <1>2. /\ t \in Threads /\ t # Collector /\ Group(x.req) = "tenant"
        /\ ~Binds(x.req) /\ ~Writer(x.req) /\ Removes(x.req)
    BY <1>1, Removing
  <1>3. CASE thr' = [thr EXCEPT ![t] = Idle] /\ UNCHANGED dir
    BY <1>1, <1>3, IdleOK, ThreadKeeps
  <1>4. CASE /\ dir' = IF dir = "host" THEN "tenant" ELSE dir
             /\ thr' = [thr EXCEPT ![t].left = @ \ {<<"dir", "host">>}]
    <2> PICK y : y = Leaves(x, "removing", x.left \ {<<"dir", "host">>})
      OBVIOUS
    <2>1. y = [x EXCEPT !.left = x.left \ {<<"dir", "host">>}]
      BY <1>1 DEF Leaves, IsThread
    <2>2. thr' = [thr EXCEPT ![t] = y]
      BY <2>1, <1>1, <1>4 DEF TypeOK
    <2>3. /\ IsThread(y) /\ y.req = x.req /\ y.pc = "removing"
          /\ y.todo = x.todo /\ y.got = x.got /\ y.rival = x.rival
          /\ y.left = x.left \ {<<"dir", "host">>}
      BY <1>1, LeavesFields
    <2>4. ~x.rival => Took(y, disk, tmp)
      <3>1. \A g : /\ <<"file", g>> # <<"dir", "host">>
                   /\ <<"tmp", g>> # <<"dir", "host">>
        OBVIOUS
      <3> QED
        BY <1>1, <2>3, <3>1 DEF Trusts, Took
    <2>5. ThreadOK(y, disk, tmp, dir')
      BY <1>1, <1>2, <2>3, <2>4, RemovalOK
    <2>6. ThreadOK(y, disk', tmp', dir')
      BY <2>5, <1>1
    <2>7. /\ dir' \in {"none", "tenant", "host"}
          /\ dir' = "none" <=> dir = "none"
      BY <1>4, <1>1 DEF TypeOK
    <2> QED
      BY <1>1, <2>2, <2>3, <2>6, <2>7, FilesKeep DEF TypeOK
  <1> QED
    BY <1>3, <1>4 DEF RemoveHostDir

(* A host is removed before its place in the overview is, and a tenant's   *)
(* directory is the last of it to go.                                      *)
LEMMA EndRemovalKeeps ==
    ASSUME Inv, NEW t \in All, EndRemoval(t)
    PROVE  Inv'
  <1> DEFINE x == thr[t]
  <1>1. /\ IsThread(x) /\ Formed(x) /\ x.pc = "removing" /\ x.left = {}
        /\ ~x.rival => Trusts(x, disk, tmp, dir)
        /\ TypeOK /\ UNCHANGED <<world, disk, tmp, crashes>>
    BY InvReq DEF EndRemoval, Inv
  <1>2. /\ t \in Threads /\ t # Collector /\ Group(x.req) = "tenant"
        /\ ~Binds(x.req) /\ ~Writer(x.req) /\ Removes(x.req)
        /\ "host" \in Scope(x.req)
    BY <1>1, Removing
  <1>3. CASE /\ thr' = [thr EXCEPT ![t] = Idle]
             /\ dir' \in {dir, "none"}
    <2>1. dir' \in {"none", "tenant", "host"}
      BY <1>1, <1>3 DEF TypeOK
    <2> QED
      BY <1>1, <1>2, <1>3, <2>1, IdleOK, FilesKeep DEF TypeOK
  <1>4. CASE /\ x.req.op = "remove_host" /\ dir' = dir
             /\ thr' = [thr EXCEPT ![t].pc = "stat"]
    <2> PICK y : y = Leaves(x, "stat", x.left)
      OBVIOUS
    <2>1. y = [x EXCEPT !.pc = "stat"]
      BY <1>1 DEF Leaves, IsThread
    <2>2. thr' = [thr EXCEPT ![t] = y]
      BY <2>1, <1>1, <1>4 DEF TypeOK
    <2>3. /\ IsThread(y) /\ y.req = x.req /\ y.pc = "stat"
          /\ y.todo = x.todo /\ y.got = x.got /\ y.rival = x.rival
      BY <1>1, LeavesFields
    <2>4. ~x.rival => Took(y, disk, tmp)
      BY <1>1, <1>2, <2>3 DEF Trusts, Took, Kept
    <2>5. ThreadOK(y, disk, tmp, dir)
      BY <1>1, <1>2, <1>4, <2>3, <2>4, RemovalOK
    <2> QED
      BY <1>1, <1>4, <2>2, <2>3, <2>5, ThreadKeeps
  <1> QED
    BY <1>3, <1>4 DEF EndRemoval

(* Every step keeps the invariant. *)
LEMMA NextKeeps ==
    ASSUME Inv, [Next]_vars
    PROVE  Inv'
  <1>1. ASSUME NEW t \in All, Step(t)
        PROVE  Inv'
    BY <1>1, StatKeeps, ReadKeeps, ActKeeps, MkdirKeeps, OpenKeeps,
       DumpKeeps, RenameKeeps, UnlinkKeeps, AnswerKeeps, StartRemovalKeeps,
       RemoveFileKeeps, RemoveHostDirKeeps, EndRemovalKeeps, Zenon DEF Step
  <1>2. CASE UNCHANGED vars
    BY <1>2
       DEF vars, Inv, TypeOK, InWorld, Alone, ThreadsOK
  <1>3. ASSUME NEW t \in Threads, NEW r \in world.ops, Begin(t, r)
        PROVE  Inv'
    BY <1>3, BeginKeeps
  <1> QED
    BY <1>1, <1>2, <1>3, HostReportsKeeps, OverviewKeeps, ForgetKeeps,
       CrashKeeps, Zenon DEF Next, All

(* The first state. *)
LEMMA InitInv ==
    ASSUME Init
    PROVE  Inv
  <1>1. /\ \A t \in All : thr[t] = Idle
        /\ thr = [t \in All |-> thr[t]]
    BY DEF Init, All
  <1>2. TypeOK
    <2>1. \A f \in Kept : /\ disk[f] \in DocsOf(f) \union {Absent, Torn}
                          /\ tmp[f] \in DocsOf(f) \union {Absent, Torn}
      <3>1. /\ disk["meta"] \in {NewTenant(1), Absent}
            /\ disk["host"] = Absent /\ disk["users"] = NoUsers
        BY DEF Init, Files
      <3>2. \A f \in Kept : tmp[f] = Absent
        BY DEF Init, Files, Kept
      <3> QED
        BY <3>1, <3>2, Docs, StoreConstants DEF Kept, DocsOf
    <2>2. /\ disk = [f \in Files |-> disk[f]]
          /\ tmp = [f \in Files |-> tmp[f]]
          /\ world \in Worlds /\ crashes \in Nat
          /\ dir \in {"none", "tenant", "host"}
      BY DEF Init
    <2> QED
      BY <1>1, <2>1, <2>2, IdleOK DEF TypeOK
  <1>3. InWorld
    BY <1>1, IdleOK DEF InWorld, All
  <1>4. Alone
    BY <1>1, IdleOK, AimsLists DEF Alone, All
  <1>5. ThreadsOK
    BY <1>1, IdleOK DEF ThreadsOK
  <1> QED
    BY <1>2, <1>3, <1>4, <1>5 DEF Inv

(* Whatever requests come and whenever the API ends, whoever has met no    *)
(* rival can rely on what it has read, written and removed.                *)
THEOREM StoreInvariant == Spec => []Inv
  <1>1. Init => Inv
    BY InitInv
  <1>2. Inv /\ [Next]_vars => Inv'
    BY NextKeeps
  <1> QED
    BY <1>1, <1>2, PTL DEF Spec

----------------------------------------------------------------------------
(* What a step does to the threads.                                        *)

(* A thread goes on with its request, with its file open as fd, or is done *)
(* with it.                                                                *)
Goes(t, fd) ==
    \E y : /\ thr' = [thr EXCEPT ![t] = y]
           /\ y.req = thr[t].req /\ y.rival = thr[t].rival /\ y.fd = fd
           /\ y.pc # "answer" /\ thr[t].pc # "answer"
Ends(t) == thr' = [thr EXCEPT ![t] = Idle]

(* What is left of the threads when one of them goes on. *)
LEMMA GoesOn ==
    ASSUME TypeOK, NEW t \in All, NEW fd, Goes(t, fd)
    PROVE  /\ \A u \in All : u # t => thr'[u] = thr[u]
           /\ thr'[t].req = thr[t].req /\ thr'[t].rival = thr[t].rival
           /\ thr'[t].fd = fd /\ thr'[t].pc # "answer"
           /\ thr[t].pc # "answer"
  BY DEF Goes, TypeOK

(* What is left of the threads when one of them ends. *)
LEMMA EndsSo ==
    ASSUME TypeOK, NEW t \in All, Ends(t)
    PROVE  thr'[t] = Idle /\ \A u \in All : u # t => thr'[u] = thr[u]
  BY DEF Ends, TypeOK

(* Readers. *)
LEMMA ReadersGo ==
    ASSUME Inv, NEW t \in All, Stat(t) \/ Read(t)
    PROVE  Goes(t, thr[t].fd)
  <1>1. IsThread(thr[t]) /\ TypeOK /\ thr[t].pc # "answer"
    BY InvReq DEF Inv, Stat, Read
  <1>2. ASSUME NEW doc, Have(t, Head(thr[t].todo), doc)
        PROVE  Goes(t, thr[t].fd)
    <2> PICK y : y = HaveOf(thr[t], doc)
      OBVIOUS
    <2>1. thr' = [thr EXCEPT ![t] = y]
      BY <1>1, <1>2 DEF Have, HaveOf, TypeOK
    <2>2. /\ y.req = thr[t].req /\ y.rival = thr[t].rival
          /\ y.fd = thr[t].fd
          /\ y.pc = IF Len(thr[t].todo) = 1 THEN "act" ELSE "stat"
      BY <1>1, HaveFields
    <2>3. y.pc # "answer"
      BY <2>2
    <2> QED
      BY <1>1, <2>1, <2>2, <2>3, Zenon DEF Goes
  <1>3. ASSUME thr' = [thr EXCEPT ![t].pc = "read",
                                  ![t].seen = disk[Head(thr[t].todo)]]
        PROVE  Goes(t, thr[t].fd)
    <2> PICK y : y = [thr[t] EXCEPT !.pc = "read",
                                    !.seen = disk[Head(thr[t].todo)]]
      OBVIOUS
    <2>1. thr' = [thr EXCEPT ![t] = y]
      BY <1>1, <1>3 DEF TypeOK
    <2>2. /\ y.req = thr[t].req /\ y.rival = thr[t].rival
          /\ y.fd = thr[t].fd /\ y.pc = "read"
      BY <1>1 DEF IsThread
    <2> QED
      BY <1>1, <2>1, <2>2 DEF Goes
  <1>4. CASE Stat(t)
    BY <1>2, <1>3, <1>4 DEF Stat
  <1>5. CASE Read(t)
    BY <1>2, <1>5, Zenon DEF Read
  <1> QED
    BY <1>4, <1>5

(* Those that change something or make a directory. *)
LEMMA ActorsGo ==
    ASSUME Inv, NEW t \in All, Act(t) \/ Mkdir(t)
    PROVE  \/ Act(t) /\ GoDown(t)
           \/ /\ Ends(t) /\ UNCHANGED tmp
              /\ Act(t) => \/ Refused(thr[t].req, thr[t].got)
                           \/ Target(thr[t].req) = "none"
              /\ Mkdir(t) => dir # "none"
           \/ Goes(t, thr[t].fd) /\ UNCHANGED tmp
  <1>1. IsThread(thr[t]) /\ TypeOK /\ thr[t].pc # "answer"
    BY InvReq DEF Inv, Act, Mkdir
  <1>2. ASSUME NEW new,
               thr' = [thr EXCEPT ![t].pc = "open", ![t].new = new]
        PROVE  Goes(t, thr[t].fd)
    <2> PICK y : y = [thr[t] EXCEPT !.pc = "open", !.new = new]
      OBVIOUS
    <2>1. thr' = [thr EXCEPT ![t] = y]
      BY <1>1, <1>2 DEF TypeOK
    <2>2. /\ y.req = thr[t].req /\ y.rival = thr[t].rival
          /\ y.fd = thr[t].fd /\ y.pc = "open"
      BY <1>1 DEF IsThread
    <2> QED
      BY <1>1, <2>1, <2>2 DEF Goes
  <1>3. CASE Act(t)
    BY <1>2, <1>3 DEF Act, Mkdir, Ends
  <1>4. CASE Mkdir(t)
    BY <1>2, <1>4 DEF Act, Mkdir, Ends
  <1> QED
    BY <1>3, <1>4

(* Those that write. *)
LEMMA WritersGo ==
    ASSUME Inv, NEW t \in All
    PROVE  /\ Open(t) => \/ /\ Ends(t) /\ UNCHANGED tmp
                            /\ ~Room(Target(thr[t].req))
                         \/ /\ Goes(t, "tmp")
                            /\ Room(Target(thr[t].req))
                            /\ tmp' = [tmp EXCEPT ![Target(thr[t].req)]
                                                    = Torn]
           /\ Dump(t) => Goes(t, thr[t].fd)
           /\ Rename(t) /\ tmp[Target(thr[t].req)] = Absent =>
                 Goes(t, "none") /\ UNCHANGED <<disk, tmp>>
           /\ Answer(t) => Ends(t)
  <1>1. IsThread(thr[t]) /\ TypeOK
    BY InvReq DEF Inv
  <1>2. ASSUME NEW pc, pc # "answer", NEW fd, thr[t].pc # "answer",
               thr' = [thr EXCEPT ![t].pc = pc, ![t].fd = fd]
        PROVE  Goes(t, fd)
    <2> PICK y : y = [thr[t] EXCEPT !.pc = pc, !.fd = fd]
      OBVIOUS
    <2>1. thr' = [thr EXCEPT ![t] = y]
      BY <1>1, <1>2 DEF TypeOK
    <2>2. /\ y.req = thr[t].req /\ y.rival = thr[t].rival
          /\ y.fd = fd /\ y.pc = pc
      BY <1>1 DEF IsThread
    <2> QED
      BY <1>2, <2>1, <2>2 DEF Goes
  <1>3. Open(t) => \/ /\ Ends(t) /\ UNCHANGED tmp
                      /\ ~Room(Target(thr[t].req))
                   \/ /\ Goes(t, "tmp")
                      /\ Room(Target(thr[t].req))
                      /\ tmp' = [tmp EXCEPT ![Target(thr[t].req)] = Torn]
    BY <1>2 DEF Open, OpenTmp, Ends
  <1>4. Dump(t) => Goes(t, thr[t].fd)
    <2> SUFFICES ASSUME Dump(t) PROVE Goes(t, thr[t].fd)
      OBVIOUS
    <2> PICK y : y = [thr[t] EXCEPT !.pc = "rename"]
      OBVIOUS
    <2>1. thr' = [thr EXCEPT ![t] = y] /\ thr[t].pc # "answer"
      BY <1>1 DEF TypeOK, Dump
    <2>2. /\ y.req = thr[t].req /\ y.rival = thr[t].rival
          /\ y.fd = thr[t].fd /\ y.pc = "rename"
      BY <1>1 DEF IsThread
    <2> QED
      BY <2>1, <2>2 DEF Goes
  <1>5. Rename(t) /\ tmp[Target(thr[t].req)] = Absent =>
           Goes(t, "none") /\ UNCHANGED <<disk, tmp>>
    BY <1>2 DEF Rename, RenameTmp
  <1>6. Answer(t) => Ends(t)
    BY DEF Answer, Ends
  <1> QED
    BY <1>3, <1>4, <1>5, <1>6

(* Those that remove. *)
LEMMA RemoversGo ==
    ASSUME Inv, NEW t \in All
    PROVE  /\ StartRemoval(t) => Goes(t, thr[t].fd)
           /\ RemoveHostDir(t) =>
              Goes(t, thr[t].fd) \/ (Ends(t) /\ There("host"))
           /\ EndRemoval(t) => Goes(t, thr[t].fd) \/ Ends(t)
  <1>1. /\ IsThread(thr[t]) /\ TypeOK
        /\ StartRemoval(t) \/ RemoveHostDir(t) \/ EndRemoval(t) =>
              thr[t].pc # "answer"
    BY InvReq DEF Inv, StartRemoval, RemoveHostDir, EndRemoval
  <1>2. ASSUME StartRemoval(t)
        PROVE  Goes(t, thr[t].fd)
    <2> PICK y : y = [thr[t] EXCEPT !.pc = "removing",
                                    !.left = Found(thr[t].req)]
      OBVIOUS
    <2>1. thr' = [thr EXCEPT ![t] = y]
      BY <1>1, <1>2 DEF TypeOK, StartRemoval
    <2>2. /\ y.req = thr[t].req /\ y.rival = thr[t].rival
          /\ y.fd = thr[t].fd /\ y.pc = "removing"
      BY <1>1 DEF IsThread
    <2> QED
      BY <1>1, <1>2, <2>1, <2>2 DEF Goes
  <1>3. ASSUME thr' = [thr EXCEPT ![t].left = @ \ {<<"dir", "host">>}],
               thr[t].pc # "answer"
        PROVE  Goes(t, thr[t].fd)
    <2> PICK y : y = [thr[t] EXCEPT !.left = @ \ {<<"dir", "host">>}]
      OBVIOUS
    <2>1. thr' = [thr EXCEPT ![t] = y]
      BY <1>1, <1>3 DEF TypeOK
    <2>2. y = [thr[t] EXCEPT !.left = thr[t].left \ {<<"dir", "host">>}]
      BY <1>1 DEF IsThread
    <2>3. /\ y.req = thr[t].req /\ y.rival = thr[t].rival
          /\ y.fd = thr[t].fd /\ y.pc = thr[t].pc
      BY <1>1, <2>2 DEF IsThread
    <2> QED
      BY <1>3, <2>1, <2>3 DEF Goes
  <1>4. ASSUME thr' = [thr EXCEPT ![t].pc = "stat"],
               thr[t].pc # "answer"
        PROVE  Goes(t, thr[t].fd)
    <2> PICK y : y = [thr[t] EXCEPT !.pc = "stat"]
      OBVIOUS
    <2>1. thr' = [thr EXCEPT ![t] = y]
      BY <1>1, <1>4 DEF TypeOK
    <2>2. /\ y.req = thr[t].req /\ y.rival = thr[t].rival
          /\ y.fd = thr[t].fd /\ y.pc = "stat"
      BY <1>1 DEF IsThread
    <2> QED
      BY <1>4, <2>1, <2>2 DEF Goes
  <1>5. RemoveHostDir(t) =>
              Goes(t, thr[t].fd) \/ (Ends(t) /\ There("host"))
    BY <1>1, <1>3 DEF RemoveHostDir, Ends
  <1>6. EndRemoval(t) => Goes(t, thr[t].fd) \/ Ends(t)
    BY <1>1, <1>4 DEF EndRemoval, Ends
  <1> QED
    BY <1>2, <1>5, <1>6

(* The others that write a file that moved or went. *)
Alike(x, y, fd) ==
    /\ y.req = x.req /\ y.rival = x.rival /\ y.pc = x.pc /\ y.fd = fd

(* Nothing else of the others changes. *)
LEMMA FollowFds ==
    ASSUME TypeOK, NEW t \in All, NEW f, NEW u \in All, u # t
    PROVE  /\ Alike(thr[u], Follow(t, f)[u],
                    IF Target(thr[u].req) = f THEN Moved(thr[u].fd)
                    ELSE thr[u].fd)
           /\ Alike(thr[u], LoseTmp(t, f)[u],
                    IF Target(thr[u].req) = f THEN NoTmp(thr[u].fd)
                    ELSE thr[u].fd)
           /\ Alike(thr[u], LoseFile(t, f)[u],
                    IF Target(thr[u].req) = f THEN NoFile(thr[u].fd)
                    ELSE thr[u].fd)
  <1>1. DOMAIN thr = All /\ IsThread(thr[u])
    BY DEF TypeOK
  <1>2. \A d : Alike(thr[u], [thr[u] EXCEPT !.fd = d], d)
    BY <1>1, FdOnly DEF Alike
  <1>3. Alike(thr[u], thr[u], thr[u].fd)
    BY DEF Alike
  <1>4. Follow(t, f)[u] = IF Target(thr[u].req) = f
                          THEN [thr[u] EXCEPT !.fd = Moved(thr[u].fd)]
                          ELSE thr[u]
    BY <1>1 DEF Follow, Elsewhere
  <1>5. LoseTmp(t, f)[u] = IF Target(thr[u].req) = f
                           THEN [thr[u] EXCEPT !.fd = NoTmp(thr[u].fd)]
                           ELSE thr[u]
    BY <1>1 DEF LoseTmp, Elsewhere
  <1>6. LoseFile(t, f)[u] = IF Target(thr[u].req) = f
                            THEN [thr[u] EXCEPT !.fd = NoFile(thr[u].fd)]
                            ELSE thr[u]
    BY <1>1 DEF LoseFile, Elsewhere
  <1> QED
    BY <1>2, <1>3, <1>4, <1>5, <1>6

----------------------------------------------------------------------------
(* No file is where its directory is not.                                  *)

HostFd(x, dk, tp) ==
    Target(x.req) = "host" =>
       /\ x.fd = "tmp" => tp["host"] # Absent
       /\ x.fd = "file" => dk["host"] # Absent

HostInv ==
    /\ dir # "host" => disk["host"] = Absent /\ tmp["host"] = Absent
    /\ \A u \in All : HostFd(thr[u], disk, tmp)

(* A step that has nothing to do with the host's files. *)
LEMMA HostSame ==
    ASSUME HostInv, disk'["host"] = disk["host"],
           tmp'["host"] = tmp["host"],
           \/ dir' \in {dir, "host"}
           \/ disk["host"] = Absent /\ tmp["host"] = Absent,
           \A u \in All :
              \/ /\ thr'[u].req = thr[u].req
                 /\ \/ thr'[u].fd = thr[u].fd
                    \/ Target(thr[u].req) # "host"
              \/ thr'[u].fd \notin {"tmp", "file"}
    PROVE  HostInv'
  <1>1. ASSUME NEW u \in All
        PROVE  HostFd(thr'[u], disk', tmp')
    <2>1. HostFd(thr[u], disk, tmp)
      BY DEF HostInv
    <2> QED
      BY <2>1 DEF HostFd
  <1>2. dir' # "host" => disk'["host"] = Absent /\ tmp'["host"] = Absent
    BY DEF HostInv
  <1> QED
    BY <1>1, <1>2 DEF HostInv

(* Such a step of one thread. *)
LEMMA HostThread ==
    ASSUME HostInv, TypeOK, NEW t \in All, UNCHANGED <<disk, tmp>>,
           \/ dir' \in {dir, "host"}
           \/ disk["host"] = Absent /\ tmp["host"] = Absent,
           Ends(t) \/ Goes(t, thr[t].fd) \/ Goes(t, "none")
    PROVE  HostInv'
  <1>1. CASE Ends(t)
    <2>1. thr'[t] = Idle /\ \A u \in All : u # t => thr'[u] = thr[u]
      BY <1>1, EndsSo
    <2> QED
      BY <2>1, IdleOK, HostSame
  <1>2. CASE Goes(t, thr[t].fd)
    BY <1>2, GoesOn, HostSame
  <1>3. CASE Goes(t, "none")
    BY <1>3, GoesOn, HostSame
  <1> QED
    BY <1>1, <1>2, <1>3

(* The end of the API. *)
LEMMA HostRestart ==
    ASSUME HostInv, Inv, UNCHANGED <<dir, disk>>, Restart,
           \/ tmp' = tmp
           \/ \E f : Room(f) /\ tmp' = [tmp EXCEPT ![f] = Torn]
    PROVE  HostInv'
  <1>1. /\ thr'[Collector] = thr[Collector] /\ Collector \in All
        /\ \A t \in Threads : thr'[t] = Idle
    BY StoreConstants DEF Inv, TypeOK, Restart, All
  <1>2. Target(thr[Collector].req) \in {"none", "overview"}
    BY AimsLists, AimsOverview DEF Inv, InWorld
  <1>3. \A u \in All : HostFd(thr'[u], disk', tmp')
    BY <1>1, <1>2, IdleOK DEF HostFd, All
  <1>4. dir # "host" => tmp'["host"] = tmp["host"]
    <2>1. \A f : dir # "host" /\ Room(f) => f # "host"
      BY DEF Room
    <2>2. ASSUME NEW f, Room(f), tmp' = [tmp EXCEPT ![f] = Torn],
                 dir # "host"
          PROVE  tmp'["host"] = tmp["host"]
      BY <2>1, <2>2 DEF Inv, TypeOK, Files
    <2> QED
      BY <2>2
  <1> QED
    BY <1>3, <1>4 DEF HostInv

(* What a handler writes for a host is a document. *)
LEMMA HostNew ==
    ASSUME Inv, NEW t \in All, Target(thr[t].req) = "host",
           thr[t].pc \in {"open", "dump", "rename"}
    PROVE  thr[t].new # Absent
  <1>1. Binds(thr[t].req) /\ thr[t].req \in Requests
    BY Writing DEF Ending
  <1>2. thr[t].new \in DocsOf("host")
    BY <1>1, InvReq, NewTyped
  <1> QED
    BY <1>2, Docs DEF Kept

(* Where a new file is opened there is its directory. *)
LEMMA HostOpen ==
    ASSUME HostInv, Inv, NEW t \in All, Open(t)
    PROVE  HostInv'
  <1>1. TypeOK /\ UNCHANGED <<dir, disk>>
    BY DEF Inv, Open
  <1>2. CASE Ends(t) /\ UNCHANGED tmp
    BY <1>1, <1>2, HostThread
  <1>3. CASE /\ Goes(t, "tmp") /\ Room(Target(thr[t].req))
             /\ tmp' = [tmp EXCEPT ![Target(thr[t].req)] = Torn]
    <2>1. /\ thr'[t].req = thr[t].req
          /\ \A u \in All : u # t => thr'[u] = thr[u]
      BY <1>1, <1>3, GoesOn
    <2>2. CASE Target(thr[t].req) = "host"
      <3>1. tmp'["host"] = Torn /\ dir = "host" /\ Torn # Absent
        BY <1>1, <1>3, <2>2, NoDocuments DEF TypeOK, Room, Files
      <3>2. ASSUME NEW u \in All
            PROVE  HostFd(thr'[u], disk', tmp')
        <4>1. thr'[t].fd = "tmp" /\ HostFd(thr[u], disk, tmp)
          BY <1>1, <1>3, GoesOn DEF HostInv
        <4> QED
          BY <4>1, <3>1, <2>1, <1>1 DEF HostFd
      <3> QED
        BY <3>1, <3>2, <1>1 DEF HostInv
    <2>3. CASE Target(thr[t].req) # "host"
      <3>1. tmp'["host"] = tmp["host"]
        BY <1>1, <1>3, <2>3 DEF TypeOK, Files
      <3> QED
        BY <3>1, <1>1, <2>1, <2>3, HostSame
    <2> QED
      BY <2>2, <2>3
  <1> QED
    BY <1>2, <1>3, WritersGo

(* A document is written where the file was moved to, or nowhere. *)
LEMMA HostDump ==
    ASSUME HostInv, Inv, NEW t \in All, Dump(t)
    PROVE  HostInv'
  <1> DEFINE f == Target(thr[t].req)
  <1>1. TypeOK /\ UNCHANGED dir /\ thr[t].pc = "dump" /\ "host" \in Files
    BY DEF Inv, Dump, Files
  <1>2. Goes(t, thr[t].fd)
    BY WritersGo
  <1>3. /\ thr'[t].req = thr[t].req /\ thr'[t].fd = thr[t].fd
        /\ \A u \in All : u # t => thr'[u] = thr[u]
    BY <1>1, <1>2, GoesOn
  <1>4. CASE f # "host"
    <2>1. tmp'["host"] = tmp["host"] /\ disk'["host"] = disk["host"]
      BY <1>1, <1>4 DEF Dump, TypeOK
    <2> QED
      BY <2>1, <1>1, <1>3, HostSame
  <1>5. CASE f = "host"
    <2>1. \A old : Absent \notin Over(t, old)
      BY <1>1, <1>5, HostNew, NoDocuments DEF Over
    <2>2. HostFd(thr[t], disk, tmp)
      BY DEF HostInv
    <2>3. \/ UNCHANGED <<disk, tmp>>
          \/ /\ thr[t].fd = "tmp" /\ tmp["host"] # Absent
             /\ disk' = disk /\ tmp'["host"] # Absent
          \/ /\ thr[t].fd = "file" /\ disk["host"] # Absent
             /\ tmp' = tmp /\ disk'["host"] # Absent
      BY <1>1, <1>5, <2>1, <2>2 DEF Dump, TypeOK, HostFd
    <2>4. ASSUME NEW u \in All
          PROVE  HostFd(thr'[u], disk', tmp')
      <3>1. HostFd(thr[u], disk, tmp)
        BY DEF HostInv
      <3> QED
        BY <3>1, <2>3, <1>3 DEF HostFd
    <2>5. dir' # "host" => disk'["host"] = Absent /\ tmp'["host"] = Absent
      BY <1>1, <2>3 DEF HostInv
    <2> QED
      BY <2>4, <2>5 DEF HostInv
  <1> QED
    BY <1>4, <1>5

(* A file is moved with those that have it open. *)
LEMMA HostRename ==
    ASSUME HostInv, Inv, NEW t \in All, Rename(t)
    PROVE  HostInv'
  <1> DEFINE f == Target(thr[t].req)
  <1>1. TypeOK /\ UNCHANGED dir /\ thr[t].pc = "rename" /\ f \in Files
    BY Writing DEF Inv, Rename, Ending
  <1>2. CASE tmp[f] = Absent
    BY <1>1, <1>2, WritersGo, HostThread
  <1>3. CASE tmp[f] # Absent
    <2>1. /\ disk' = [disk EXCEPT ![f] = tmp[f]]
          /\ tmp' = [tmp EXCEPT ![f] = Absent]
          /\ thr' = [Follow(t, f) EXCEPT ![t].pc = "answer",
                                         ![t].fd = "none"]
      BY <1>3, Zenon DEF Rename, RenameTmp, Follow
    <2> PICK E : E = Follow(t, f)
      OBVIOUS
    <2>2. /\ E = [u \in All |-> E[u]] /\ E[t] = thr[t]
      BY <1>1, OthersAre
    <2>3. ASSUME NEW u \in All, u # t
          PROVE  /\ thr'[u].req = thr[u].req
                 /\ thr'[u].fd = IF Target(thr[u].req) = f
                                 THEN Moved(thr[u].fd) ELSE thr[u].fd
      <3>1. Alike(thr[u], E[u], IF Target(thr[u].req) = f
                                THEN Moved(thr[u].fd) ELSE thr[u].fd)
        BY <1>1, <2>3, FollowFds
      <3>2. thr'[u] = E[u]
        BY <2>1, <2>2, <2>3
      <3> QED
        BY <3>1, <3>2 DEF Alike
    <2>4. thr'[t].req = thr[t].req /\ thr'[t].fd = "none"
      <3> PICK y : y = [thr[t] EXCEPT !.pc = "answer", !.fd = "none"]
        OBVIOUS
      <3>1. thr'[t] = y
        BY <2>1, <2>2
      <3>2. y.req = thr[t].req /\ y.fd = "none"
        BY InvReq DEF IsThread
      <3> QED
        BY <3>1, <3>2
    <2>5. CASE f # "host"
      <3>1. disk'["host"] = disk["host"] /\ tmp'["host"] = tmp["host"]
        BY <1>1, <2>1, <2>5 DEF TypeOK, Files
      <3>2. \A u \in All :
               \/ /\ thr'[u].req = thr[u].req
                  /\ \/ thr'[u].fd = thr[u].fd
                     \/ Target(thr[u].req) # "host"
               \/ thr'[u].fd \notin {"tmp", "file"}
        BY <2>3, <2>4, <2>5
      <3> QED
        BY <3>1, <3>2, <1>1, HostSame
    <2>6. CASE f = "host"
      <3>1. /\ disk'["host"] = tmp["host"] /\ disk'["host"] # Absent
            /\ dir = "host"
        BY <1>1, <1>3, <2>1, <2>6 DEF TypeOK, HostInv
      <3>2. ASSUME NEW u \in All
            PROVE  HostFd(thr'[u], disk', tmp')
        <4>1. CASE u = t
          BY <4>1, <2>4 DEF HostFd
        <4>2. CASE u # t
          <5>1. thr[u].fd # "tmp" => Moved(thr[u].fd) # "file"
            BY DEF Moved
          <5>2. Moved(thr[u].fd) # "tmp"
            BY DEF Moved
          <5> QED
            BY <4>2, <5>1, <5>2, <2>3, <2>6, <3>1 DEF HostFd
        <4> QED
          BY <4>1, <4>2
      <3> QED
        BY <3>1, <3>2, <1>1 DEF HostInv
    <2> QED
      BY <2>5, <2>6
  <1> QED
    BY <1>2, <1>3

(* Who has a file open that goes has nothing. *)
LEMMA HostGone ==
    ASSUME HostInv, Inv, NEW t \in All, NEW f \in Files, UNCHANGED dir,
           Target(thr[t].req) # "host" \/ thr'[t].fd = "none",
           thr'[t].req = thr[t].req \/ thr'[t].fd = "none",
           \/ /\ disk' = [disk EXCEPT ![f] = Absent] /\ tmp' = tmp
              /\ \A u \in All : u # t => thr'[u] = LoseFile(t, f)[u]
           \/ /\ tmp' = [tmp EXCEPT ![f] = Absent] /\ disk' = disk
              /\ \A u \in All : u # t => thr'[u] = LoseTmp(t, f)[u]
    PROVE  HostInv'
  <1>1. TypeOK /\ \A u \in All : HostFd(thr[u], disk, tmp)
    BY DEF Inv, HostInv
  <1>2. ASSUME NEW u \in All
        PROVE  HostFd(thr'[u], disk', tmp')
    <2>1. CASE u = t
      BY <2>1 DEF HostFd
    <2>2. CASE /\ u # t /\ thr'[u] = LoseFile(t, f)[u]
               /\ disk' = [disk EXCEPT ![f] = Absent] /\ tmp' = tmp
      <3>1. Alike(thr[u], thr'[u], IF Target(thr[u].req) = f
                                   THEN NoFile(thr[u].fd) ELSE thr[u].fd)
        BY <1>1, <2>2, FollowFds
      <3>2. NoFile(thr[u].fd) # "file"
        BY DEF NoFile
      <3>3. NoFile(thr[u].fd) = "tmp" => thr[u].fd = "tmp"
        BY DEF NoFile
      <3> QED
        BY <1>1, <2>2, <3>1, <3>2, <3>3 DEF HostFd, Alike, TypeOK, Files
    <2>3. CASE /\ u # t /\ thr'[u] = LoseTmp(t, f)[u]
               /\ tmp' = [tmp EXCEPT ![f] = Absent] /\ disk' = disk
      <3>1. Alike(thr[u], thr'[u], IF Target(thr[u].req) = f
                                   THEN NoTmp(thr[u].fd) ELSE thr[u].fd)
        BY <1>1, <2>3, FollowFds
      <3>2. NoTmp(thr[u].fd) # "tmp"
        BY DEF NoTmp
      <3>3. NoTmp(thr[u].fd) = "file" => thr[u].fd = "file"
        BY DEF NoTmp
      <3> QED
        BY <1>1, <2>3, <3>1, <3>2, <3>3 DEF HostFd, Alike, TypeOK, Files
    <2> QED
      BY <2>1, <2>2, <2>3
  <1>3. dir' # "host" => disk'["host"] = Absent /\ tmp'["host"] = Absent
    BY <1>1 DEF HostInv, TypeOK, Files
  <1> QED
    BY <1>2, <1>3 DEF HostInv

(* A file that is unlinked has gone for whoever has it open. *)
LEMMA HostUnlink ==
    ASSUME HostInv, Inv, NEW t \in All, Unlink(t)
    PROVE  HostInv'
  <1> DEFINE f == Target(thr[t].req)
  <1>1. TypeOK /\ UNCHANGED <<dir, disk>> /\ f \in Files
    BY Writing DEF Inv, Unlink, Ending
  <1> PICK E : E = LoseTmp(t, f)
    OBVIOUS
  <1>2. E = [u \in All |-> E[u]] /\ E[t] = thr[t]
    BY <1>1, OthersAre
  <1>3. /\ tmp' = [tmp EXCEPT ![f] = Absent]
        /\ thr' = [E EXCEPT ![t] = Idle]
    BY Zenon DEF Unlink, LoseTmp
  <1>4. thr'[t].fd = "none" /\ \A u \in All : u # t => thr'[u] = E[u]
    BY <1>2, <1>3, IdleOK
  <1> QED
    BY <1>1, <1>3, <1>4, HostGone

(* So has one that a removal takes. *)
LEMMA HostRemove ==
    ASSUME HostInv, Inv, NEW t \in All, RemoveFile(t)
    PROVE  HostInv'
  <1> DEFINE x == thr[t]
  <1>1. /\ TypeOK /\ UNCHANGED dir /\ IsThread(x)
        /\ Scope(x.req) \subseteq Files /\ Target(x.req) # "host"
    BY Removing, InvReq DEF Inv, RemoveFile
  <1>2. PICK f \in Scope(x.req) :
           \/ /\ disk' = [disk EXCEPT ![f] = Absent] /\ tmp' = tmp
              /\ thr' = [LoseFile(t, f) EXCEPT
                           ![t].left = @ \ {<<"file", f>>}]
           \/ /\ tmp' = [tmp EXCEPT ![f] = Absent] /\ disk' = disk
              /\ thr' = [LoseTmp(t, f) EXCEPT
                           ![t].left = @ \ {<<"tmp", f>>}]
    BY Zenon DEF RemoveFile, LoseFile, LoseTmp
  <1>3. ASSUME NEW E, E \in {Follow(t, f), LoseTmp(t, f), LoseFile(t, f)},
               NEW e, thr' = [E EXCEPT ![t].left = @ \ {e}]
        PROVE  /\ \A u \in All : u # t => thr'[u] = E[u]
               /\ thr'[t].req = thr[t].req
    <2>1. E = [u \in All |-> E[u]] /\ E[t] = thr[t]
      BY <1>1, <1>3, OthersAre
    <2>2. thr'[t] = [x EXCEPT !.left = x.left \ {e}]
      BY <2>1, <1>1, <1>3 DEF IsThread
    <2>3. thr'[t].req = x.req
      BY <2>2, <1>1 DEF IsThread
    <2> QED
      BY <2>1, <2>3, <1>3
  <1>4. CASE /\ disk' = [disk EXCEPT ![f] = Absent] /\ tmp' = tmp
             /\ thr' = [LoseFile(t, f) EXCEPT
                          ![t].left = @ \ {<<"file", f>>}]
    <2>1. /\ \A u \in All : u # t => thr'[u] = LoseFile(t, f)[u]
          /\ thr'[t].req = thr[t].req
      BY <1>3, <1>4
    <2> QED
      BY <2>1, <1>1, <1>4, HostGone
  <1>5. CASE /\ tmp' = [tmp EXCEPT ![f] = Absent] /\ disk' = disk
             /\ thr' = [LoseTmp(t, f) EXCEPT
                          ![t].left = @ \ {<<"tmp", f>>}]
    <2>1. /\ \A u \in All : u # t => thr'[u] = LoseTmp(t, f)[u]
          /\ thr'[t].req = thr[t].req
      BY <1>3, <1>5
    <2> QED
      BY <2>1, <1>1, <1>5, HostGone
  <1> QED
    BY <1>2, <1>4, <1>5

(* The host's directory goes when it is empty only, the tenant's when the  *)
(* host's has gone.                                                        *)
LEMMA HostRemoval ==
    ASSUME HostInv, Inv, NEW t \in All,
           StartRemoval(t) \/ RemoveHostDir(t) \/ EndRemoval(t)
    PROVE  HostInv'
  <1>1. /\ TypeOK /\ UNCHANGED <<disk, tmp>>
        /\ Ends(t) \/ Goes(t, thr[t].fd)
    BY RemoversGo DEF Inv, StartRemoval, RemoveHostDir, EndRemoval
  <1>2. \/ dir' \in {dir, "host"}
        \/ disk["host"] = Absent /\ tmp["host"] = Absent
    BY DEF StartRemoval, RemoveHostDir, EndRemoval, There, HostInv
  <1> QED
    BY <1>1, <1>2, HostThread

(* A request that starts has no file. *)
LEMMA HostBegin ==
    ASSUME HostInv, Inv, NEW t \in Threads, NEW r \in world.ops, Begin(t, r)
    PROVE  HostInv'
  <1> PICK y : y = Started(r, Rivals(t, r) # {})
    OBVIOUS
  <1>1. /\ TypeOK /\ UNCHANGED <<dir, disk, tmp>> /\ t \in All
        /\ r \in Requests
    BY WorldTyped DEF Inv, Begin, All
  <1>2. y.fd = "none"
    <2> DEFINE met == Rivals(t, r) # {}
    <2>1. met \in BOOLEAN /\ y = Started(r, met)
      OBVIOUS
    <2> HIDE DEF met
    <2> QED
      BY <2>1, <1>1, StartFields
  <1>3. \A u \in All :
           thr'[u] = IF u = t THEN y
                     ELSE IF u \in Rivals(t, r)
                     THEN [thr[u] EXCEPT !.rival = TRUE] ELSE thr[u]
    BY <1>1 DEF Begin, TypeOK
  <1>4. ASSUME NEW u \in All
        PROVE  \/ /\ thr'[u].req = thr[u].req /\ thr'[u].fd = thr[u].fd
               \/ thr'[u].fd = "none"
    BY <1>1, <1>2, <1>3 DEF TypeOK, IsThread
  <1> QED
    BY <1>1, <1>4, HostSame

(* Every step. *)
LEMMA HostNext ==
    ASSUME HostInv, Inv, [Next]_vars
    PROVE  HostInv'
  <1>1. TypeOK
    BY DEF Inv
  <1>2. ASSUME NEW t \in All, Stat(t) \/ Read(t)
        PROVE  HostInv'
    <2>1. UNCHANGED <<dir, disk, tmp>>
      BY <1>2 DEF Stat, Read
    <2> QED
      BY <1>1, <1>2, <2>1, ReadersGo, HostThread
  <1>3. ASSUME NEW t \in All, Act(t)
        PROVE  HostInv'
    <2>1. UNCHANGED <<dir, disk>>
      BY <1>3 DEF Act
    <2>2. GoDown(t) => HostInv'
      BY <2>1, HostRestart DEF GoDown
    <2> QED
      BY <1>1, <1>3, <2>1, <2>2, ActorsGo, HostThread
  <1>4. ASSUME NEW t \in All, Mkdir(t)
        PROVE  HostInv'
    <2>1. /\ UNCHANGED <<disk, tmp>>
          /\ \/ dir' = dir
             \/ disk["host"] = Absent /\ tmp["host"] = Absent
      <3>1. dir # "host" => disk["host"] = Absent /\ tmp["host"] = Absent
        BY DEF HostInv
      <3>2. dir' = dir \/ dir = "none"
        BY <1>4 DEF Mkdir
      <3>3. UNCHANGED <<disk, tmp>>
        BY <1>4 DEF Mkdir
      <3> QED
        BY <3>1, <3>2, <3>3
    <2>2. Ends(t) \/ Goes(t, thr[t].fd)
      <3>1. ~Act(t)
        BY <1>4 DEF Mkdir, Act
      <3> QED
        BY <1>4, <3>1, ActorsGo
    <2> QED
      BY <1>1, <2>1, <2>2, HostThread
  <1>5. ASSUME NEW t \in All, Answer(t)
        PROVE  HostInv'
    <2>1. UNCHANGED <<dir, disk, tmp>>
      BY <1>5 DEF Answer
    <2> QED
      BY <1>1, <1>5, <2>1, WritersGo, HostThread
  <1>6. ASSUME NEW t \in All, Step(t)
        PROVE  HostInv'
    BY <1>2, <1>3, <1>4, <1>5, <1>6, HostOpen, HostDump, HostRename,
       HostUnlink, HostRemove, HostRemoval, Zenon DEF Step
  <1>7. CASE OverviewRound
    <2> PICK y : y = [Idle EXCEPT !.req = Overview(memory), !.pc = "open",
                                  !.new = memory]
      OBVIOUS
    <2>1. /\ thr' = [thr EXCEPT ![Collector] = y] /\ Collector \in All
          /\ UNCHANGED <<dir, disk, tmp>>
      BY <1>7 DEF OverviewRound, All
    <2>2. y.fd = "none"
      BY DEF Idle
    <2>3. \A u \in All : thr'[u] = thr[u] \/ thr'[u].fd = "none"
      BY <1>1, <2>1, <2>2, ThrUpdate
    <2> QED
      BY <2>1, <2>3, HostSame
  <1>8. CASE HostReports \/ Forget \/ UNCHANGED vars
    <2>1. UNCHANGED <<disk, tmp, thr>> /\ dir' \in {dir, "host"}
      BY <1>8 DEF HostReports, Forget, vars
    <2> QED
      BY <2>1, HostSame
  <1>9. CASE Crash
    BY <1>9, HostRestart DEF Crash
  <1> QED
    BY <1>6, <1>7, <1>8, <1>9, HostBegin, Zenon DEF Next, All

(* At first there are no host's files. *)
LEMMA HostInit ==
    ASSUME Init
    PROVE  HostInv
  <1>1. disk["host"] = Absent /\ tmp["host"] = Absent
    BY DEF Init, Files
  <1>2. \A t \in All : thr[t] = Idle
    BY DEF Init, All
  <1> QED
    BY <1>1, <1>2, IdleOK DEF HostInv, HostFd

(* A host's files are in its directory, and no handler writes to one that  *)
(* has gone.                                                               *)
THEOREM HostFilesHaveDirectory == Spec => []HostInv
  <1>1. Init => HostInv
    BY HostInit
  <1>2. Inv /\ HostInv /\ [Next]_vars => HostInv'
    BY HostNext
  <1> QED
    BY <1>1, <1>2, StoreInvariant, PTL DEF Spec

----------------------------------------------------------------------------
(* What AtomicStore sees, and its steps.                                   *)

\* The state of AtomicStore, as ApiStore maps it.
AbsFiles == [f \in Kept |-> disk[f]]
Done(x) == x.pc = "answer" /\ x.req.op # "remove_host"
View(x) == [req |-> x.req, rival |-> x.rival, done |-> Done(x)]
AbsDoing == [t \in Threads |-> View(thr[t])]

Nought == [req |-> NoRequest, done |-> FALSE, rival |-> FALSE]

\* Content and Taken of AtomicStore.
ContentOf(fs) ==
    [f \in Kept |-> IF fs[f] \notin {Absent, Torn} THEN fs[f]
                    ELSE IF f = "host" THEN EmptyHost ELSE Null]
TakenBy(r) == CASE r.op = "delete"      -> {"meta", "host"}
                [] r.op = "remove_host" -> {"host"}
                [] OTHER                -> {}

(* The mapping is that of ApiStore. *)
LEMMA SameView ==
    /\ AbsFiles = [f \in {"meta", "host", "users"} |-> disk[f]]
    /\ AbsDoing = [t \in Threads |->
                     [req |-> thr[t].req, rival |-> thr[t].rival,
                      done |-> thr[t].pc = "answer"
                                 /\ thr[t].req.op # "remove_host"]]
    /\ Abstract!Nothing = Nought
    /\ Abstract!Kept = Kept
    /\ \A r : Abstract!Taken(r) = TakenBy(r)
    /\ Abstract!Content(AbsFiles) = ContentOf(AbsFiles)
  <1>1. Abstract!Content(AbsFiles) = ContentOf(AbsFiles)
    BY DEF Abstract!Content, ContentOf, Abstract!Kept, Kept,
       Abstract!EmptyHost, EmptyHost, Abstract!NoMeter, NoMeter, Untyped,
       Abstract!Untyped
  <1>2. Abstract!Nothing = Nought
    BY DEF Abstract!Nothing, Nought, NoRequest, R, Abstract!R
  <1>3. \A r : Abstract!Taken(r) = TakenBy(r)
    BY DEF Abstract!Taken, TakenBy
  <1> QED
    BY <1>1, <1>2, <1>3
       DEF AbsFiles, AbsDoing, View, Done, Kept, Abstract!Kept

(* The mapping, of the next state. *)
LEMMA SameNext ==
    /\ AbsFiles' = [f \in {"meta", "host", "users"} |-> disk'[f]]
    /\ AbsDoing' = [t \in Threads |->
                      [req |-> thr'[t].req, rival |-> thr'[t].rival,
                       done |-> thr'[t].pc = "answer"
                                  /\ thr'[t].req.op # "remove_host"]]
  BY DEF AbsFiles, AbsDoing, View, Done, Kept

(* The steps of AtomicStore, of what ApiStore maps to it. *)
LEMMA AbsBegin ==
    ASSUME NEW t \in Threads, NEW r \in Requests, AbsDoing[t] = Nought,
           AbsDoing' = [d \in Threads |->
                          IF d = t THEN [req |-> r, done |-> FALSE,
                                         rival |-> Rivals(t, r) # {}]
                          ELSE IF d \in Rivals(t, r)
                          THEN [AbsDoing[d] EXCEPT !.rival = TRUE]
                          ELSE AbsDoing[d]],
           AbsFiles' = AbsFiles
    PROVE  Abstract!Next
  <1>1. Abstract!Rivals(t, r) = Rivals(t, r)
    BY SameTarget DEF Abstract!Rivals, Rivals
  <1>2. Abstract!Begin(t, r)
    BY <1>1, SameView DEF Abstract!Begin, AbsDoing, AbsFiles, View, Done,
       Kept
  <1> QED
    BY <1>2, SameWords DEF Abstract!Next, Requests

(* The end of all requests. *)
LEMMA AbsCrash ==
    ASSUME AbsDoing' = [t \in Threads |-> Nought], AbsFiles' = AbsFiles
    PROVE  Abstract!Next
  <1>1. Abstract!Crash
    BY SameView DEF Abstract!Crash, AbsDoing, AbsFiles, View, Done, Kept
  <1> QED
    BY <1>1 DEF Abstract!Next

(* The answer of a request that is fulfilled, or has met a rival. *)
LEMMA AbsAnswer ==
    ASSUME NEW t \in Threads, AbsDoing[t] # Nought,
           \/ AbsDoing[t].rival
           \/ /\ Target(AbsDoing[t].req) \in Kept /\ ~AbsDoing[t].done =>
                    \/ Refused(AbsDoing[t].req, ContentOf(AbsFiles))
                    \/ /\ Target(AbsDoing[t].req) = "host"
                       /\ AbsFiles["host"] = Absent
              /\ \A f \in TakenBy(AbsDoing[t].req) : AbsFiles[f] = Absent,
           AbsDoing' = [AbsDoing EXCEPT ![t] = Nought],
           AbsFiles' = AbsFiles
    PROVE  Abstract!Next
  <1>1. Abstract!Answer(t)
    BY SameTarget, SameRefused, SameView, SameNext, Zenon
       DEF Abstract!Answer, Abstract!Fulfilled
  <1> QED
    BY <1>1 DEF Abstract!Next

(* The change of a request. *)
LEMMA AbsApply ==
    ASSUME NEW t \in Threads, ~AbsDoing[t].done,
           NEW r, r = AbsDoing[t].req,
           Target(r) \in Kept, ~Refused(r, ContentOf(AbsFiles)),
           ~GoesDown(r, ContentOf(AbsFiles)),
           AbsFiles' = [AbsFiles EXCEPT ![Target(r)] =
                                 Change(r, ContentOf(AbsFiles))],
           AbsDoing' = [AbsDoing EXCEPT ![t].done = TRUE]
    PROVE  Abstract!Next
  <1>1. Abstract!Apply(t)
    BY SameTarget, SameRefused, SameGoesDown, SameChange, SameView,
       SameNext, Zenon
       DEF Abstract!Apply
  <1> QED
    BY <1>1 DEF Abstract!Next

(* One of the documents a removal takes. *)
LEMMA AbsRemove ==
    ASSUME NEW t \in Threads, NEW f \in TakenBy(AbsDoing[t].req),
           AbsFiles' = [AbsFiles EXCEPT ![f] = Absent],
           AbsDoing' = AbsDoing
    PROVE  Abstract!Next
  <1>1. Abstract!Remove(t)
    BY SameView, SameNext, Zenon DEF Abstract!Remove
  <1> QED
    BY <1>1 DEF Abstract!Next

(* What a request that has met a rival may do. *)
LEMMA AbsInterfere ==
    ASSUME NEW t \in Threads, AbsDoing[t].rival,
           \A f \in Kept : GroupOf(f) # Group(AbsDoing[t].req) =>
                              AbsFiles'[f] = AbsFiles[f],
           AbsDoing' \in {AbsDoing, [AbsDoing EXCEPT ![t].done = TRUE]}
    PROVE  Abstract!Next
  <1>1. Abstract!Interfere(t)
    BY SameTarget, SameView, SameNext, Zenon DEF Abstract!Interfere
  <1> QED
    BY <1>1 DEF Abstract!Next

----------------------------------------------------------------------------
(* The steps implement AtomicStore.                                        *)

\* What every step is to AtomicStore.
Stutters == UNCHANGED <<AbsFiles, AbsDoing>>
Refines == Abstract!Next \/ Stutters

SameKept == \A f \in Kept : disk'[f] = disk[f]
OthersSame(t) ==
    \A u \in Threads : u # t => View(thr'[u]) = View(thr[u])

(* Where neither the documents nor the requests change. *)
LEMMA Quiet ==
    ASSUME SameKept, \A u \in Threads : View(thr'[u]) = View(thr[u])
    PROVE  Refines
  <1>1. AbsFiles' = AbsFiles
    BY DEF AbsFiles, SameKept
  <1>2. AbsDoing' = [u \in Threads |-> View(thr'[u])]
    BY DEF AbsDoing, View, Done
  <1>3. AbsDoing' = AbsDoing
    BY <1>2 DEF AbsDoing
  <1> QED
    BY <1>1, <1>3 DEF Refines, Stutters

(* A thread that goes on. *)
LEMMA GoesQuiet ==
    ASSUME TypeOK, NEW t \in All, NEW fd, Goes(t, fd), SameKept
    PROVE  Refines
  <1>1. View(thr'[t]) = View(thr[t])
    BY GoesOn DEF View, Done
  <1>2. \A u \in All : View(thr'[u]) = View(thr[u])
    BY <1>1, GoesOn
  <1> QED
    BY <1>2, Quiet DEF All

(* Only one thread's part of the requests changes. *)
LEMMA OneDoing ==
    ASSUME NEW t \in Threads, OthersSame(t)
    PROVE  AbsDoing' = [AbsDoing EXCEPT ![t] = View(thr'[t])]
  <1>1. AbsDoing' = [u \in Threads |-> View(thr'[u])]
    BY DEF AbsDoing, View, Done
  <1>2. AbsDoing' = [u \in Threads |-> IF u = t THEN View(thr'[t])
                                       ELSE View(thr[u])]
    BY <1>1 DEF OthersSame
  <1> QED
    BY <1>2 DEF AbsDoing

(* What a thread is doing that is not idle. *)
LEMMA Busy ==
    ASSUME Inv, NEW t \in Threads
    PROVE  /\ AbsDoing[t].req = thr[t].req
           /\ AbsDoing[t].rival = thr[t].rival
           /\ AbsDoing[t].done <=> Done(thr[t])
           /\ thr[t].pc # "idle" => AbsDoing[t] # Nought
                                    /\ thr[t].req \in Requests
           /\ thr[t].pc = "idle" => AbsDoing[t] = Nought
           /\ View(Idle) = Nought
  <1>1. /\ thr[t].pc \in Pcs(thr[t].req)
        /\ thr[t].req \in Requests \union {NoRequest}
        /\ thr[t].pc = "idle" => thr[t] = Idle
    BY InvReq, WorldTyped DEF Inv, All, Formed
  <1>2. thr[t].pc # "idle" => thr[t].req # NoRequest
    BY <1>1, Kinds DEF Pcs
  <1>3. /\ AbsDoing[t].req = thr[t].req
        /\ AbsDoing[t].rival = thr[t].rival
        /\ AbsDoing[t].done <=> Done(thr[t])
        /\ AbsDoing[t] = View(thr[t])
    BY DEF AbsDoing, View
  <1>4. View(Idle) = Nought
    BY IdleOK DEF View, Nought, Done
  <1>5. thr[t].pc # "idle" => AbsDoing[t] # Nought
    BY <1>2, <1>3 DEF Nought
  <1> QED
    BY <1>1, <1>2, <1>3, <1>4, <1>5

(* When a request that has met no rival may be answered. *)
Settled(x) ==
    /\ Target(x.req) \in Kept /\ ~Done(x) =>
          \/ Refused(x.req, ContentOf(AbsFiles))
          \/ Target(x.req) = "host" /\ disk["host"] = Absent
    /\ \A f \in TakenBy(x.req) : disk[f] = Absent

(* The end of a request. *)
LEMMA Leaving ==
    ASSUME Inv, NEW t \in All, thr[t].pc # "idle", thr'[t] = Idle,
           OthersSame(t), SameKept,
           t \in Threads /\ ~thr[t].rival => Settled(thr[t])
    PROVE  Refines
  <1>1. CASE t \notin Threads
    <2>1. \A u \in Threads : View(thr'[u]) = View(thr[u])
      BY <1>1 DEF OthersSame
    <2> QED
      BY <2>1, Quiet
  <1>2. CASE t \in Threads
    <2>1. AbsFiles' = AbsFiles
      BY DEF AbsFiles, SameKept
    <2>2. AbsDoing' = [AbsDoing EXCEPT ![t] = Nought]
      BY <1>2, OneDoing, Busy
    <2>3. \A f \in Kept : AbsFiles[f] = disk[f]
      BY DEF AbsFiles
    <2>4. TakenBy(thr[t].req) \subseteq Kept /\ "host" \in Kept
      BY DEF TakenBy, Kept
    <2>5. /\ AbsDoing[t].req = thr[t].req
          /\ AbsDoing[t].rival = thr[t].rival
          /\ AbsDoing[t].done <=> Done(thr[t])
          /\ AbsDoing[t] # Nought
      BY <1>2, Busy
    <2>6. \/ AbsDoing[t].rival
          \/ /\ Target(AbsDoing[t].req) \in Kept /\ ~AbsDoing[t].done =>
                    \/ Refused(AbsDoing[t].req, ContentOf(AbsFiles))
                    \/ /\ Target(AbsDoing[t].req) = "host"
                       /\ AbsFiles["host"] = Absent
             /\ \A f \in TakenBy(AbsDoing[t].req) : AbsFiles[f] = Absent
      BY <1>2, <2>3, <2>4, <2>5 DEF Settled
    <2> QED
      BY <1>2, <2>1, <2>2, <2>5, <2>6, AbsAnswer DEF Refines
  <1> QED
    BY <1>1, <1>2

(* The end of a request, in a step of its thread alone. *)
LEMMA EndsRefine ==
    ASSUME Inv, NEW t \in All, thr[t].pc # "idle", Ends(t), SameKept,
           t \in Threads /\ ~thr[t].rival => Settled(thr[t])
    PROVE  Refines
  <1>1. thr'[t] = Idle /\ \A u \in All : u # t => thr'[u] = thr[u]
    BY EndsSo DEF Inv
  <1>2. OthersSame(t)
    BY <1>1 DEF OthersSame, All
  <1> QED
    BY <1>1, <1>2, Leaving

(* What is left to settle for a removal that has come to the overview. *)
LEMMA HostTaken ==
    ASSUME Inv, NEW t \in Threads, ~thr[t].rival, ~Binds(thr[t].req),
           thr[t].pc \notin {"idle", "remove", "removing"}
    PROVE  Settled(thr[t])
  <1> DEFINE r == thr[t].req
  <1>1. /\ r \in Requests /\ t \in All /\ thr[t].pc \in Pcs(r)
    BY InvReq, Busy DEF All
  <1>2. Trusts(thr[t], disk, tmp, dir)
    BY <1>1, InvReq
  <1>3. r.op # "delete"
    BY <1>1, Kinds DEF Pcs
  <1>4. r.op = "remove_host" \/ r \in Lists
    BY <1>1, <1>3, Kinds DEF Binds, Writer, Requests
  <1>5. Target(r) \notin Kept
    BY <1>1, <1>4, RemovalAims, AimsLists DEF Removes, Kept
  <1>6. CASE r.op = "remove_host"
    <2>1. disk["host"] = Absent
      BY <1>2, <1>6 DEF Trusts, Took, Removes
    <2> QED
      BY <1>5, <1>6, <2>1 DEF Settled, TakenBy
  <1>7. CASE r.op # "remove_host"
    BY <1>3, <1>5, <1>7 DEF Settled, TakenBy
  <1> QED
    BY <1>6, <1>7

(* What a writer has read is what AtomicStore has. *)
LEMMA HasRead ==
    ASSUME Inv, NEW t \in Threads, ~thr[t].rival, Writer(thr[t].req),
           thr[t].pc \in {"act", "open", "dump", "rename"}
    PROVE  LET r == thr[t].req
               got == thr[t].got IN
           /\ Refused(r, got) <=> Refused(r, ContentOf(AbsFiles))
           /\ GoesDown(r, got) <=> GoesDown(r, ContentOf(AbsFiles))
           /\ Change(r, got) = Change(r, ContentOf(AbsFiles))
  <1> DEFINE r == thr[t].req
             got == thr[t].got
  <1>1. Sees(thr[t], disk)
    BY InvReq DEF Trusts, All
  <1>2. \A f \in Wants(r) : f \in Kept /\ got[f] = Held(f, disk[f])
    BY <1>1, Wanted DEF Sees
  <1>3. \A f \in Kept : ContentOf(AbsFiles)[f] = Held(f, disk[f])
    BY DEF ContentOf, AbsFiles, Held, Unread
  <1>4. \A f \in Wants(r) : got[f] = ContentOf(AbsFiles)[f]
    BY <1>2, <1>3
  <1> QED
    BY <1>4, OnlyWanted

\* What is under way, once it has met a rival.
WithRival(v) == [v EXCEPT !.rival = TRUE]

(* Begin takes a request. *)
LEMMA BeginRefines ==
    ASSUME Inv, NEW t \in Threads, NEW r \in world.ops, Begin(t, r)
    PROVE  Refines
  <1> PICK y : y = Started(r, Rivals(t, r) # {})
    OBVIOUS
  <1>1. /\ TypeOK /\ r \in Requests /\ thr[t].pc = "idle" /\ disk' = disk
        /\ t \in All
    BY WorldTyped DEF Inv, Begin, All
  <1>2. /\ y.req = r /\ y.rival = (Rivals(t, r) # {}) /\ y.pc # "answer"
    <2> DEFINE met == Rivals(t, r) # {}
    <2>1. met \in BOOLEAN /\ y = Started(r, met)
      OBVIOUS
    <2> HIDE DEF met
    <2>2. /\ y.req = r /\ y.rival = met
          /\ y.pc = CASE r.op = "create" -> "mkdir"
                      [] r.op \in {"delete", "remove_host"} -> "remove"
                      [] OTHER -> "stat"
      BY <2>1, <1>1, StartFields
    <2> QED
      BY <2>2 DEF met
  <1>3. \A u \in All :
           thr'[u] = IF u = t THEN y
                     ELSE IF u \in Rivals(t, r)
                     THEN [thr[u] EXCEPT !.rival = TRUE] ELSE thr[u]
    BY <1>1 DEF Begin, TypeOK
  <1>4. AbsDoing' = [u \in Threads |-> View(thr'[u])]
    BY DEF AbsDoing, View, Done
  <1>5. View(y) = [req |-> r, done |-> FALSE, rival |-> Rivals(t, r) # {}]
    BY <1>2 DEF View, Done
  <1>6. ASSUME NEW u \in Threads, u # t, u \in Rivals(t, r)
        PROVE  View(thr'[u]) = [AbsDoing[u] EXCEPT !.rival = TRUE]
    <2> PICK z : z = [thr[u] EXCEPT !.rival = TRUE]
      OBVIOUS
    <2>1. /\ z.req = thr[u].req /\ z.pc = thr[u].pc /\ z.rival = TRUE
      BY <1>1 DEF TypeOK, IsThread, All
    <2>2. thr'[u] = z
      BY <1>3, <1>6 DEF All
    <2>3. View(z) = [req |-> thr[u].req, rival |-> TRUE,
                     done |-> Done(thr[u])]
      BY <2>1 DEF View, Done
    <2> PICK d, v, w : /\ d = Done(thr[u]) /\ v = AbsDoing[u]
                       /\ w = WithRival(v)
      OBVIOUS
    <2>4. v = [req |-> thr[u].req, rival |-> thr[u].rival, done |-> d]
      BY DEF AbsDoing, View
    <2>5. /\ w.req = thr[u].req /\ w.rival = TRUE /\ w.done = d
          /\ w = [f \in {"req", "rival", "done"} |-> w[f]]
      <3>1. w.req = thr[u].req
        BY <2>4 DEF WithRival
      <3>2. w.rival = TRUE
        BY <2>4 DEF WithRival
      <3>3. w.done = d
        BY <2>4 DEF WithRival
      <3>4. w = [f \in {"req", "rival", "done"} |-> w[f]]
        BY <2>4 DEF WithRival
      <3> QED
        BY <3>1, <3>2, <3>3, <3>4
    <2>6. w = [req |-> thr[u].req, rival |-> TRUE, done |-> d]
      BY <2>5
    <2> QED
      BY <2>2, <2>3, <2>6 DEF WithRival
  <1>7. ASSUME NEW u \in Threads, u # t, u \notin Rivals(t, r)
        PROVE  View(thr'[u]) = AbsDoing[u]
    <2>1. thr'[u] = thr[u]
      BY <1>3, <1>7 DEF All
    <2> QED
      BY <2>1 DEF AbsDoing
  <1>8. View(thr'[t]) = View(y)
    BY <1>1, <1>3
  <1>9. AbsDoing' = [d \in Threads |->
                       IF d = t THEN [req |-> r, done |-> FALSE,
                                      rival |-> Rivals(t, r) # {}]
                       ELSE IF d \in Rivals(t, r)
                       THEN [AbsDoing[d] EXCEPT !.rival = TRUE]
                       ELSE AbsDoing[d]]
    BY <1>4, <1>5, <1>6, <1>7, <1>8
  <1>10. AbsFiles' = AbsFiles
    BY <1>1 DEF AbsFiles
  <1>11. AbsDoing[t] = Nought
    BY <1>1, Busy
  <1> QED
    BY <1>1, <1>9, <1>10, <1>11, AbsBegin DEF Refines

(* The end of the API loses the requests under way. *)
LEMMA RestartRefines ==
    ASSUME Inv, Restart, disk' = disk
    PROVE  Refines
  <1>1. \A u \in Threads : thr'[u] = Idle
    BY DEF Inv, TypeOK, Restart, All
  <1>2. AbsDoing' = [u \in Threads |-> View(thr'[u])]
    BY DEF AbsDoing, View, Done
  <1>3. View(Idle) = Nought
    BY IdleOK DEF View, Nought, Done
  <1>4. AbsDoing' = [t \in Threads |-> Nought]
    BY <1>1, <1>2, <1>3
  <1>5. AbsFiles' = AbsFiles
    BY DEF AbsFiles
  <1> QED
    BY <1>4, <1>5, AbsCrash DEF Refines

----------------------------------------------------------------------------
(* The steps of one thread.                                                *)

(* A request that has met no rival and changes a document has it to        *)
(* itself.                                                                 *)
LEMMA BindsAlone ==
    ASSUME Inv, NEW t \in Threads, Binds(thr[t].req), ~thr[t].rival
    PROVE  /\ Trusts(thr[t], disk, tmp, dir) /\ thr[t].req \in Requests
           /\ Target(thr[t].req) \in Kept /\ TakenBy(thr[t].req) = {}
           /\ thr[t].pc \in Pcs(thr[t].req)
           /\ thr[t].req.op # "create" => Writer(thr[t].req)
  <1>1. /\ Trusts(thr[t], disk, tmp, dir) /\ thr[t].req \in Requests
        /\ thr[t].pc \in Pcs(thr[t].req)
    BY InvReq DEF All
  <1> QED
    BY <1>1, WriterAims DEF TakenBy, Binds

(* What only reads, or lists what it will remove, changes nothing.         *)
LEMMA ReadersRefine ==
    ASSUME Inv, NEW t \in All, Stat(t) \/ Read(t) \/ StartRemoval(t)
    PROVE  Refines
  <1>1. TypeOK /\ SameKept
    BY DEF Inv, SameKept, Stat, Read, StartRemoval
  <1> QED
    BY <1>1, ReadersGo, RemoversGo, GoesQuiet

(* A request that is refused has no effect.                                *)
LEMMA ActRefines ==
    ASSUME Inv, NEW t \in All, Act(t)
    PROVE  Refines
  <1>1. TypeOK /\ SameKept /\ disk' = disk /\ thr[t].pc = "act"
    BY DEF Inv, SameKept, Act
  <1>2. CASE GoDown(t)
    BY <1>1, <1>2, RestartRefines DEF GoDown
  <1>3. CASE Goes(t, thr[t].fd)
    BY <1>1, <1>3, GoesQuiet
  <1>4. CASE /\ Ends(t)
             /\ \/ Refused(thr[t].req, thr[t].got)
                \/ Target(thr[t].req) = "none"
    <2>1. ASSUME t \in Threads, ~thr[t].rival, Binds(thr[t].req)
          PROVE  Settled(thr[t])
      <3>1. thr[t].req.op # "create"
        BY <1>1, <2>1, BindsAlone, Kinds DEF Pcs, Ending
      <3>2. Refused(thr[t].req, ContentOf(AbsFiles))
        BY <1>1, <1>4, <2>1, <3>1, BindsAlone, HasRead DEF Kept
      <3> QED
        BY <2>1, <3>2, BindsAlone DEF Settled
    <2>2. ASSUME t \in Threads, ~thr[t].rival, ~Binds(thr[t].req)
          PROVE  Settled(thr[t])
      BY <1>1, <2>2, HostTaken
    <2> QED
      BY <1>1, <1>4, <2>1, <2>2, EndsRefine
  <1> QED
    BY <1>2, <1>3, <1>4, ActorsGo

(* The directory of a tenant is no document.                               *)
LEMMA MkdirRefines ==
    ASSUME Inv, NEW t \in All, Mkdir(t)
    PROVE  Refines
  <1>1. /\ TypeOK /\ SameKept /\ thr[t].pc = "mkdir" /\ ~Act(t)
    BY DEF Inv, SameKept, Mkdir, Act
  <1>2. CASE Goes(t, thr[t].fd)
    BY <1>1, <1>2, GoesQuiet
  <1>3. CASE Ends(t) /\ dir # "none"
    <2>1. ASSUME t \in Threads, ~thr[t].rival
          PROVE  FALSE
      <3>1. Binds(thr[t].req)
        BY <1>1, <2>1, InvReq, Kinds DEF Pcs, Ending, Binds
      <3>2. InDir(thr[t], dir)
        BY <2>1, <3>1, BindsAlone DEF Trusts
      <3> QED
        BY <1>1, <1>3, <3>1, <3>2 DEF InDir
    <2> QED
      BY <1>1, <1>3, <2>1, EndsRefine
  <1> QED
    BY <1>1, <1>2, <1>3, ActorsGo

(* Only where there is no directory is no file opened.                     *)
LEMMA OpenRefines ==
    ASSUME Inv, HostInv, NEW t \in All, Open(t)
    PROVE  Refines
  <1>1. TypeOK /\ SameKept /\ thr[t].pc = "open"
    BY DEF Inv, SameKept, Open
  <1>2. CASE Goes(t, "tmp")
    BY <1>1, <1>2, GoesQuiet
  <1>3. CASE Ends(t) /\ ~Room(Target(thr[t].req))
    <2>1. ASSUME t \in Threads, ~thr[t].rival, Binds(thr[t].req)
          PROVE  Settled(thr[t])
      <3>1. /\ InDir(thr[t], dir) /\ Target(thr[t].req) \in Kept
            /\ TakenBy(thr[t].req) = {}
        BY <2>1, BindsAlone DEF Trusts
      <3>2. Target(thr[t].req) = "host" /\ dir # "host"
        BY <1>1, <1>3, <2>1, <3>1 DEF InDir, Room, Kept
      <3>3. disk["host"] = Absent
        BY <3>2 DEF HostInv
      <3> QED
        BY <3>1, <3>2, <3>3 DEF Settled
    <2>2. ASSUME t \in Threads, ~thr[t].rival, ~Binds(thr[t].req)
          PROVE  Settled(thr[t])
      BY <1>1, <2>2, HostTaken
    <2> QED
      BY <1>1, <1>3, <2>1, <2>2, EndsRefine
  <1> QED
    BY <1>2, <1>3, WritersGo

(* An answer comes after the change or the removal.                        *)
LEMMA AnswerRefines ==
    ASSUME Inv, NEW t \in All, Answer(t)
    PROVE  Refines
  <1>1. SameKept /\ thr[t].pc = "answer" /\ Ends(t)
    BY WritersGo DEF SameKept, Answer
  <1>2. ASSUME t \in Threads, ~thr[t].rival, Binds(thr[t].req)
        PROVE  Settled(thr[t])
    <2>1. thr[t].req.op # "remove_host"
      BY <1>2, BindsAlone, WriterAims
    <2> QED
      BY <1>1, <1>2, <2>1, BindsAlone DEF Settled, Done
  <1>3. ASSUME t \in Threads, ~thr[t].rival, ~Binds(thr[t].req)
        PROVE  Settled(thr[t])
    BY <1>1, <1>3, HostTaken
  <1> QED
    BY <1>1, <1>2, <1>3, EndsRefine

(* What others see of a thread whose file moved or went.                   *)
LEMMA AlikeViews ==
    ASSUME TypeOK, NEW t \in All, NEW f,
           NEW E, E \in {Follow(t, f), LoseTmp(t, f), LoseFile(t, f)},
           \A u \in All : u # t => thr'[u] = E[u]
    PROVE  OthersSame(t)
  <1>1. ASSUME NEW u \in All, u # t
        PROVE  View(thr'[u]) = View(thr[u])
    <2>1. \E fd : Alike(thr[u], E[u], fd)
      BY <1>1, FollowFds
    <2> QED
      BY <1>1, <2>1 DEF Alike, View, Done
  <1> QED
    BY <1>1 DEF OthersSame, All

(* What is written to a document is written by one of those who share it.  *)
LEMMA DumpRefines ==
    ASSUME Inv, NEW t \in All, Dump(t)
    PROVE  Refines
  <1> DEFINE f == Target(thr[t].req)
  <1>1. TypeOK /\ thr[t].pc = "dump" /\ Goes(t, thr[t].fd)
    BY WritersGo DEF Inv, Dump
  <1>2. CASE thr[t].fd # "file" \/ f = "overview"
    <2>1. SameKept
      <3>1. CASE thr[t].fd # "file"
        BY <3>1 DEF Dump, SameKept
      <3>2. CASE f = "overview"
        <4>1. disk' = disk \/ \E doc : disk' = [disk EXCEPT ![f] = doc]
          BY DEF Dump
        <4>2. Kept \subseteq DOMAIN disk /\ "overview" \notin Kept
          BY <1>1 DEF TypeOK, Kept, Files
        <4> QED
          BY <3>2, <4>1, <4>2 DEF SameKept
      <3> QED
        BY <1>2, <3>1, <3>2
    <2> QED
      BY <1>1, <2>1, GoesQuiet
  <1>3. CASE thr[t].fd = "file" /\ f # "overview"
    <2>1. /\ Binds(thr[t].req) /\ t \in Threads
          /\ Group(thr[t].req) = GroupOf(f)
      BY <1>1, <1>3, Writing DEF Ending
    <2>2. thr[t].rival
      <3>1. ASSUME ~thr[t].rival
            PROVE  FALSE
        <4>1. Owns(thr[t], tmp)
          BY <2>1, <3>1, BindsAlone DEF Trusts
        <4> QED
          BY <1>1, <1>3, <2>1, <4>1 DEF Owns
      <3> QED
        BY <3>1
    <2>3. \A g \in Kept : g # f => disk'[g] = disk[g]
      BY <1>1, <1>3 DEF Dump, TypeOK, Kept, Files
    <2>4. \A g \in Kept : GroupOf(g) # Group(thr[t].req) =>
                             AbsFiles'[g] = AbsFiles[g]
      BY <2>1, <2>3 DEF AbsFiles
    <2>5. \A u \in All : View(thr'[u]) = View(thr[u])
      BY <1>1, GoesOn DEF View, Done
    <2>6. AbsDoing' = AbsDoing
      BY <2>5 DEF AbsDoing, View, Done, All
    <2>7. AbsDoing[t].rival /\ AbsDoing[t].req = thr[t].req
      BY <2>1, <2>2, Busy
    <2> QED
      BY <2>1, <2>4, <2>6, <2>7, AbsInterfere DEF Refines
  <1> QED
    BY <1>2, <1>3

(* A request that had its documents to itself is applied by its rename.    *)
LEMMA RenameApplies ==
    ASSUME Inv, NEW t \in Threads, thr[t].pc = "rename",
           Binds(thr[t].req), ~thr[t].rival,
           AbsFiles' = [AbsFiles EXCEPT ![Target(thr[t].req)] =
                                           tmp[Target(thr[t].req)]],
           AbsDoing' = [AbsDoing EXCEPT ![t].done = TRUE]
    PROVE  Refines
  <1> DEFINE x == thr[t]
             r == thr[t].req
  <1>1. /\ Formed(x) /\ Owns(x, tmp) /\ Target(r) \in Kept
        /\ r \in Requests
        /\ r.op # "create" => Writer(r)
    BY BindsAlone, InvReq DEF All, Trusts
  <1>2. /\ x.new = Change(r, x.got) /\ tmp[Target(r)] = x.new
        /\ ~Refused(r, x.got) /\ ~GoesDown(r, x.got)
    BY <1>1 DEF Formed, Owns
  <1>3. /\ Refused(r, x.got) <=> Refused(r, ContentOf(AbsFiles))
        /\ GoesDown(r, x.got) <=> GoesDown(r, ContentOf(AbsFiles))
        /\ Change(r, x.got) = Change(r, ContentOf(AbsFiles))
    <2>1. CASE Writer(r)
      BY <2>1, HasRead
    <2>2. CASE r.op = "create"
      <3>1. r \notin TenantWrites /\ r \notin UserWrites
        BY <2>2, Kinds
      <3>2. \A g : ~Refused(r, g) /\ ~GoesDown(r, g)
        BY <2>2, <3>1 DEF Refused, GoesDown
      <3>3. \A g : Change(r, g) = NewTenant(r.to)
        BY <2>2 DEF Change
      <3> QED
        BY <3>2, <3>3
    <2> QED
      BY <1>1, <2>1, <2>2
  <1>4. /\ ~AbsDoing[t].done /\ AbsDoing[t].req = r
    BY Busy DEF Done
  <1> QED
    BY <1>1, <1>2, <1>3, <1>4, AbsApply DEF Refines

(* A rename replaces one document, in one step.                            *)
LEMMA RenameRefines ==
    ASSUME Inv, NEW t \in All, Rename(t)
    PROVE  Refines
  <1> DEFINE f == Target(thr[t].req)
  <1>1. TypeOK /\ thr[t].pc = "rename" /\ f \in Files /\ IsThread(thr[t])
    BY Writing, InvReq DEF Inv, Rename, Ending
  <1>2. CASE tmp[f] = Absent
    <2>1. SameKept /\ Goes(t, "none")
      BY <1>2, WritersGo DEF SameKept
    <2> QED
      BY <1>1, <2>1, GoesQuiet
  <1>3. CASE tmp[f] # Absent
    <2>1. /\ disk' = [disk EXCEPT ![f] = tmp[f]]
          /\ thr' = [Follow(t, f) EXCEPT ![t].pc = "answer",
                                         ![t].fd = "none"]
      BY <1>3, Zenon DEF Rename, RenameTmp, Follow
    <2> PICK E, y : /\ E = Follow(t, f)
                    /\ y = [thr[t] EXCEPT !.pc = "answer", !.fd = "none"]
      OBVIOUS
    <2>2. E = [u \in All |-> E[u]] /\ E[t] = thr[t]
      BY <1>1, OthersAre
    <2>3. thr'[t] = y /\ \A u \in All : u # t => thr'[u] = E[u]
      BY <2>1, <2>2
    <2>4. OthersSame(t)
      BY <1>1, <2>3, AlikeViews
    <2>5. y.req = thr[t].req /\ y.rival = thr[t].rival /\ y.pc = "answer"
      BY <1>1 DEF IsThread
    <2>6. \A g \in Kept : disk'[g] = IF g = f THEN tmp[f] ELSE disk[g]
      BY <1>1, <2>1 DEF TypeOK, Kept, Files
    <2>7. CASE ~Binds(thr[t].req)
      <3>1. f = "overview" /\ thr[t].req.op \in {"remove_host", "overview"}
        BY <1>1, <2>7, Writing DEF Ending
      <3>2. SameKept
        BY <2>6, <3>1 DEF SameKept, Kept
      <3>3. t \in Threads => View(thr'[t]) = View(thr[t])
        <4>1. t \in Threads => thr[t].req.op = "remove_host"
          BY <3>1, WorldTyped, AimsOverview, Kinds DEF Inv
        <4> QED
          BY <1>1, <2>3, <2>5, <4>1 DEF View, Done
      <3> QED
        BY <2>4, <3>2, <3>3, Quiet DEF OthersSame
    <2>8. CASE Binds(thr[t].req)
      <3>1. /\ t \in Threads /\ f \in Kept /\ Group(thr[t].req) = GroupOf(f)
            /\ thr[t].req.op # "remove_host"
        BY <1>1, <2>8, Writing, WriterAims DEF Ending
      <3>2. AbsFiles' = [AbsFiles EXCEPT ![f] = tmp[f]]
        BY <2>6, <3>1 DEF AbsFiles
      <3>3. AbsDoing' = [AbsDoing EXCEPT ![t].done = TRUE]
        <4>1. AbsDoing' = [AbsDoing EXCEPT ![t] = View(y)]
          BY <2>3, <2>4, <3>1, OneDoing
        <4> PICK v, w : v = AbsDoing[t] /\ w = [v EXCEPT !.done = TRUE]
          OBVIOUS
        <4>2. /\ v = [req |-> thr[t].req, rival |-> thr[t].rival,
                      done |-> Done(thr[t])]
          BY <3>1 DEF AbsDoing, View
        <4>3. /\ w.req = thr[t].req /\ w.rival = thr[t].rival
              /\ w.done = TRUE
              /\ w = [g \in {"req", "rival", "done"} |-> w[g]]
          <5>1. w.req = thr[t].req
            BY <4>2
          <5>2. w.rival = thr[t].rival
            BY <4>2
          <5>3. w.done = TRUE
            BY <4>2
          <5>4. w = [g \in {"req", "rival", "done"} |-> w[g]]
            BY <4>2
          <5> QED
            BY <5>1, <5>2, <5>3, <5>4
        <4>4. w = View(y)
          BY <2>5, <3>1, <4>3 DEF View, Done
        <4> QED
          BY <4>1, <4>4
      <3>4. CASE ~thr[t].rival
        BY <1>1, <2>8, <3>1, <3>2, <3>3, <3>4, RenameApplies
      <3>5. CASE thr[t].rival
        <4>1. AbsDoing[t].rival /\ AbsDoing[t].req = thr[t].req
          BY <3>1, <3>5, Busy
        <4>2. \A g \in Kept : GroupOf(g) # Group(thr[t].req) =>
                                 AbsFiles'[g] = AbsFiles[g]
          BY <3>1, <3>2 DEF AbsFiles
        <4> QED
          BY <3>1, <3>3, <4>1, <4>2, AbsInterfere DEF Refines
      <3> QED
        BY <3>4, <3>5
    <2> QED
      BY <2>7, <2>8
  <1> QED
    BY <1>2, <1>3

(* Who finds its file gone has shared it, or had removed the host before.  *)
LEMMA UnlinkRefines ==
    ASSUME Inv, NEW t \in All, Unlink(t)
    PROVE  Refines
  <1> DEFINE f == Target(thr[t].req)
  <1>1. TypeOK /\ SameKept /\ thr[t].pc = "unlink"
    BY DEF Inv, SameKept, Unlink
  <1> PICK E : E = LoseTmp(t, f)
    OBVIOUS
  <1>2. E = [u \in All |-> E[u]] /\ E[t] = thr[t]
    BY <1>1, OthersAre
  <1>3. thr' = [E EXCEPT ![t] = Idle]
    BY Zenon DEF Unlink, LoseTmp
  <1>4. thr'[t] = Idle /\ \A u \in All : u # t => thr'[u] = E[u]
    BY <1>2, <1>3
  <1>5. OthersSame(t)
    BY <1>1, <1>4, AlikeViews
  <1>6. ASSUME t \in Threads, ~thr[t].rival
        PROVE  Settled(thr[t])
    <2>1. CASE Binds(thr[t].req)
      BY <1>1, <1>6, <2>1, BindsAlone DEF Trusts, Owns
    <2>2. CASE ~Binds(thr[t].req)
      BY <1>1, <1>6, <2>2, HostTaken
    <2> QED
      BY <2>1, <2>2
  <1> QED
    BY <1>1, <1>4, <1>5, <1>6, Leaving

(* What others see of a removal that takes a file that some have open.     *)
LEMMA RemovalViews ==
    ASSUME TypeOK, NEW t \in All, NEW f, NEW e,
           NEW E, E \in {Follow(t, f), LoseTmp(t, f), LoseFile(t, f)},
           thr' = [E EXCEPT ![t].left = @ \ {e}]
    PROVE  \A u \in Threads : View(thr'[u]) = View(thr[u])
  <1>1. E = [u \in All |-> E[u]] /\ E[t] = thr[t] /\ IsThread(thr[t])
    BY OthersAre DEF TypeOK
  <1>2. thr'[t] = [thr[t] EXCEPT !.left = thr[t].left \ {e}]
    BY <1>1 DEF IsThread
  <1>3. /\ thr'[t].req = thr[t].req /\ thr'[t].rival = thr[t].rival
        /\ thr'[t].pc = thr[t].pc
    BY <1>1, <1>2 DEF IsThread
  <1>4. \A u \in All : u # t => thr'[u] = E[u]
    BY <1>1
  <1>5. OthersSame(t)
    BY <1>4, AlikeViews
  <1>6. View(thr'[t]) = View(thr[t])
    BY <1>3 DEF View, Done
  <1> QED
    BY <1>5, <1>6 DEF OthersSame

(* Of what a removal takes AtomicStore sees the documents.                 *)
LEMMA RemoveFileRefines ==
    ASSUME Inv, NEW t \in All, RemoveFile(t)
    PROVE  Refines
  <1> DEFINE x == thr[t]
  <1>1. /\ TypeOK /\ IsThread(x) /\ x.pc = "removing" /\ t \in Threads
        /\ Removes(x.req) /\ Scope(x.req) \subseteq Files \ {"users"}
    BY Removing, InvReq DEF Inv, RemoveFile
  <1>2. PICK f \in Scope(x.req) :
           \/ /\ disk' = [disk EXCEPT ![f] = Absent]
              /\ thr' = [LoseFile(t, f) EXCEPT
                           ![t].left = @ \ {<<"file", f>>}]
           \/ /\ disk' = disk
              /\ thr' = [LoseTmp(t, f) EXCEPT
                           ![t].left = @ \ {<<"tmp", f>>}]
    BY Zenon DEF RemoveFile, LoseFile, LoseTmp
  <1>3. \A u \in Threads : View(thr'[u]) = View(thr[u])
    <2>1. ASSUME NEW e, thr' = [LoseFile(t, f) EXCEPT ![t].left = @ \ {e}]
          PROVE  \A u \in Threads : View(thr'[u]) = View(thr[u])
      BY <1>1, <2>1, RemovalViews
    <2>2. ASSUME NEW e, thr' = [LoseTmp(t, f) EXCEPT ![t].left = @ \ {e}]
          PROVE  \A u \in Threads : View(thr'[u]) = View(thr[u])
      BY <1>1, <2>2, RemovalViews
    <2> QED
      BY <1>2, <2>1, <2>2, Zenon
  <1>4. CASE disk' = disk
    BY <1>3, <1>4, Quiet DEF SameKept
  <1>5. CASE disk' = [disk EXCEPT ![f] = Absent]
    <2>1. Kept \subseteq DOMAIN disk
      BY <1>1 DEF TypeOK, Kept, Files
    <2>2. CASE f \notin Kept
      <3>1. SameKept
        BY <1>5, <2>1, <2>2 DEF SameKept
      <3> QED
        BY <1>3, <3>1, Quiet
    <2>3. CASE f \in Kept
      <3>1. f \in TakenBy(x.req)
        BY <1>1, <1>2, <2>3 DEF Removes, TakenBy, Scope, Files, Kept
      <3>2. AbsFiles' = [AbsFiles EXCEPT ![f] = Absent]
        BY <1>5, <2>1, <2>3 DEF AbsFiles
      <3>3. AbsDoing' = AbsDoing
        BY <1>3 DEF AbsDoing, View, Done
      <3>4. AbsDoing[t].req = x.req
        BY <1>1, Busy
      <3> QED
        BY <1>1, <3>1, <3>2, <3>3, <3>4, AbsRemove DEF Refines
    <2> QED
      BY <2>2, <2>3
  <1> QED
    BY <1>2, <1>4, <1>5

(* A host's directory that is not empty has got a file since.              *)
LEMMA RemoveHostDirRefines ==
    ASSUME Inv, NEW t \in All, RemoveHostDir(t)
    PROVE  Refines
  <1>1. /\ TypeOK /\ SameKept /\ thr[t].pc = "removing"
        /\ thr[t].left \intersect ({"file", "tmp"} \X {"host"}) = {}
    BY DEF Inv, SameKept, RemoveHostDir
  <1>2. Removes(thr[t].req) /\ "host" \in Scope(thr[t].req)
    BY <1>1, Removing
  <1>3. CASE Goes(t, thr[t].fd)
    BY <1>1, <1>3, GoesQuiet
  <1>4. CASE Ends(t) /\ There("host")
    <2>1. ASSUME ~thr[t].rival
          PROVE  FALSE
      <3>1. Took(thr[t], disk, tmp)
        BY <2>1, InvReq DEF Trusts
      <3>2. disk["host"] = Absent /\ tmp["host"] = Absent
        <4>1. <<"file", "host">> \notin thr[t].left
          BY <1>1
        <4>2. <<"tmp", "host">> \notin thr[t].left
          BY <1>1
        <4> QED
          BY <1>1, <1>2, <3>1, <4>1, <4>2 DEF Took, Kept
      <3> QED
        BY <1>4, <3>2 DEF There
    <2> QED
      BY <1>1, <1>4, <2>1, EndsRefine
  <1> QED
    BY <1>3, <1>4, RemoversGo

(* A removal is answered when everything has gone.                         *)
LEMMA EndRemovalRefines ==
    ASSUME Inv, NEW t \in All, EndRemoval(t)
    PROVE  Refines
  <1>1. TypeOK /\ SameKept /\ thr[t].pc = "removing" /\ thr[t].left = {}
    BY DEF Inv, SameKept, EndRemoval
  <1>2. CASE Goes(t, thr[t].fd)
    BY <1>1, <1>2, GoesQuiet
  <1>3. CASE Ends(t)
    <2>1. ASSUME t \in Threads, ~thr[t].rival
          PROVE  Settled(thr[t])
      <3>1. /\ Took(thr[t], disk, tmp) /\ Removes(thr[t].req)
            /\ Target(thr[t].req) \notin Kept
        BY <1>1, <2>1, InvReq, Removing DEF Trusts, Kept
      <3>2. TakenBy(thr[t].req) \subseteq Scope(thr[t].req) \intersect Kept
        BY DEF TakenBy, Scope, Files, Kept
      <3>3. \A f \in TakenBy(thr[t].req) : disk[f] = Absent
        BY <1>1, <3>1, <3>2 DEF Took
      <3> QED
        BY <3>1, <3>3 DEF Settled
    <2> QED
      BY <1>1, <1>3, <2>1, EndsRefine
  <1> QED
    BY <1>2, <1>3, RemoversGo

----------------------------------------------------------------------------
(* The theorem.                                                            *)

(* Every step is one of AtomicStore, or not seen there.                    *)
LEMMA NextRefines ==
    ASSUME Inv, HostInv, [Next]_vars
    PROVE  Refines
  <1>1. ASSUME NEW t \in All, Step(t)
        PROVE  Refines
    BY <1>1, ReadersRefine, ActRefines, MkdirRefines, OpenRefines,
       DumpRefines, RenameRefines, UnlinkRefines, AnswerRefines,
       RemoveFileRefines, RemoveHostDirRefines, EndRemovalRefines, Zenon
       DEF Step
  <1>2. CASE OverviewRound
    <2>1. \A u \in Threads : thr'[u] = thr[u]
      BY <1>2, StoreConstants DEF OverviewRound, Inv, TypeOK, All
    <2> QED
      BY <1>2, <2>1, Quiet DEF OverviewRound, SameKept
  <1>3. CASE HostReports \/ Forget \/ UNCHANGED vars
    <2>1. UNCHANGED <<disk, thr>>
      BY <1>3 DEF HostReports, Forget, vars
    <2> QED
      BY <2>1, Quiet DEF SameKept
  <1>4. CASE Crash
    BY <1>4, RestartRefines DEF Crash
  <1> QED
    BY <1>1, <1>2, <1>3, <1>4, BeginRefines, Zenon DEF Next, All

(* The first state is one of AtomicStore. *)
LEMMA InitRefines ==
    ASSUME Init
    PROVE  Abstract!Init
  <1>1. /\ \A t \in Threads : thr[t] = Idle
        /\ disk["meta"] \in {Absent, NewTenant(1)} /\ disk["host"] = Absent
        /\ disk["users"] = NoUsers /\ 1 \in Values
    BY StoreConstants DEF Init, Files
  <1>2. View(Idle) = Nought
    BY IdleOK DEF View, Nought, Done
  <1>3. AbsDoing = [t \in Threads |-> Nought]
    BY <1>1, <1>2 DEF AbsDoing
  <1>4. /\ AbsFiles = [meta |-> disk["meta"], host |-> Absent,
                       users |-> NoUsers]
    BY <1>1 DEF AbsFiles, Kept
  <1>5. /\ \A val : Abstract!NewTenant(val) = NewTenant(val)
        /\ Abstract!NoUsers = NoUsers /\ Abstract!EmptyHost = EmptyHost
        /\ Abstract!Nothing = Nought
    BY SameView
       DEF Abstract!NewTenant, NewTenant, Abstract!NoUsers, NoUsers,
       Abstract!EmptyHost, EmptyHost, Abstract!NoMeter, NoMeter,
       Abstract!Untyped, Untyped
  <1>6. AbsFiles \in [meta : {Absent} \union {NewTenant(val) : val \in Values},
                      host : {Absent, EmptyHost}, users : {NoUsers}]
    BY <1>1, <1>4
  <1> QED
    BY <1>3, <1>5, <1>6, SameView DEF Abstract!Init

(* The stat, open, read, write, rename and unlink of the handlers          *)
(* implement AtomicStore: a request that meets no other one at its         *)
(* documents takes effect in one step and once, with what the files hold   *)
(* then, or not at all, whatever else the API, the collector and crashes   *)
(* do meanwhile; requests that meet leave all other documents alone.       *)
THEOREM RequestsTakeEffectOnce == Spec => RequestsAreAtomic
  <1>1. Init => Abstract!Init
    BY InitRefines
  <1>2. Inv /\ HostInv /\ [Next]_vars => Refines
    BY NextRefines
  <1>3. Refines => [Abstract!Next]_<<AbsFiles, AbsDoing>>
    BY DEF Refines, Stutters
  <1> QED
    BY <1>1, <1>2, <1>3, StoreInvariant, HostFilesHaveDirectory, PTL
       DEF Spec, RequestsAreAtomic, Abstract!Spec, Refines, Stutters,
       AbsFiles, AbsDoing, View, Done, Kept
=============================================================================
