----------------------------- MODULE ApiStore ------------------------------
(***************************************************************************)
(* The handlers of opticon-api on the files of the database.  A handler    *)
(* reads the documents it needs (a stat for the size, then open, lock and  *)
(* read), makes its change, writes the whole document to a file of fixed   *)
(* name beside the old one and renames that.  Threads of the API and the   *)
(* overview thread of the collector do this at the same time, and any two  *)
(* of them use one such name.                                              *)
(*                                                                         *)
(* A handler that finds nothing to open answers 404 and has no effect on   *)
(* the state: those are left out, and so are deleted.json, which no part   *)
(* of the program reads, and the records in a host's directory.  A write   *)
(* that fails, as on a full disk, is not here.                             *)
(***************************************************************************)
EXTENDS ApiHandlers, Sequences

CONSTANTS Threads,    \* the API's, for one request at a time
          Collector,  \* the overview thread
          Worlds      \* what is there at first, the requests that come,
                      \* how many of them and of crashes, and whether
                      \* there is the collector

Files == {"meta", "host", "users", "overview"}
OneHost == {"the host"}

ASSUME StoreConstants ==
    /\ Collector \notin Threads
    /\ Worlds \subseteq
          [tenant : BOOLEAN, collector : BOOLEAN,
           requests : Nat, crashes : Nat,
           ops : SUBSET (TenantWrites \union HostWrites \union UserWrites
                         \union TenantLife \union Lists)]
    /\ 1 \in Values

VARIABLES world,
          dir,      \* the directories there are: "none", the tenant's,
                    \* or that one and its host's
          disk,     \* [Files -> a document, Absent or Torn]
          tmp,      \* the same for the file that will be renamed
          thr,      \* [Threads and Collector -> what it is at]
          memory,   \* the hosts of the tenant the collector has in memory
          requests, crashes

vars == <<world, dir, disk, tmp, thr, memory, requests, crashes>>

NoRequest == R("none", "none", "none", 0)

Idle == [req |-> NoRequest, pc |-> "idle",
         todo |-> <<>>,   \* the files it has still to read
         seen |-> Absent, \* the document stat told the size of
         got |-> [meta |-> Null, host |-> EmptyHost, users |-> Null,
                  overview |-> Null],
         new |-> Absent,  \* the document it writes
         fd |-> "none",   \* what has become of the file it opened
         left |-> {},     \* what it has still to remove
         (* A history variable: no step depends on it. *)
         rival |-> FALSE] \* whether another one was at the same documents

Init ==
    /\ world \in Worlds
    /\ dir = IF world.tenant THEN "host" ELSE "none"
    /\ memory = IF world.collector THEN OneHost ELSE {}
    /\ disk = [f \in Files |->
                  CASE f = "meta" /\ world.tenant -> NewTenant(1)
                    [] f = "users"                -> NoUsers
                    [] OTHER                      -> Absent]
    /\ tmp = [f \in Files |-> Absent]
    /\ thr = [t \in Threads \union {Collector} |-> Idle]
    /\ requests = 0 /\ crashes = 0

----------------------------------------------------------------------------
(* A request up to where it has its documents.                             *)

MayStart(r) ==
    /\ r.op # "create" /\ r \notin UserWrites /\ r.op # "login" =>
          dir # "none"
    /\ r.op = "create" => dir = "none"

\* Who is at the same documents.
Rivals(t, r) == {u \in Threads \ {t} : /\ Group(r) # "none"
                                       /\ Group(thr[u].req) = Group(r)}

Started(r, met) ==
    [Idle EXCEPT !.req = r, !.todo = Reads(r), !.rival = met,
                 !.pc = CASE r.op = "create" -> "mkdir"
                          [] r.op \in {"delete", "remove_host"} -> "remove"
                          [] OTHER           -> "stat"]

Begin(t, r) ==
    /\ thr[t].pc = "idle" /\ requests < world.requests
    /\ r \in world.ops /\ MayStart(r)
    /\ requests' = requests + 1
    /\ thr' = [u \in DOMAIN thr |->
                 IF u = t THEN Started(r, Rivals(t, r) # {})
                 ELSE IF u \in Rivals(t, r)
                 THEN [thr[u] EXCEPT !.rival = TRUE] ELSE thr[u]]
    /\ UNCHANGED <<world, dir, disk, tmp, memory, crashes>>

\* What a reader makes of a file that is missing or that it cannot parse.
Unread(f) == IF f = "host" THEN EmptyHost ELSE Null

Have(t, f, doc) ==
    thr' = [thr EXCEPT ![t].got[f] = doc, ![t].todo = Tail(@),
                       ![t].seen = Absent,
                       ![t].pc = IF Len(thr[t].todo) = 1 THEN "act"
                                 ELSE "stat"]

\* The size of the file; without a file there is nothing to read.
Stat(t) ==
    /\ thr[t].pc = "stat"
    /\ LET f == Head(thr[t].todo) IN
       IF disk[f] = Absent THEN Have(t, f, Unread(f))
       ELSE thr' = [thr EXCEPT ![t].pc = "read", ![t].seen = disk[f]]
    /\ UNCHANGED <<world, dir, disk, tmp, memory, requests, crashes>>

\* open, lock and read.  If the file was replaced since, what is read has
\* the wrong length, and need not parse.
Read(t) ==
    /\ thr[t].pc = "read"
    /\ LET f == Head(thr[t].todo)
           whole == disk[f] \notin {Absent, Torn}
       IN \/ whole /\ Have(t, f, disk[f])
          \/ ~whole /\ Have(t, f, Unread(f))
          \/ disk[f] # thr[t].seen /\ Have(t, f, Unread(f))
    /\ UNCHANGED <<world, dir, disk, tmp, memory, requests, crashes>>

----------------------------------------------------------------------------
(* The end of the API process, of itself or by a request.                  *)

\* Whether there is the directory of a file.
Room(f) == CASE f = "users" -> TRUE
             [] f = "host"  -> dir = "host"
             [] OTHER       -> dir # "none"

Restart == thr' = [t \in DOMAIN thr |-> IF t \in Threads THEN Idle ELSE thr[t]]

\* A NULL document may be found out when its new file is open already.
GoDown(t) ==
    /\ Restart
    /\ \/ UNCHANGED tmp
       \/ /\ Target(thr[t].req) # "none" /\ Room(Target(thr[t].req))
          /\ tmp' = [tmp EXCEPT ![Target(thr[t].req)] = Torn]

Crash ==
    /\ crashes < world.crashes
    /\ crashes' = crashes + 1
    /\ Restart
    /\ UNCHANGED <<world, dir, disk, tmp, memory, requests>>

----------------------------------------------------------------------------
(* The change, and the file that replaces the old one.                     *)

Act(t) ==
    /\ thr[t].pc = "act"
    /\ LET r == thr[t].req
           got == thr[t].got
       IN \/ GoesDown(r, got) /\ GoDown(t)
          \/ /\ ~GoesDown(r, got)
             /\ Refused(r, got) \/ Target(r) = "none"
             /\ thr' = [thr EXCEPT ![t] = Idle]
             /\ UNCHANGED tmp
          \/ /\ ~GoesDown(r, got) /\ ~Refused(r, got) /\ Target(r) # "none"
             /\ thr' = [thr EXCEPT ![t].pc = "open",
                                   ![t].new = Change(r, got)]
             /\ UNCHANGED tmp
    /\ UNCHANGED <<world, dir, disk, memory, requests, crashes>>

\* localdb_create_tenant: the directory, which another one may have made
\* since it was found missing.
Mkdir(t) ==
    /\ thr[t].pc = "mkdir"
    /\ \/ /\ dir' = IF dir = "none" THEN "tenant" ELSE dir
          /\ thr' = [thr EXCEPT ![t].pc = "open",
                                ![t].new = Change(thr[t].req, thr[t].got)]
       \/ /\ dir # "none" /\ UNCHANGED dir
          /\ thr' = [thr EXCEPT ![t] = Idle]
    /\ UNCHANGED <<world, disk, tmp, memory, requests, crashes>>

\* Mutant: a file that is there is not opened.
OpenTmpExclusive(t) ==
    LET f == Target(thr[t].req) IN
    IF tmp[f] # Absent
    THEN /\ thr' = [thr EXCEPT ![t] = Idle]
         /\ UNCHANGED tmp
    ELSE /\ tmp' = [tmp EXCEPT ![f] = Torn]
         /\ thr' = [thr EXCEPT ![t].pc = "dump", ![t].fd = "tmp"]

\* fopen ("w") empties a file that is there, whoever else has it open.  No
\* handler looks at whether it could be opened.
OpenTmp(t) ==
    LET f == Target(thr[t].req) IN
    \/ /\ ~Room(f)
       /\ thr' = [thr EXCEPT ![t] = Idle]
       /\ UNCHANGED tmp
    \/ /\ Room(f)
       /\ tmp' = [tmp EXCEPT ![f] = Torn]
       /\ thr' = [thr EXCEPT ![t].pc = "dump", ![t].fd = "tmp"]

Open(t) ==
    /\ thr[t].pc = "open"
    /\ OpenTmp(t)
    /\ UNCHANGED <<world, dir, disk, memory, requests, crashes>>

\* The other writers of a file.
Sharing(t) == {u \in DOMAIN thr \ {t} :
                  /\ Target(thr[u].req) = Target(thr[t].req)
                  /\ thr[u].fd = thr[t].fd}

\* What is in a file after a document was written from its start: of two
\* documents in one file the longer keeps its tail.
Over(t, old) ==
    IF old = Torn /\ Sharing(t) = {} THEN {thr[t].new}
    ELSE {thr[t].new, Torn}

\* var_dump and fclose, to where the file it opened now is.
Dump(t) ==
    /\ thr[t].pc = "dump"
    /\ LET f == Target(thr[t].req) IN
       \/ /\ thr[t].fd = "tmp"
          /\ \E doc \in Over(t, tmp[f]) : tmp' = [tmp EXCEPT ![f] = doc]
          /\ UNCHANGED disk
       \/ /\ thr[t].fd = "file"
          /\ \E doc \in Over(t, disk[f]) : disk' = [disk EXCEPT ![f] = doc]
          /\ UNCHANGED tmp
       \/ /\ thr[t].fd = "gone"
          /\ UNCHANGED <<disk, tmp>>
    /\ thr' = [thr EXCEPT ![t].pc = "rename"]
    /\ UNCHANGED <<world, dir, memory, requests, crashes>>

Moved(fd) == CASE fd = "tmp" -> "file" [] fd = "file" -> "gone" [] OTHER -> fd

\* Mutant: the new file is copied over the old one, which a crash may cut.
RenameByCopy(t) ==
    LET f == Target(thr[t].req) IN
    /\ disk' = [disk EXCEPT ![f] = IF @ = Torn THEN tmp[f] ELSE Torn]
    /\ tmp' = IF disk[f] = Torn THEN [tmp EXCEPT ![f] = Absent] ELSE tmp
    /\ thr' = IF disk[f] = Torn THEN [thr EXCEPT ![t].pc = "answer"] ELSE thr

\* What becomes of the files that are open under the name f.
Elsewhere(t, f, To(_)) ==
    [u \in DOMAIN thr |->
        IF u # t /\ Target(thr[u].req) = f
        THEN [thr[u] EXCEPT !.fd = To(@)] ELSE thr[u]]

\* rename, which fails when another one has taken or removed the file.
RenameTmp(t) ==
    LET f == Target(thr[t].req) IN
    IF tmp[f] = Absent
    THEN /\ thr' = [thr EXCEPT ![t].pc = "unlink", ![t].fd = "none"]
         /\ UNCHANGED <<disk, tmp>>
    ELSE /\ disk' = [disk EXCEPT ![f] = tmp[f]]
         /\ tmp' = [tmp EXCEPT ![f] = Absent]
         /\ thr' = [Elsewhere(t, f, Moved) EXCEPT
                       ![t].pc = "answer", ![t].fd = "none"]

Rename(t) ==
    /\ thr[t].pc = "rename"
    /\ RenameTmp(t)
    /\ UNCHANGED <<world, dir, memory, requests, crashes>>

\* After a rename that failed the file goes, whose ever it is now.
NoTmp(fd) == IF fd = "tmp" THEN "gone" ELSE fd
NoFile(fd) == IF fd = "file" THEN "gone" ELSE fd

Unlink(t) ==
    /\ thr[t].pc = "unlink"
    /\ LET f == Target(thr[t].req) IN
       /\ tmp' = [tmp EXCEPT ![f] = Absent]
       /\ thr' = [Elsewhere(t, f, NoTmp) EXCEPT ![t] = Idle]
    /\ UNCHANGED <<world, dir, disk, memory, requests, crashes>>

Answer(t) ==
    /\ thr[t].pc = "answer"
    /\ thr' = [thr EXCEPT ![t] = Idle]
    /\ UNCHANGED <<world, dir, disk, tmp, memory, requests, crashes>>

----------------------------------------------------------------------------
(* Removal of the tenant or of its host.                                   *)

There(f) == disk[f] # Absent \/ tmp[f] # Absent

Scope(r) == IF r.op = "delete" THEN Files \ {"users"} ELSE {"host"}

\* What localdb_remove_dir finds: files, those to be renamed, the host's
\* directory.
Found(r) ==
    {<<"file", f>> : f \in {g \in Scope(r) : disk[g] # Absent}}
    \union {<<"tmp", f>> : f \in {g \in Scope(r) : tmp[g] # Absent}}
    \union {e \in {<<"dir", "host">>} : dir = "host"}

StartRemoval(t) ==
    /\ thr[t].pc = "remove"
    /\ thr' = [thr EXCEPT ![t].pc = "removing",
                          ![t].left = Found(thr[t].req)]
    /\ UNCHANGED <<world, dir, disk, tmp, memory, requests, crashes>>

\* In the order of the directory, which may or may not give files that came
\* later.
RemoveFile(t) ==
    /\ thr[t].pc = "removing"
    /\ \E f \in Scope(thr[t].req) :
          \/ /\ <<"file", f>> \in thr[t].left \union Found(thr[t].req)
             /\ disk' = [disk EXCEPT ![f] = Absent]
             /\ thr' = [Elsewhere(t, f, NoFile) EXCEPT
                           ![t].left = @ \ {<<"file", f>>}]
             /\ UNCHANGED tmp
          \/ /\ <<"tmp", f>> \in thr[t].left \union Found(thr[t].req)
             /\ tmp' = [tmp EXCEPT ![f] = Absent]
             /\ thr' = [Elsewhere(t, f, NoTmp) EXCEPT
                           ![t].left = @ \ {<<"tmp", f>>}]
             /\ UNCHANGED disk
    /\ UNCHANGED <<world, dir, memory, requests, crashes>>

\* rmdir of the host's directory; if it is not empty nothing else goes.
RemoveHostDir(t) ==
    /\ thr[t].pc = "removing"
    /\ thr[t].left \intersect ({"file", "tmp"} \X {"host"}) = {}
    /\ <<"dir", "host">> \in thr[t].left
    /\ \/ /\ There("host")
          /\ thr' = [thr EXCEPT ![t] = Idle]
          /\ UNCHANGED dir
       \/ /\ ~There("host")
          /\ dir' = IF dir = "host" THEN "tenant" ELSE dir
          /\ thr' = [thr EXCEPT ![t].left = @ \ {<<"dir", "host">>}]
    /\ UNCHANGED <<world, disk, tmp, memory, requests, crashes>>

\* localdb_remove_host goes on with the overview; localdb_remove_tenant
\* ends with the tenant's directory, if it is empty.
EndRemoval(t) ==
    /\ thr[t].pc = "removing" /\ thr[t].left = {}
    /\ \/ /\ thr[t].req.op = "remove_host" /\ dir # "none"
          /\ thr' = [thr EXCEPT ![t].pc = "stat"]
          /\ UNCHANGED dir
       \/ /\ thr[t].req.op = "remove_host" /\ dir = "none"
          /\ thr' = [thr EXCEPT ![t] = Idle]
          /\ UNCHANGED dir
       \/ /\ thr[t].req.op = "delete"
          /\ dir' = IF dir = "host" \/ \E f \in Scope(thr[t].req) : There(f)
                    THEN dir ELSE "none"
          /\ thr' = [thr EXCEPT ![t] = Idle]
    /\ UNCHANGED <<world, disk, tmp, memory, requests, crashes>>

----------------------------------------------------------------------------
(* The collector.                                                          *)

\* A record of a host that has no directory makes one.
HostReports ==
    /\ dir = "tenant"
    /\ dir' = "host"
    /\ UNCHANGED <<world, disk, tmp, thr, memory, requests, crashes>>

\* overviewthread_run writes what is in memory, every minute.
OverviewRound ==
    /\ world.collector /\ dir # "none"
    /\ thr[Collector].pc = "idle"
    /\ thr' = [thr EXCEPT ![Collector] =
                 [Idle EXCEPT !.req = Overview(memory), !.pc = "open",
                              !.new = memory]]
    /\ UNCHANGED <<world, dir, disk, tmp, memory, requests, crashes>>

\* The watcher drops a host that has gone.
Forget ==
    /\ memory # {}
    /\ memory' = {}
    /\ UNCHANGED <<world, dir, disk, tmp, thr, requests, crashes>>

----------------------------------------------------------------------------

Step(t) == \/ Stat(t) \/ Read(t) \/ Act(t) \/ Mkdir(t) \/ Open(t) \/ Dump(t)
           \/ Rename(t) \/ Unlink(t) \/ Answer(t) \/ StartRemoval(t)
           \/ RemoveFile(t) \/ RemoveHostDir(t) \/ EndRemoval(t)

Next ==
    \/ \E t \in Threads : \E r \in world.ops : Begin(t, r)
    \/ \E t \in Threads \union {Collector} : Step(t)
    \/ HostReports \/ OverviewRound \/ Forget \/ Crash

\* The collector's thread goes on whatever the API does, whose threads are
\* scheduled too.
Fairness == /\ WF_vars(OverviewRound) /\ WF_vars(Step(Collector))
            /\ \A t \in Threads : WF_vars(Step(t))

Spec == Init /\ [][Next]_vars /\ Fairness

----------------------------------------------------------------------------
(* Properties                                                              *)

\* Whatever the API was doing when it stopped, and whoever reads meanwhile,
\* a request that has the documents it changes to itself takes effect in one
\* step and once, or not at all, and is not answered before; a removal that
\* is cut short has taken whole files.  Of requests that meet at the same
\* documents it says that they spoil no others.
Abstract == INSTANCE AtomicStore WITH
    Clients <- Threads,
    files <- [f \in {"meta", "host", "users"} |-> disk[f]],
    doing <- [t \in Threads |->
                [req |-> thr[t].req, rival |-> thr[t].rival,
                 done |-> thr[t].pc = "answer"
                            /\ thr[t].req.op # "remove_host"]]
RequestsAreAtomic == Abstract!Spec

\* The API and the collector write the overview through one and the same
\* file: it may be torn, but is what the collector has in memory again before
\* long, and a removed host does not linger in it.
OverviewHeals == world.collector => <>[](disk.overview = memory)
=============================================================================
