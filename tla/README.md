# A TLA+ model of opticon

Opticon monitors hosts. An *agent* on every host measures and sends encrypted
UDP packets; a *collector* authenticates them, keeps the hosts of every tenant
in memory, judges their health, sends notifications and writes records to a
local database; an *API server* reads that database for a command line client
and a web client, and changes the metadata of tenants and hosts. This directory
holds TLA+ modules for the parts that are hard to test, the TLC runs that check
them on small instances, and TLAPS proofs, for every instance, about the packet
queue, the session protocol, the locks of tenants and hosts, the agent's loop,
the record files, the reaper, the watcher's badness and notifications, the API's
sessions and rights, and what its requests do to the documents.

Paths below are relative to the repository's `src/src/` unless they begin with
`docs/` or are the name of a document. `PROJECT.json` maps every definition to
the source lines it models and lists runs, mutants, hazards and theorems.

## 1. Inventory

| component | state | operations | correct when |
|---|---|---|---|
| conditionals (`libopticon/thread.c`) | a counter of signals and a pthread condition | `conditional_signal`, `conditional_wait`, `conditional_wait_fresh` | a signal that must be seen is not lost |
| packet queue (`packetqueue.c`) | ring of packet slots, `rpos`, `wpos`, conditional | `packetqueue_run` (producer), `packetqueue_waitpkt` (consumer) | packets in order and once, slots read are not written, nobody sleeps on a packet |
| sessions (`auth.c`) | table of sessions by (network id, session id); `sessions.json` | find, register, renew, expire, save, restore | the key in use is the newest, replays are turned down |
| packet wrapping (`pktwrap.c`, `aes.c`) | the agent's serial | wrap and unwrap, replay window of the decryption | packets out of time or with the wrong key are turned down |
| agent send loop (`opticon-agent/main.c`) | next slow and fast round, key and its age | slow round (auth packet), fast round (meters), pulses | what is measured goes out; serials rise |
| agent probes and resender (`probelist.c`, `resender.c`) | `vcurrent`, `vold`, `lastreply`; a packet buffer | run, swap, wait for a pulse; wait, toss a coin, send again | data in use are not freed; what is resent is whole |
| packet handlers (`opticon-collector/main.c`) | tenants, hosts, sessions | `handle_auth_packet`, `handle_meter_packet` | meters are applied in the order of measurement |
| tenants and hosts (`tenant.c`, `host.c`) | lists of tenants and hosts, a read-write lock on each level | find, create, first, next, relock, delete | no deadlock, nobody stands at a freed host |
| meters, import, codecs (`meter.c`, `host_import.c`, `codec_pkt.c`, `codec_json.c`) | a list of typed arrays per host | import a report, encode, decode over what is there, time out, JSON | what is shown is what was reported, nobody reads past a meter's cells |
| watcher and overview threads (`watcher.c`, `watchlist.c`, `adjust.c`) | badness, status and problems of hosts | a round each per minute | the status follows the condition of the host |
| summaries (`summary.c`) | definitions and samples per tenant | start, add a meter, tally | of one round, over all hosts |
| notifications (`notify.c`, `tenant.c`) | a linked list per tenant | create, link, remove, find, check | each trouble and each recovery is told |
| ping (`ping.c`) | list of targets, a ring of results each | ask, send, receive, expire | the loss shown agrees with the network |
| reaper (`opticon-collector/main.c`) | a quota, carried from tenant to tenant | a round over all tenants: add up usage, remove stale hosts, cull days | only tenants over quota lose days, and only days that are over; the round ends |
| daemon and reloader (`daemon.c`, `opticon-collector/main.c`, `var.c`, `react.c`) | watchdog, child, configuration with generations, settings | signals, respawn, reload, reactions | a SIGTERM ends it, a SIGHUP puts the file in force |
| variables and parser (`var.c`, `var_parse.c`) | trees of linked nodes, each with its last looked-up child | parse, look up, set, copy, merge, clone, free | a tree can be walked every way and finds the same; a copy is one |
| ioports (`ioport.c`, `ioport_buffer.c`) | a buffer with its read and write position, a byte in bits | write and read bits, integers, fractions, strings, bytes | what was written is read |
| local database (`libopticondb/db_local.c`) | per host and day a `.db` and an `.idx` file, `current.db`, locks; documents; log, graphs | save, read, delete, list, usage; replace a document | a read finds the whole record that was saved last up to the time asked for, after a crash as well; documents change whole |
| API server (`opticon-api`) | match list, token cache, sessions | match, authenticate, ask the provider, handlers | nobody gets what the provider did not grant; every request reaches its handler; a request that meets no other changes a document in one step |
| command line client (`opticon-cli`) | a token file | validate, log in, one request per command | a bad token does not lock its user out |
| web client (`opticon-gui/webroot`) | page, timer, dialog, token, requests under way | route, refresh, retry, log in | the page shown is the one asked for, and is kept up to date |
| platform probes, updater, libhttp, packaging | - | - | not modelled (section 6) |

**Interaction.** The agent's threads share a probe's data and the resender's
buffer; the agent and the collector exchange datagrams that the network may
lose, repeat, delay and reorder. In the collector the queue thread receives
packets, the main ("packet") thread dispatches them, and the watcher, overview,
reaper, reloader and ping threads run beside it. They share the tenant list,
the tenants and the hosts (read-write locks), the watchlists, summaries and
notification lists (one mutex each) and the database. The API server meets the
collector only through the database, where both write the overview; it has a
thread per connection, which share the token cache, the sessions and the files.
The clients know the API server by the urls and keys of its requests.

**What is hard.** Lock-free reading of ring slots; a hand-made counting
conditional; serials, keys and timestamps that must survive reordering and
restarts of either side; walks over lists whose elements another thread frees;
a status computed from a badness that is capped, decays and recovers; unlocked
publication of probe data and of ping results; meters that change type and
length under their readers; a configuration tree that is loaded over itself;
files replaced through temporary names that several writers share; replies that
come after the user has gone on. `PROJECT.json` lists these as hazards, at
their lines.

## 2. The modules

| module | models | composed with |
|---|---|---|
| `Conditional` | `thread.c`: the conditional as a record and its three operations | used by `PacketQueue`, `AgentLoop`, `Daemon` |
| `PacketQueue` | producer, ring, consumer, dispatch loop | extends `Conditional` |
| `PacketQueue_proofs` | theorems about `PacketQueue` | |
| `SessionDB` | `auth.c`: the session table as operators | used by `SessionProtocol` |
| `SessionProtocol` | agent, network, collector, `sessions.json`, restarts | extends `SessionDB` |
| `SessionProtocol_proofs` | theorems about `SessionProtocol`: order, keys, serials | |
| `TenantLocks` | lists, locks, objects; packet, watcher and overview thread | |
| `TenantLocks_proofs` | theorems about `TenantLocks`: locks, deadlock, walks | |
| `AgentLoop` | the agent's main loop, a probe, the resender | extends `Conditional` |
| `AgentLoop_proofs` | theorems about `AgentLoop`: hand-overs, timing, resends | |
| `Meters` | import, meters of a host, packet and JSON codec, as operators | used by `HostMeters` |
| `Summaries` | `summary.c`, as operators | extends `Meters` |
| `HostMeters` | packets, metadata, watcher rounds and summaries over the meters of hosts | extends `Summaries` |
| `HostStatus` | `watchthread_handle_host` with `calculate_badness`: the status | |
| `NotifyList`, `Notify` | `notify.c`, pointer by pointer; the threads that use it | `Notify` extends `NotifyList` |
| `Ping` | `ping.c`: targets, sender, receivers | |
| `LocalDB` | the record files of a host: writer, reader, deletion of days, crash | |
| `LocalDB_proofs` | theorems about `LocalDB`: files, index, the search | |
| `Vars` | `var.c` and the levels of `var_parse.c`: trees of nodes in a heap | |
| `IOPort` | `ioport.c` over `ioport_buffer.c`: what packets and records are encoded with | |
| `Reaper` | `reaper_run` over the records of all tenants, the watcher and the API beside it | |
| `Collector_proofs` | theorems about `Reaper`, `HostStatus` and `Notify`: quotas, badness, notifications | |
| `Daemon` | watchdog, child, reloader, configuration | extends `Conditional` |
| `ApiRoutes` | the match list and what a url reaches | used by the next two |
| `ApiServer` | authorisation, token cache, sessions, provider | extends `ApiRoutes` |
| `ApiClients` | the requests of both clients, their keys and the handlers' | extends `ApiRoutes` |
| `ApiAccess` | the server with `opticon-cli` and others | extends `ApiServer`, `ApiClients` |
| `ApiAccess_proofs` | theorems about sessions, rights, the locked out user and the routes of `ApiAccess` | |
| `ApiHandlers` | what handlers do to documents, as operators | used by the next two |
| `AtomicStore` | what the API promises of its documents | extends `ApiHandlers` |
| `ApiStore` | handlers, files, overview writer, crash; implements `AtomicStore` | extends `ApiHandlers` |
| `ApiStore_proofs` | that `ApiStore` implements `AtomicStore` | |
| `WebApp` | the web client with its server | |
| `MC...` | instances for TLC; `MCWatcher`, `MCReaper`, `MCReports`, `MCWebApp` and `MCLocalDB` hold several models that share no variable, of which a behaviour runs one | |

Definitions that model a function have its name where there is one; a function
that is several steps for other threads (a lock taken, a lock given back, an
unlocked write) is one action per step, named for what the step does. A
definition introduced by "Mutant:" is a plausible wrong version of the one
after it; no specification uses it. Variables listed after "History variables"
record the past for the properties; no guard reads them except to bound a run.

Abstractions that apply throughout: packets, keys, data and host objects are
numbers in the order of their creation; logging and formatting are left out;
times are counted in units that keep the order of the code's constants and not
their values (each constant's comment gives the code's value).

### Conditional and PacketQueue

`conditional_signal` adds to `queue` and wakes the sleeper; `conditional_wait`
takes a queued signal or sleeps; `conditional_wait_fresh` first forgets queued
signals. The mutex makes each one step, and the return from
`pthread_cond_wait` a step of its own (`wakeup`), which a spurious return takes
too. `queue` goes negative as in the code.

`Receive` puts a packet in the slot at `wpos` without a lock, `Publish` moves
`wpos`, `Signal` signals. A failed receive (`recvfrom` returns -1, stored in
a `size_t`) is published like a packet, and only a slot whose first byte is 0
gives it away: `phantoms`. The consumer's `Check`, `Wait`, `Wake` and `Take` are
`packetqueue_waitpkt`; `Dispatch` and `Finish` the loop of `daemon_main`, which
clears the first byte when it is done. `MaxBacklog` is the traffic: how many
packets may be waiting. The code has no check of its own that would bound it.

### SessionDB and SessionProtocol

One agent with several lives (restarts, each with a session id of its own), a
network that keeps a datagram for up to `MaxDelay` and delivers it any number of
times, and the collector. `HandleAuth` is `handle_auth_packet` up to the save,
`Save` is `localdb_set_global` (which may fail, leaving the old file),
`HandleMeter` is `handle_meter_packet`. `CollectorRestart` loses what is in
memory, at any moment, between those two as well. The agent's key rotation, its
slow and fast rounds and the skew of its clock are parameters. Decryption is
modelled by what it checks: the right key and a timestamp within `Window`.

### Meters, Summaries and HostMeters

`Meters` has the functions on a host's meters as operators: `host_import` makes
the entries of a packet of a probe's report, `pktcodec_decode_host` writes them
over the list (`meter_setcount` with its shortcut for the counts 30 and 31 that
mean an empty value and an empty array), `host_end_update` removes what has not
been sent for `MeterTimeout` unless the host is STALE, `jsoncodec_encode_host`
makes of it what the API sends. `Summaries` has those of `summary.c`.

`HostMeters` puts them into the steps of the collector: `Packet` is
`handle_meter_packet` under the host's lock, `Reload` the host's metadata with
its adjusted limits, `WatchRead` the watcher's read of `host->first` before it
has the lock (`WatchReadInterrupted` when that meter goes meanwhile),
`WatchHost` its visit with the problems it lists and the samples it adds,
`WatchSummaries` the tally, `Restart` the collector's restart from the last
record. `world` is the agent: the reports it may send, in any order.

### NotifyList and Notify

The list is a record with `first`, `last` and a memory of slots with `prev` and
`next`, because what goes wrong in it goes wrong in the pointers. `Watch` is the
end of a watcher's visit, which calls `tenant_set_notification` if the status
changed; `tenant_check_notification` is the overview thread's step.

### HostStatus

A round computes the badness that the matching watchers add, applies the caps,
the recovery and the decay, and derives the status. How many elements of a meter
match a watcher is the input (`HitCounts`); badness is counted in half points,
as the factors of the code make them. The tenant's watchers come and go
(`watchlist_populate`), and those of a meter replace the global ones.

### TenantLocks

A step is one lock operation with the work up to the next. `Wants` says which
lock a thread at a place takes next, and the enabling condition of every step is
that the lock is free. Hosts are objects that may be allocated, listed, pointed
to by a session and freed. The leaf mutexes (watchlists, summary, notifications)
are left out: nothing else is taken while one is held. The reaper's debug dump
walks the tenants in the lock order of the overview thread and is left out for
that reason; `tenant_delete` has no caller.

### AgentLoop

The main loop's round from `TopOfLoop` to `EndOfLoop`, a probe's `probe_run`
and the resender's `authresender_run`. The part of `probe_run` that holds
`vlock` is one step, the two unlocked writes after it (`vcurrent`, `lastreply`)
a step each. The unlocked copy into the resender's buffer is two steps with the
buffer `Mixed` between them.

### Ping

One address. The list of targets has a mutex and is one step per operation; a
target's ring, cursor and sequence are written without one, so the sender and
the two receivers take a step per assignment. `Change` is the network, which
answers in time, late and twice, or not at all; `Minutes` makes a target that
nobody asks for go.

### LocalDB

The `.db` and `.idx` file of a day are sequences, `dbname` and `idxname` say
which still have a name, `current` and `curnew` what `current.db` and
`current.db.new` hold. A record is known by its time. `localdb_save_record` is
one action from each step another process can see to the next: open, lock, write
into buffers (a long record reaches the file in part, `Torn`), unlock, and the
three `fclose`s, which is where buffered data reach the files; the unlock comes
first. `localdb_get_record` opens, waits for the lock and searches
(`localdb_find_index`, arithmetic and scans as in the code). `Crash` may come
between any two steps. Positions count pieces of the file instead of bytes. Time
does not pass during a save (`Tick` waits for the writer): the watcher saves a
host once a minute. Which day the reaper deletes is taken from what `Reaper`
shows it decides.

### Vars

The heap is an array of nodes; what is freed is used again at once, so that a
link to a freed node shows as a child that does not belong. Two documents: one
is parsed (`ParseBegin`, `ParseInDict`, `ParseInArray`, `ParseEnd` are what the
parser does between two tokens; `level` is its stack) and read by index, the
other edited as the API edits metadata (`EditKey`), given copies of parts of the
first (`TakeOver`, as `resolve_tenantkey` does) and freed in part. `call` is
what the last call was given, for the property. `MCView` takes nodes for alike.

### IOPort

A byte is the set of its bits. `WriteItem` is one of the `ioport_write_...`
functions, `ReadItem` the one that reads it, `Send` the end of a packet, whose
buffer is then read from the start. Fractions are in units of 1/65280, which
both 255ths and 256ths are whole in.

### Reaper

Records are sets of times per tenant and host, a byte each. `OpenTenant`,
`CheckHost`, `db_remove_host`, `Cull` and `Again` (`--i`) are the stages of
`reaper_run`; `quota` keeps its value between tenants as the variable of the
code does, and is multiplied modulo `Width`. The watcher's saves and the API's
creation and removal of tenants come in between. `Unreadable` are the tenants
without a readable metadata file, for which `quota` keeps what it had. What
removing a host does to the list of deleted hosts and the overview is left out.

### Daemon

The watchdog forks the service with what it has itself in memory, waits for it
and forwards signals (`watchdog_sighandler`). The service waits for a SIGHUP in
`conditional_wait_fresh`, loads the file over its configuration in memory (up to
the first error, where there is one) and calls the reactions for what
`UpdateType` says has changed. A configuration node has the generation it was
first seen, last changed and last met in, as `var.c` keeps them. A deed is an
edit of the file, a crash or a signal.

### ApiRoutes, ApiClients, ApiServer and ApiAccess

`ApiRoutes` has the list `setup_matches` builds and `Accepts`, which is
`req_match_check`: the fields of a url against those of a pattern, with `%U`,
`%T`, `%i`, `%S`, `%s` and `*`. Routes a request reaches are found as
`req_matchlist_dispatch` does it: filters let it pass, the first other match
answers. `ApiClients` lists the requests of the two clients with the keys they
send and read, and the keys the handlers read and send.

`ApiServer` follows a request through `flt_check_validuser`: the lookup in the
token cache (the clearing of a stale node under the read lock is two steps, and
a reader may copy the node between them), expiry, the question to the provider,
and the eviction that makes room for the answer. The provider grants and
revokes. With internal authentication `authsession_find` gives the
session back after its unlock, so finding and using it are two steps.
`ApiAccess` adds a user of `opticon-cli` with the token file: an action is a run
of the program up to its next request. The process may stop at any
moment, which loses the cache and the sessions; the double free of two clearings
is such a stop.

### ApiHandlers, AtomicStore and ApiStore

`ApiHandlers` has each handler's change as a function from documents to
documents, which of them refuse and which take the process down. `ApiStore`
performs a request on the files: `Stat`, `Read`, `Act`, `Mkdir`, `Open`, `Dump`,
`Rename` (or `Unlink`, where the document cannot be written), `Answer`; and the
removals file by file (`StartRemoval`, `RemoveFile`, `RemoveHostDir`,
`EndRemoval`). A file opened for writing is emptied whoever else has it open,
and `fd` follows what becomes of it when another writer renames or removes it.
The collector's overview thread goes through the same steps (`HostReports` is
what it writes about). `Crash` may come between any two of them, in the creation
and the removal of a tenant too.

Nothing puts the API's threads in order, so any two requests may meet at the
same documents (`Group`: a tenant's, with its hosts', or the users). The history
variable `rival` of a thread says that its request has met another one there. In
`AtomicStore` a request that has met none reads and changes its document in one
step (`Apply`), once, before its answer, or was refused; a removal takes the
documents one by one (`Remove`) and is answered when all have gone; a crash
loses what is under way and touches no document. Requests that have met are
promised nothing, and may leave anything where they met, but only there
(`Interfere`). `RequestsAreAtomic` is its specification under a refinement
mapping: the documents are the files and the step is the rename; whatever comes
before and after it stutters.

### WebApp

An action is an event of the browser: a reply, a timer, a changed address, a
click. The objects of the scripts are the record `app`; requests under way are a
set, answered in any order. `setBackground`, `ShowDialog`, `handle`, `go` and
the two pages' `activate` are operators on `app`, so that an event's handler is
their composition. The server loses and gets hosts and goes down, the token
expires, the user moves, removes a host, logs out and reloads; `MaxEvents`
counts these.

## 3. Runs

Twelve runs: nine that pass, for which TLC needs from seconds to a few minutes
each, and three that find the code at odds with what it says of itself. The
passing ones:

| run | question | instance | result |
|---|---|---|---|
| `web_app` | Does the page settle on what the server has? Is the ring safe without locks, and the counting conditional without lost signals? | two hosts, both kinds of users, two tries of a request, three things that happen; 3 slots, 6 packets (two wraps), backlog up to 2, a failed receive, a spurious wake-up | holds; 572 thousand states |
| `sp_report` | Do order, keys and serials survive the network and restarts? Does what a probe reports reach the readers, and do they stay inside? | two lives, one collector restart, delays longer than the replay window, expiry and two rotations; five agents with two to four meters each (paths, empty lists, lengths that change, a full host), silence, a restart | holds; 1.4 million states |
| `tl_walks` | Do the three threads' locks exclude, and never deadlock or leak; do walks stay on live hosts? | two hosts of one or of two tenants, three objects (so one is removed and returns) | holds; 2.1 million states (hosts are interchangeable: symmetry) |
| `ag_loop` | Are the agent's unlocked hand-overs safe? | a fast probe, two slow rounds, a resend, a spurious wake-up of the probe | holds; 4.6 million states |
| `wt_rounds` | Does the status settle on the level of a lasting condition, and what takes it past that; is trouble told; does the loss agree with the network? | two meters, none or three matches of each watcher, tenant watchers that come and go; one host, all statuses, a restart; one address, a ring of two results | holds; 343 thousand states |
| `ld_files` | Do index, records and `current.db` agree through crashes, and does the search find what it should? Are documents whole after any calls? Is what was written read? | two days of five units, records at any of the times, a long or a short one each, a crash, deletion; two documents of six nodes and two keys; packets of three values, the boundaries of each encoding | holds; 3.8 million states |
| `rp_round` | Does the reaper cull what it should and no more, and come to an end? Are signals obeyed? | a tenant of two hosts and one of none whose metadata cannot be read, three days, four records; two settings of two types, three deeds | holds; 291 thousand states |
| `api_access` | Are rights those the provider granted, sessions alive when used, and clients served? | two tokens of one hash, two threads, all three kinds of authentication, a crash | holds; 1.1 million states |
| `api_store` | Does a request change the database in one step, whatever else happens, and does a torn overview heal? | four worlds of two threads, each with a crash and with requests that meet: changes with readers, tenants that come and go, users, the collector beside a removal | holds; 670 thousand states |

What these say, property by property, is in the comments of the modules. Each
property has a mutant in `PROJECT.json`, a plausible bug that breaks it. The
type invariants (`TypeOK` of eight modules) and the strengthenings the proofs
need are not among the runs' properties; section 4 says which of them are proved
for every instance.

The runs that find the code at odds with what it says of itself:

| run | statement | what happens |
|---|---|---|
| `mt_cells` | "The provided data needs to be restricted to the allowed forms", among them `key:[value1,value2]` and `key:[]` (`host_import.c:82-90`) | a list that was empty is an integer; when it holds strings, `pktcodec_decode_host` (`codec_pkt.c:104`) allocates cells of an integer, takes the packet's type over after that, and writes strings into them. The agent's own `chkwarn` is such a list |
| `nt_links` | "Add a notification object to a notifylist." (`notify.c:102`) | `notifylist_link` (`notify.c:110`) does not move `last`: with three hosts of a tenant in trouble the third notification takes the second one's place, and no walk over the list comes by that any more |
| `rp_quota` | "If this is over the set quota, it starts culling days from the database starting at the earliest recorded date, until the tenant is under quota again." (`opticon-collector/main.c:576`) | where a tenant's metadata cannot be read, `quota` has the bytes of the tenant before and is multiplied once more (`opticon-collector/main.c:604`); at the second such tenant after another it wraps to 0 and a tenant with less than the default quota loses days |

Two forms of a report are left out of `sp_report`: the empty list that later
holds strings, which `mt_cells` is about, and an empty form of a meter that is
summed up (see the observations).

### Observations

What was met while modelling and has no run of its own. Some contradict a
comment or a document, which is quoted.

*Collector.* `session_register` leaves `lastserial` 0, so a second copy of the
packet that opened a session renews it, although `opticon-collector/main.c:303`
says "Discard replays"; `KeyIsNewest` shows that no older key comes back that
way. The serial of meter packets is kept in memory only, so after a restart the
last meter packet may be applied again. A tenant watcher for one level of a
meter switches off the default ones of all its levels (`watcher.c:218`), where
`API.md:436` says that "the watcher settings for the other two levels are
unaffected". The caps of `watcher.c:249` are tested before the round's badness
is added, so fifteen WARN matches in one round make a host CRIT; `NoOverreach`
says that nothing but a single round of 30 points or more does that. "Don't do
anything else if we're still in the same amount of trouble" (`tenant.c:236`):
`isproblem` of a notification never changes, so trouble after a recovery is
taken for the same trouble and not told; a recovery that passes through WARN
resets `notified` and then removes the notification, so it is not told either
(`tenant.c:243-247`). The watcher may free a stale host that the database does
not have while a session's "Connected host" (`auth.h:28`) points to it. With
locks that prefer writers (`WriterFirst = TRUE`), which POSIX allows and glibc
does not do by default, `NoDeadlock` fails.

*Queue and conditional.* With `MaxBacklog = QCount` the cursors meet and a full
queue is taken for an empty one (`RingInv` fails). After a spurious return of
`pthread_cond_wait` the counter is -1 and the next signal is swallowed
(`NoLostWakeup` excepts this case by `spurious = 0`). A spurious wake-up of the
resender late in the five minutes between slow rounds could send while the next
packet is copied (excluded in `AgentLoop`).

*Meters.* The level a host adjusts is never taken back before a restart.
`host_find_prefix` starts behind the first meter, so an empty array does not
empty a first meter of that prefix. A removed meter is never
linked into the trash, so nothing is ever freed from there. Default
watchers of an empty array look 31 times at no element. Of a meter that is
summed up and was sent in an empty form `summarydata_add` follows a `d` that is
NULL (`summary.c:131-157`); `ReadersStayInside` is about meters that are not
empty. After a restart the watcher's first round may replace the current record
by a STALE one. Summaries
after an incomplete definition are lost, the configuration's too.

*Ping.* The unlocked cursor lets a reply and a loss of one round fall into one
place. A reply whose low 16 bits are 0 counts without a ping, and a loss at the
start counts for the whole ring. These pass: `LossAgrees` says the loss is right
in the end.

*Variables and ports.* An index below zero finds nothing (`var.c:735`: the count
is added to its opposite), although "-1 and down for accessing from the last
item down" (`var.c:728`) is said of it. `var_delete_key` clears the remembered
child of the node it removes and not that of its parent (`var.c:1155`), so a
read by index after it could return the freed node. Nobody reads a document by
index that keys are deleted from, so in `Vars` the parsed document is read by
index and the other one edited. "Encode a 63 bits unsigned integer"
(`ioport.c:230`): the mask is shifted as a 32-bit integer, so that integers
above 35 bits lose their upper bits and a multiple of 2^36 writes no byte at all
(`Fits`).

*Daemon.* "Consequent calls with the same space will only communicate actual
changes" (`react.c:133`): the collector never calls `var_new_generation`, so
every reload reports everything as new, which also keeps a load that failed
half-way from hiding changes from the next one (`SignalsAreObeyed`; its mutant
is the generation the comment has in mind). A changed network address is
reported as new too, so `conf_network` does not make the process exit. A SIGHUP
during a reload is dropped. Signals that come while the watchdog forks, or
before the child has its handlers, are lost; a SIGTERM among them leaves the
service running, though the watchdog "will forward the signal (and recuse itself
from respawning in case of SIGTERM)" (`daemon.c:81-82`). A respawned service has
the settings of the watchdog's start.

*API.* No handler looks at what `db_set_metadata` returns. A handler that is
given no document (one that is being replaced or removed) may dereference NULL,
which takes the process down (`GoesDown`). `GET` of a host's watchers does so
for a watcher of a meter that nobody defined. A watcher's `DELETE` makes an
entry without a type where there was none. A crash within the creation or
removal of a tenant leaves a directory without metadata, whose tenant cannot be
created again (`db_open` finds the directory, and the answer is 409). Two
requests that change one document at a time share a temporary file, and the last
rename wins: one's change may be lost, also of settings the other one did not
mean to change, and the file torn. No document promises otherwise;
`RequestsAreAtomic` says that nothing but the documents they met at is affected.
`deleted.json` is read by nobody.

*Web client.* A reply to `resolveTenant` that comes when an administrator is
back at the list turns the timer to the host's page; two of them out of order
leave the page asking the wrong tenant. A host that was unknown when its page
was opened is not resolved again. In the first case the list is not refreshed
any more: `Agrees` speaks of a page that has the timer, and of an
administrator's list that has lost it it says nothing. `NormalError` is not
defined anywhere, `Logout` calls a function that does not exist (`main.js`), and
a dialog that is closed does not start the timer again until a page does.

### Why the bounds are enough

The ring's behaviour depends on positions modulo its size: six packets take both
cursors round twice, with every relative position of the two. The protocol's
cases are pairs: two lives, a packet from before and after a rotation, an
expiry, a restart; a third of each repeats one of them. In `TenantLocks` three
objects are needed for one to be removed and its host to return while another is
in the list. In `AgentLoop` the second slow round is the first that can overtake
a resend, and two intervals the first in which a dropped pulse shows.
`CHECK_DEADLOCK FALSE` is set because the bounded runs end (no more packets, no
more time); deadlock among threads is the property `NoDeadlock`. In `LocalDB`
five records in one day give the guess of the search every error it can have
with its divisor, before, between and after the records; one crash leaves one
torn piece, and a second would leave another of the same kind. In `Vars` six
nodes make a list of three under a root with a key beside it, or three levels;
in `IOPort` three values put each encoding behind and before each other. In
`Reaper` three days are needed for a second culling of the same tenant.
`SpinBound` in `web_app`: after a spurious wake-up the counter is negative and
the consumer polls, counting it further down; the run follows it to -3, and the
properties about waking up except that case anyway. In `HostMeters` lists have
up to `MaxArray` = 2 elements, so that one can shrink, empty and grow; each
agent of `MCWorlds` is there for a case: names shared with paths, lists that
empty and grow, a host with more meters than it may have, an address to ping,
three hosts to sum up. In `Ping` a ring of two and sequences of two bits wrap
within a few rounds. In `NotifyList` a third notification is the first that
takes another one's place. In `Daemon` three deeds give a half loaded file, its
repair and the signal. In `ApiServer` the cache has `NodeMax` = 2 nodes, so that
the second token evicts or collides; four units of time let a token time out and
be asked about again. In `ApiStore` a writer, a reader and a third request
between them show every overlap of two, rivals included; the creation of a
tenant needs a fourth to follow its removal. In `WebApp` `MaxRetry` = 2 has a
try and a last one, and three events an outage, its consequence and a user who
has gone on. Sequences of more events repeat these from a state that the
properties say is reached again.

### Fairness

`PacketQueue`: weak fairness of each thread's steps; the scheduler runs a thread
that can run, and neither thread waits for a condition that may flicker.
Receiving is not fair: there may be no more traffic. `Notify`: time passes and
the overview thread, a loop with a sleep, goes round. The watcher is not fair.
`HostStatus`: rounds go on (the watcher is a loop with a sleep); changes of
watchers and of conditions are not fair. `odd` changes with every round, so that
a round that finds nothing new counts as one. `Reaper`: the reaper's thread gets
to run; nobody else need. `Ping`: the sender and both receivers run and the
watcher goes round; the network is not fair, and `LossAgrees` is about a host
that has come to behave one way. `Daemon`: the watchdog, the starting child and
the reloader's thread run; users, signals and crashes are not fair. `ApiStore`:
the collector's overview thread goes round and every thread of the API that has
something to do does it; requests are not fair. `WebApp`: each kind of request
is answered in the end (by an error, where the server is down), the timers run
out, a server that is down comes back, and a user who is asked to log in does
so, and reloads where there is nothing else to do. What else users and the world
do is not fair. `MCWatcher`, `MCReaper` and `MCWebApp` state the fairness of
their models with one weak fairness condition for several actions, of which a
behaviour, being of one model, can take only one. `SessionProtocol`,
`TenantLocks`, `LocalDB`, `HostMeters`, `ApiAccess` and `AgentLoop` have safety
properties only. The timely scheduling that `AgentLoop` assumes is the guard of
`Tick`: the main loop is at most `MaxLate` behind with what it woke up for, and
the resender runs within a unit of time when it can.

## 4. Proofs

`PacketQueue_proofs` proves, for every ring size of at least 2 and every value
of the bounds:

* `TypeCorrect`: `Spec => []TypeOK`.
* `RingInvariant`, `SlotStaysIntact`, `DeliveredInOrderOnce`: the invariant
  `RingInv`, `SlotIntact`, and the action property `InOrderOnce`, assuming
  `MaxBacklog < QCount`, which the code relies on.
* `NoWakeupIsLost`: `Spec => []NoLostWakeup`, for any backlog.

`SlotIntact` and `InOrderOnce` are not inductive. `RingInv` is: `CursorInv` ties
the cursors to the counts (the distance from `rpos` to `wpos` is the backlog,
the slot in hand is the one before `rpos`); `ContentInv` says for every slot, by
its distance from `rpos`, which entry it holds: a waiting one, the one being
received, the one in hand, or nothing; `HistoryInv` says that whatever was taken
and not handled was a failed receive. Each of the three is preserved by every
action (`CursorStep`, `ContentStep`, `HistoryStep`); that the slot being
received into is not the slot in hand is where `MaxBacklog < QCount` is used.
`NoLostWakeup` needs `WakeupInv`: the counter equals the signals sent and not
consumed, and whenever the cursors differ either a signal is counted, the
sleeper is woken, the consumer is before its check, or the producer is about to
signal.

`Collector_proofs` proves four theorems: two about the reaper, one about the
watcher's badness and one about the notifications.

`OnlyOverQuotaIsCulled`, `Spec => CullsOverQuota`, holds for any tenants, hosts,
records and quotas, with and without metadata that can be read. `CullsOverQuota`
compares what the database holds, not what the reaper has added up, when a day
goes; it speaks of tenants whose metadata can be read and whose quota in bytes
fits the variable, whatever the tenants before have left there. `QuotaInv` says
what `quota` is worth while such a tenant is open (`Stands`: no more than it may
use, and exactly that if nothing wraps). `CountInv` is the other half: what was
added up is at most what there is of the hosts looked at (`Covered`), although
records are saved and tenants removed and created during the walk; where a
removal has made the sum too large nothing of the tenant is older than the round
(`Renewed`), so that no day is culled from it. A tenant whose metadata cannot be
read does lose days within its quota, which is `rp_quota`.

`NobodyStaysOverQuota`, `Spec => LeavesWithinQuota`, is the other direction,
equally without conditions on the constants: what a tenant whose metadata can be
read had in the database when the round began fits its quota when the reaper
goes on, or nothing of it is a day old, although the watcher saves records and
the API removes and creates tenants all the while. `SeenInv` is the reason: the
records from before the round of the hosts already looked at are no more than
`totalsz` and none of them is earlier than `earliest`. A save adds a record of
now, which is none from before the round (`PlaceInv` keeps the times in order);
a removed tenant has no records (`SaveRecord` is for tenants that are there);
looking at a host counts its records, which `Cardinality` over pairs of host and
time makes a sum of disjoint sets. The round ends for the tenant with the sum
within the quota or the earliest record too young. The width of the variable can
only make the quota smaller.

`ConditionsStayInTheirLevel`, `StatusSpec => NoOverreach`, assumes finitely many
meters and nothing of how many elements match. WARN problems take a host past
WARN, or ALERT problems past ALERT, only in a single round that adds 30 points
or more; smaller rounds never do, in whatever number (`RoundStep`: the caps are
30 points below the next threshold). What a round adds is a fold over the
watchers in force, a recursive function on sets; that it is a number
(`SumsAreNumbers`) is proved by hand, from a subset of smallest size for which
it is not.

`ListedStatusStaysCurrent`, `NotifySpec => []ListedStatusIsCurrent`, holds for
any hosts, statuses and addresses and for lists of any length, those included
that have lost notifications. `NotifyInv` is the invariant. `Sound` is the shape
of what the pointers make, whether it is the list it should be or not: they lead
to allocated notifications or nowhere. `Tells` is about those a walk comes by
(`Reach`): none of them is about a host that another one is about, and each has
the status of its host. It is inductive because what a walk does not come by is
never found again: links and removals make nothing reachable that was not
(`LinkReaches`, `RemoveReaches`), so a host whose notification was lost gets a
new one (`Finds`). That the list loses some is `nt_links`.

`ApiAccess_proofs` proves `SessionsOutliveTheirUse` (`[]SessionOutlivesUse`),
`OnlyGrantedRights` (`[]RightsAreGranted`), `LockoutsAreShort`
(`[]LockoutIsShort`) and `AdministratorIsUnderstood`, the first three for any
number of connection threads, tokens, sessions, requests, crashes and nodes of
the cache, and any timeouts. `TimeInv` (a request in service is at most
`MaxStall` old) is common to them, and `ServingStep` says once what serving a
request leaves alone: everybody else's request, the clock, the provider, and
that a session was given out.

`SessionsOutliveTheirUse` assumes `MaxStall <= SessionIdle`: no request is
served for longer than a session may be idle, on which `flt_check_validuser`
relies when it reads a session after the unlock. `UseInv` says that a session in
hand is alive and was last found at most `MaxStall` before the request came
(another request that found it since may have read the clock earlier).
`FindStep` is the step that matters: a session that is freed has been idle for
twice `SessionIdle`, so it is in nobody's hands.

`OnlyGrantedRights` has two halves. One is about the list of routes:
`PagesAreGuarded` says that whoever reaches a page whose url begins with a
tenant's uuid was not rejected and has the tenant or a level above tenants.
Entries before the filter for tenants begin with a word (`WordPatterns`), the
least entry that matches is the one that answers (`LeastOf`), and what the
clients send is a request (`RequestsAreGood`); it relies on `RouteConstants`: a
tenant's uuid is none of the words the routes begin with. The other half is the
cache. `Vouched` says of a level and a list of tenants that the provider says
so, or said so until some time. `CellRight` says it of a node for the time its
request came, `RequestRight` of a request in service at each of its places, for
a time that the lookup, the copy and the store push back by a cache lifetime and
a request each. The delicate steps are `RevokeRight` (what the provider said
becomes what it said before, for every node and request at once) and the races
of readers: `Kept` is what one reader may do to a node that another is about to
copy. `CredentialsAssumption` says that tokens, session uuids and the
administrator's token are told apart and that a token that is given out is worth
something.

`LockoutsAreShort` is by `LockoutInv`, over the first invariant: what is in the
client's file has been given out and is not given out again (`Used`), so that a
login replaces a refused token by another; a run that does not validate the file
comes no later than `Revalidate` after it was written, which was before the
first refusal. It relies on `CliConstants`: where the user is, the connection is
nobody else's.

`AdministratorIsUnderstood` (`[]AdminIsUnderstood`) computes the dispatch of
every request of both clients, for any tenants, hosts, odd user names and
graph ranges; no state matters to it. `FirstAnswer` is the principle (the entry
that takes a request answers when no earlier one does), the `...Shapes` lemmas
say what each entry asks of a url (`Matches` over the fields), `FiltersPass` and
`TenantsPass` that an administrator gets past the filters and a tenant past the
words, and one lemma per kind of url finds its entry; `AllUnderstood` then
compares keys. It relies on `RouteConstants` and on `ClientConstants`: no host
is called "overview", which the entry before the hosts' would take, and the
meters' names are such that `%S` takes them. The empty field is named `Empty`
because the SMT backend does not prove anything with an empty string in it.

`SessionProtocol_proofs` proves `MetersAreInOrder` (`MeterInOrder`, an action
property), `NewestKeyIsKept` (`[]KeyIsNewest`), `NextSerialIsAlwaysNew`
(`[]NextSerialIsNew`) and `TypesAreKept`, for any number of lives of the agent
and of restarts of the collector, and whatever the network does. None of them is
inductive. `OrderIInv` is, and gives the first and the last: `ScheduleInv` keeps
the agent's rounds to its clock, `SerialInv` bounds every serial sent by what a
life that starts now would begin with, `NetInv` says the same of the packets on
their way and in `sessions.json`, and `OrderInv` that of two packets of one life
the later one has the higher serial. The keys need two more: `AuthOrder` (of two
authentication packets that the collector could still take, the one with the
higher serial has the newer key, across lives) and `KeysInv` (the session in
memory and the one in the file have the newest key taken). What the constants
must be like stands in the theorems: `SerialsFollowTheClock`, that a life sends
fewer serials than its clock advances, which the code's constants give (a serial
a second: 60 >= 2, 300 - `MaxLate` >= 4, 5 - `MaxLate` >= 2); `RoundsApart`,
that two slow rounds are farther apart than the replay window (300 - `MaxLate` >
180 + `Skew`); and `NoWrap`, that the clock is not near the wrap of the 32-bit
serial.

`TenantLocks_proofs` proves, for any tenants, hosts and objects,
`LocksInvariant`, `IdleThreadsHoldNothing` (`[]IdleHoldsNothing`),
`NobodyIsDeadlocked` (`[]NoDeadlock`, assuming `~WriterFirst`; with it the
property fails, see the observations) and `WalksComeToLiveHosts`
(`[]WalksStayAlive`). `LockInv` says what locks a thread holds at each of its
places (`Holds`) and that they exclude each other; `ListInv` that every walker
is at a tenant of the list, which has none twice; `NewTenantInv` that nobody
stands at a tenant whose creator still holds the whole list. `NoDeadlock` is
then a consequence and not an induction: every thread has a `Rank`, whatever is
in the way of a thread is held by one of a lower rank, so that the lowest of any
set of threads waits for nobody in it. `HostInv` is the second invariant, over
the first: the hosts linked in a list are not freed, a walk that holds its
tenant is at a linked host, and the host the watcher notes as next, before it
deletes one, is not the one it deletes.

`AgentLoop_proofs` proves `ImportedDataAreLive` (`[]ImportsLiveData`),
`UnsentDataAreAnswered` (`[]UnsentIsAnswered`), `ProbesRunInTime`
(`[]ProbeRunsInTime`), `LastPacketIsResent` (`ResendsLastPacket`) and the types,
for any intervals, starts and delays that satisfy `AgentLoopAssumption`: a
resend and what the loop is late fit between two slow rounds (`ResendMax +
MaxLate < SlowEvery`), and the agent starts at a time later than an interval, as
the code's clock, the time of day, does. The invariant has a part per concern.
`DataInv` orders the probe's three pointers at each place of `probe_run`, so
that what is freed is older than what anybody may import. `ReplyInv` says that
data that came while the loop looked at older ones are stamped after the loop's
note of the time. `ClockInv` keeps the loop to what it wakes up for and is used
by all parts about time. `PulseInv` says that a sleeping probe has had no pulse
since it went to sleep, and `ResendInv` that a resender that was called on has
the last packet and is done before the next slow round.

`LocalDB_proofs` proves `IndexIsSound` (`[]IndexSound`), `CurrentIsReplaced`
(`CurrentMovesOn`, an action property) and `WantedIsRead` (`[]ReadsWanted`), for
days of any length, any number of records and of crashes. `FileInv` says how far
the files of the day are with the record being saved: entries lead to whole
records in the order of time, and what is not written yet is later than all of
them. `WantedIsRead` needs that the search is right: `FindIndexIsRight` shows
that `localdb_find_index` finds the last entry that is not too late in any index
in the order of time, wherever the proportional guess leads. `Min` and `Max` of
a set and the division of the guess are reasoned about through `LeastOf` (every
nonempty set of naturals has a least element, from the well-foundedness of
`Nat`), which takes the place of induction.

`ApiStore_proofs` proves `StoreInvariant` (`[]Inv`), `HostFilesHaveDirectory`
(`[]HostInv`) and `RequestsTakeEffectOnce` (`RequestsAreAtomic`, the refinement)
for any threads, users, meters and values and any worlds: whatever requests
meet, and wherever the process ends. It assumes of the documents that a missing
file, a torn one and a NULL pointer are none. `Inv` has, besides the types, that
a request that has met no rival is the only one in its group (`Alone`), and a
predicate of each thread. `Formed` says of every thread where it can be with its
request. `Trusts` says of one that has met no rival what it relies on from one
step to the next: what it has read is still in the files (`Sees`), the temporary
file is its own (`Owns`), its directory is there (`InDir`), and what it has
removed stays away (`Took`). `Frame` is the reason why steps of others keep
that: a thread relies on nothing outside its group, and `OnlyWriter` has nobody
else in the group. When a request meets another one `Trusts` is given up for
both. `HostInv` says that no file of the host is where its directory is not,
which holds for rivals too and gives the removals their end.

There is one lemma per action that keeps the invariant, and one that finds its
step of `AtomicStore`. The rename of a request that has met nobody is `Apply`
(`RenameApplies`: what it has read is what is there, `HasRead`, and a change
depends on no document but those, `OnlyWanted`); any other write of a document
is `Interfere`; a file removed is `Remove`; the end of a request is `Answer`,
for which `Settled` says that it has done what it should; a restart is `Crash`.
Everything else leaves documents and requests alone. Of requests that meet the
theorem says only that they spoil nothing else.

Only model-checked: liveness (`EveryEntryTaken`, `FirstTroubleReported`,
`SettlesOnLevel`, `LossAgrees`, `RoundEnds`, `SignalsAreObeyed`,
`OverviewHeals`, `PageSettles`: out of the prover's reach), and the properties
of `HostMeters`, `Vars`, `IOPort` and `WebApp`. Those of `HostMeters`, `Vars`
and `IOPort` are about folds over packets, lists and trees; the library's
induction theorems cannot be used with the installed provers, and `Vars` and
`IOPort` use RECURSIVE operators. What `ReadersStayInside` says of siblings is
moreover only said of agents whose rows of a group always have the same keys.

## 5. Plan

What is left to prove: that requests of a tenant's own user are understood as an
administrator's are, from the lemmas about routes; that meters follow their
lists.

Of the model: `LocalDB`'s log ring and graph ring; its composition with
`Reaper`, for a day whose index a crash has left empty; a world of `ApiStore` in
which writes fail.

## 6. Not modelled

Cryptography, sockets, logging, option parsing and the packaging: no logic of
their own, or none that a model checker reaches. Platform probes, the Windows
service and its updater: code around system calls, sequential. libhttp: a
wrapper around libcurl. Of the API server the cache of `cmd_host_any_resolve`,
writes that fail and meter ids longer than a name; of the web client drawing,
search, keys and the dialogs in which watchers are edited; of the command line
client the display; of the parser and dumper of variables their text; of the
database the log, the graphs and the ranges of values; of variables sorting and
what only tests use. The wrap of the 32-bit
serial (`SerialMod`, `WrapZone` in `SessionProtocol`) is modelled but no run
reaches it: serials start from the clock, so it is decades away.
