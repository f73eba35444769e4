----------------------------- MODULE HostMeters -----------------------------
(***************************************************************************)
(* A host between its agent and its reader: the agent's reports, the       *)
(* packet handler (handle_meter_packet of opticon-collector/main.c), the   *)
(* watcher's round over its meters (watchthread_handle_host of             *)
(* opticon-collector/watcher.c with calculate_badness of                   *)
(* libopticon/watchlist.c), the record that is saved, the summaries of the *)
(* tenant, and what opticon-api makes of the host.                         *)
(*                                                                         *)
(* What badness does to the status is the subject of HostStatus: here a    *)
(* round may find any status that goes with the level triggered.  The wait *)
(* of 300 seconds between looks at the host's metadata is left out: every  *)
(* packet may find that it is time.  The tenant's other hosts come before  *)
(* this one in its list and do not change.                                 *)
(***************************************************************************)
EXTENDS Summaries

CONSTANTS
    Worlds,        \* agents: the reports and the metadata each may have,
                   \* the tenant's summaries and its other hosts
    Watchers,      \* the watchers in force: [name, cmp, type, val, level]
    StaleAfter,    \* 80 seconds
    MaxRestarts,   \* bound of the model: restarts of the collector
    Nothing        \* no record, no pointer

Statuses == {"OK", "WARN", "ALERT", "CRIT"}

VARIABLES
    world,     \* this agent
    host,      \* the collector's host; a session has brought it up
    silent,    \* minutes since host->lastmodified
    adjust,    \* host->adjust: adjusted limits, [name, type, level, val]
    record,    \* the last record saved in the database
    round,     \* the watcher: "due", "reading", "adding" or "done"
    crsr,      \* the name of the meter its m points to
    summ,      \* tenant->summ
    summary,   \* the tenant's summary in the database
    restarts

sums == <<summ, summary>>
metersVars ==
    <<world, host, silent, adjust, record, round, crsr, sums, restarts>>

MetersInit ==
    /\ world \in Worlds
    /\ host = host_alloc
    /\ silent = Never
    /\ adjust = {}
    /\ record = Nothing
    /\ round = "due"
    /\ crsr = Nothing
    /\ \E defs \in world.summaries :
         summ = summaryinfo_populate(Merged(defs))
    /\ summary = Nothing
    /\ restarts = 0

-----------------------------------------------------------------------------
(* The packet handler. *)

(* adjustlist_get finds or adds; what the metadata does not mention stays. *)
handle_host_metadata(meta) ==
    {a \in adjust : ~\E b \in meta : b.name = a.name /\ b.level = a.level}
        \cup meta

(* A host without meters starts from its last record. *)
KnownHost ==
    LET h == host_begin_update(host, silent)
    IN  IF h.mcount = 0 /\ record # Nothing
        THEN pktcodec_decode_host(record, h) ELSE h

(* The packet is decoded over that.  The two meters of the pings are only  *)
(* created: nothing has been written to them yet, so host_end_update reaps *)
(* them again.                                                             *)
handle_meter_packet(packet) ==
    LET decoded == pktcodec_decode_host(packet, KnownHost)
        linked == host_get_meter(
                      host_get_meter(decoded, <<"link", "rtt">>, "FRAC"),
                      <<"link", "loss">>, "FRAC")
    IN  host_end_update(linked)

(* What the agent sends for a report. *)
PacketOf(report) ==
    pktcodec_encode_host(host_import(host_alloc, report))

PacketComes(report) ==
    /\ silent > 0
    /\ host' = handle_meter_packet(PacketOf(report))
    /\ silent' = 0
    /\ \/ UNCHANGED adjust
       \/ \E meta \in world.metadata : adjust' = handle_host_metadata(meta)
    /\ UNCHANGED <<world, record, round, crsr, sums, restarts>>

(* Another auth packet of the tenant: resolve_tenantkey sets the summaries *)
(* up again, with the tenant locked for writing.                           *)
ReloadSummaries ==
    /\ round = "due"
    /\ \E defs \in world.summaries :
         summ' = summaryinfo_populate(Merged(defs))
    /\ UNCHANGED <<world, host, silent, adjust, record, round, crsr,
                   summary, restarts>>

-----------------------------------------------------------------------------
(* The watcher. *)

(* The limit that holds for the host. *)
Limit(w) ==
    LET mine == {a \in adjust :
                   a.name = w.name /\ a.level = w.level /\ a.type = w.type}
    IN  IF mine = {} THEN w.val ELSE (CHOOSE a \in mine : TRUE).val

(* Mutant: a value at the limit counts as above it. *)
CalculateBadnessAt(m, w) ==
    LET cnt == IF m.count = EmptyArray THEN 0 ELSE Cells(m.count)
    IN  Cardinality({i \in 1 .. Cells(m.count) :
            CASE w.cmp = "gt" -> meter_get(m, w.type, i) >= Limit(w)
              [] w.cmp = "lt" -> meter_get(m, w.type, i) <= Limit(w)
              [] w.cmp = "count" -> cnt >= Limit(w)
              [] w.cmp = "eq" -> meter_get(m, w.type, i) = Limit(w)})

(* How many elements match.  The loop runs over the count even when that   *)
(* stands for an empty meter, which reads as zeros.                        *)
calculate_badness(m, w) ==
    LET cnt == IF m.count = EmptyArray THEN 0 ELSE Cells(m.count)
    IN  Cardinality({i \in 1 .. Cells(m.count) :
            CASE w.cmp = "gt" -> meter_get(m, w.type, i) > Limit(w)
              [] w.cmp = "lt" -> meter_get(m, w.type, i) < Limit(w)
              [] w.cmp = "count" -> cnt >= Limit(w)
              [] w.cmp = "eq" -> meter_get(m, w.type, i) = Limit(w)})

Fires(m, w) == w.name = m.name /\ calculate_badness(m, w) > 0
InTrouble(m) == \E w \in Watchers : Fires(m, w)

(* The meters the round goes over: those from the one m pointed to before  *)
(* the host was locked.  If that has been removed, it is empty by now and  *)
(* nothing comes behind it.                                                *)
Visited(h) ==
    LET n == IF crsr = Nothing THEN NoIndex
             ELSE host_find_meter_name(h, crsr)
    IN  IF n = NoIndex THEN <<>> ELSE SubSeq(h.meters, n, Len(h.meters))

maxtrigger(visited) ==
    LET fired == {w.level : w \in {v \in Watchers :
                    \E m \in Range(visited) : Fires(m, v)}}
    IN  IF "CRIT" \in fired THEN "CRIT"
        ELSE IF "ALERT" \in fired THEN "ALERT"
        ELSE IF "WARN" \in fired THEN "WARN" ELSE "NONE"

(* What the pings to the host's address found. *)
SetPings(h) ==
    LET ip == host_find_meter(h, <<"link", "ip">>, "STR")
    IN  IF ip = NoIndex THEN h
        ELSE IF meter_get(h.meters[ip], "STR", 1) = "" THEN h
        ELSE SetMeter(SetMeter(h, <<"link", "rtt">>, "FRAC", 0, <<1>>),
                      <<"link", "loss">>, "FRAC", 0, <<0>>)

(* The labels of the meters in trouble, sixteen of them at most. *)
SetProblems(h, labels) ==
    IF labels = <<>>
    THEN SetMeter(h, <<"problems">>, "STR", EmptyArray, <<>>)
    ELSE SetMeter(h, <<"problems">>, "STR", Len(labels),
                  SubSeq(labels, 1, Least(16, Len(labels))))

watchthread_handle_host(status) ==
    LET pinged == host_get_meter(SetPings(host), <<"status">>, "STR")
        visited == Visited(pinged)
        bad == SelectSeq(visited, InTrouble)
        judged == SetMeter(
                    SetProblems(pinged, [i \in DOMAIN bad |-> bad[i].name]),
                    <<"badness">>, "FRAC", 0, <<0>>)
    IN  IF silent > StaleAfter
        THEN SetMeter(pinged, <<"status">>, "STR", 0, <<"STALE">>)
        ELSE SetMeter(judged, <<"status">>, "STR", 0, <<status>>)

(* A round of the tenant up to this host, and meter *m = host->first,      *)
(* without a lock.                                                         *)
StartRound(summed) ==
    /\ round = "due"
    /\ round' = "reading"
    /\ crsr' = IF host.meters = <<>> THEN Nothing ELSE host.meters[1].name
    /\ summ' = summed
    /\ UNCHANGED <<world, host, silent, adjust, record, summary, restarts>>

WatchRead == StartRound(AddHosts(summaryinfo_start_round(summ), world.others))

(* The same when, after k of the others, there was one to delete: the      *)
(* watcher gave the tenant up for that (tenant_relock), and the packet     *)
(* thread set the summaries up again.                                      *)
WatchReadInterrupted ==
    \E defs \in world.summaries, k \in 0 .. Len(world.others) :
        /\ Cardinality(world.summaries) > 1
        /\ StartRound(AddHosts(summaryinfo_populate(Merged(defs)),
                        SubSeq(world.others, k + 1, Len(world.others))))

(* The rest, with the host locked; the record is saved at the end.  As in  *)
(* HostStatus one round does not bring a host from nothing to CRIT.        *)
WatchHost ==
    /\ round = "reading"
    /\ round' = "adding"
    /\ crsr' = Nothing
    /\ \E status \in {"OK", maxtrigger(Visited(host))} \ {"NONE"} :
         host' = watchthread_handle_host(status)
    /\ record' = pktcodec_encode_host(host')
    /\ UNCHANGED <<world, silent, adjust, sums, restarts>>

(* The host has been given up and is locked once more, for reading; the    *)
(* last host of the tenant ends the round.                                 *)
WatchSummaries ==
    /\ round = "adding"
    /\ round' = "done"
    /\ summ' = AddHost(summ, host.meters)
    /\ summary' = summaryinfo_tally_round(summ')
    /\ UNCHANGED <<world, host, silent, adjust, record, crsr, restarts>>

-----------------------------------------------------------------------------
(* A minute passes; the watcher keeps up with it. *)
Minute ==
    /\ round = "done"
    /\ round' = "due"
    /\ silent' = Later(silent, 1)
    /\ UNCHANGED <<world, host, adjust, record, crsr, sums, restarts>>

(* The collector starts again: the session brings back an empty host. *)
Restart ==
    /\ restarts < MaxRestarts
    /\ restarts' = restarts + 1
    /\ host' = host_alloc
    /\ silent' = Never
    /\ adjust' = {}
    /\ round' = "due" /\ crsr' = Nothing
    /\ \E defs \in world.summaries :
         summ' = summaryinfo_populate(Merged(defs))
    /\ UNCHANGED <<world, record, summary>>

MetersNext ==
    \/ \E report \in world.reports : PacketComes(report)
    \/ ReloadSummaries
    \/ WatchRead
    \/ WatchReadInterrupted
    \/ WatchHost
    \/ WatchSummaries
    \/ Minute
    \/ Restart

MetersSpec == MetersInit /\ [][MetersNext]_metersVars

-----------------------------------------------------------------------------
(* What opticon-api shows of a host right after a packet is what the       *)
(* probes gave: import, packet, the list of meters with what it held       *)
(* before, and JSON lose nothing but the ends of long lists and, on a host *)
(* that is full, fields it did not have.  Nothing of an earlier form of a  *)
(* field, empty or not, shows through.  (The group "link" is left out: it  *)
(* has meters of the collector's, which on a STALE host hide the others.)  *)
(* And a host that was silent for longer than its meters live does not     *)
(* lose those that are only sent now and then: the first packet after the  *)
(* silence removes none, unless a meter takes its name over as a path.     *)
Same(shown, given) == shown.kind = given.kind /\ shown.v = given.v
ShowsWhatWasReported ==
    [][\A report \in world.reports : PacketComes(report) =>
         LET fields == Importable(report)
             room == KnownHost.mcount + Len(PacketOf(report)) <= MaxMeters + 1
             Had(f) == \A e \in Range(FieldMeters(f)) :
                         host_find_meter_name(KnownHost, e.name) # NoIndex
         IN  /\ \A i \in DOMAIN fields :
                 fields[i].id # "link" /\ (room \/ Had(fields[i])) =>
                 Same(jsoncodec_encode_host(host', fields[i].id),
                      Reported(fields[i]))
             /\ silent > MeterTimeout =>
                  \A m \in Range(host.meters) :
                     \/ host_find_meter_name(host', m.name) # NoIndex
                     \/ \E f \in Range(report) : f.id = m.name[1]]_metersVars

(* Those who read a meter's data stay inside its block: a meter that is    *)
(* not empty has as many elements as its count says, whatever it held      *)
(* before, and in a group of rows an element that JSON asks a sibling for  *)
(* exists, for agents whose rows of a group always have the same keys.     *)
(* Of an empty meter, which has no data, nothing is said: a watcher asks   *)
(* meter_get for elements that are not there and is given zeros, and       *)
(* summarydata_add looks at d unasked, which is NULL once an agent has     *)
(* sent an empty form of a field that is summed up.                        *)
ReadersStayInside ==
    LET list == host.meters
    IN  /\ host.mcount = Len(list)
        /\ \A m \in Range(list) :
             m.count < EmptyVal => Len(m.d) = Cells(m.count)
        /\ \A i, j \in DOMAIN list :
             /\ i < j
             /\ HasPath(list[i].name) /\ HasPath(list[j].name)
             /\ list[i].name[1] = list[j].name[1]
             /\ list[i].count < EmptyVal
             => \/ list[j].count >= EmptyVal
                \/ list[j].count = list[i].count

(* "The provided data needs to be restricted to the allowed forms", among  *)
(* them key:[value1,value2] and key:[] (host_import): a list may be empty  *)
(* at one time and not at another, and its values fit all the same.        *)
ValuesFitTheirCells ==
    \A m \in Range(host.meters) :
        m.count < EmptyVal => m.cell = Cell(m.type)

(* A list that shrinks, or has become empty, leaves nothing behind that a  *)
(* watcher for values above a limit still counts: after a round for which  *)
(* the host's first meter did not go meanwhile, "problems" names the       *)
(* meters with such a value and no other.                                  *)
ProblemsAreReal ==
    [][round = "reading" /\ round' = "adding" /\ silent <= StaleAfter
         /\ host_find_meter_name(host, crsr) # NoIndex =>
         LET i == host_find_meter_name(host', <<"problems">>)
             p == host'.meters[i]
             named == IF p.count < EmptyVal THEN Range(p.d) ELSE {}
             high == {m.name : m \in {n \in Range(host.meters) :
                        n.count < EmptyVal /\ \E w \in Watchers :
                            /\ w.name = n.name /\ w.cmp = "gt"
                            /\ n.type = w.type
                            /\ \E k \in DOMAIN n.d : n.d[k] > Limit(w)}}
         IN  named = high]_metersVars

(* The summary that is stored is of one round: each average, total and     *)
(* count is over this host and the others as they are now, nothing is left *)
(* of a round before or of summaries that were defined otherwise, and none *)
(* is of other hosts than the next.  Only when the tenant was given up on  *)
(* the way the hosts before that are missing, from all summaries alike.    *)
SummaryIsOfOneRound ==
    [][round = "adding" /\ round' = "done" =>
         \E k \in 0 .. Len(world.others) :
             \A s \in Range(summ) :
                 summary'[s.id] =
                     SummaryOf(s, Append(
                         SubSeq(world.others, k + 1, Len(world.others)),
                         host.meters))]_metersVars
=============================================================================
