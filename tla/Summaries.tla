------------------------------ MODULE Summaries ------------------------------
(***************************************************************************)
(* The summaries of a tenant, libopticon/summary.c: averages, totals and   *)
(* counts over the meters of its hosts, collected while the watcher goes   *)
(* from host to host, with the two functions of opticon-collector/main.c   *)
(* that set them up.                                                       *)
(*                                                                         *)
(* A definition is [id, meter, type, func, match], Missing where the       *)
(* metadata says nothing.  The numbers of FRAC meters are in halves, which *)
(* is enough to tell a conversion from none.                               *)
(***************************************************************************)
EXTENDS Meters

CONSTANTS
    Conf,       \* the summaries of the collector's configuration
    Missing

-----------------------------------------------------------------------------
(* A tenant's own definitions come first; the configuration adds those it  *)
(* has none for (resolve_tenantkey).                                       *)
Merged(defs) ==
    defs \o SelectSeq(Conf, LAMBDA c : \A d \in Range(defs) : d.id # c.id)

Complete(def) ==
    /\ def.meter # Missing
    /\ def.type \in {"INT", "FRAC", "STR"}
    /\ def.func # Missing
    /\ def.func = "count" => def.match # Missing

(* A summarydata.  One that counts is about strings whatever its type.     *)
summarydata_create(def) ==
    [id |-> def.id, func |-> def.func, meter |-> def.meter,
     type |-> IF def.func = "count" THEN "STR" ELSE def.type,
     samplecount |-> 0, d |-> NoData, match |-> def.match]

(* The first definition that is not complete ends the list, one with an    *)
(* unknown function is passed over.                                        *)
summaryinfo_populate(defs) ==
    LET bad == SelectInSeq(defs, LAMBDA d : ~Complete(d))
        good == IF bad = NoIndex THEN defs ELSE SubSeq(defs, 1, bad - 1)
        known == SelectSeq(good, LAMBDA d :
                   d.func \in {"avg", "total", "count"})
    IN  [i \in DOMAIN known |-> summarydata_create(known[i])]

-----------------------------------------------------------------------------
(* Mutant: what was collected stays, and only the count starts again.      *)
ClearSampleCount(s) == [s EXCEPT !.samplecount = 0]

(* The string that is counted is kept in d and stays.                      *)
summarydata_clear_sample(s) ==
    IF s.type = "STR" THEN [s EXCEPT !.samplecount = 0]
    ELSE [s EXCEPT !.samplecount = 0, !.d = NoData]

summaryinfo_start_round(summ) ==
    [i \in DOMAIN summ |-> summarydata_clear_sample(summ[i])]

(* A meter's first value as a number of another type; the strings that     *)
(* occur here are no numbers.  A meter without data is read all the same.  *)
Converted(m, type) ==
    CASE m.type = "STR" -> 0
      [] m.type = type -> m.d[1]
      [] m.type = "INT" /\ type = "FRAC" -> 2 * m.d[1]
      [] m.type = "FRAC" /\ type = "INT" -> m.d[1] \div 2

summarydata_add(s, m) ==
    IF s.type = "STR"
    THEN IF m.type = "STR" /\ s.func = "count" /\ m.d[1] = s.match
         THEN [s EXCEPT !.samplecount = @ + 1] ELSE s
    ELSE [s EXCEPT !.samplecount = @ + 1,
                   !.d = (IF @ = NoData THEN 0 ELSE @)
                            + Converted(m, s.type)]

(* summaryinfo_add_meterdata, for each meter of a host. *)
AddHost(summ, meters) ==
    [i \in DOMAIN summ |->
        FoldLeft(summarydata_add, summ[i],
                 SelectSeq(meters, LAMBDA m : m.name = summ[i].meter))]

AddHosts(summ, hosts) == FoldLeft(AddHost, summ, hosts)

summarydata_calc_total(s) ==
    IF s.type = "STR" \/ s.d = NoData THEN 0 ELSE s.d
summarydata_calc_avg(s) ==
    IF s.type = "STR" \/ s.d = NoData \/ s.samplecount = 0 THEN 0
    ELSE s.d \div s.samplecount

(* What is stored under each summary's id. *)
summaryinfo_tally_round(summ) ==
    [id \in {s.id : s \in Range(summ)} |->
        LET s == summ[SelectInSeq(summ, LAMBDA x : x.id = id)]
        IN  CASE s.func = "avg" -> summarydata_calc_avg(s)
              [] s.func = "total" -> summarydata_calc_total(s)
              [] s.func = "count" -> s.samplecount]

-----------------------------------------------------------------------------
(* What a summary is meant to be, for these hosts: the average, the sum or *)
(* the number of matches of the meters of that name.                       *)
SummaryOf(def, hosts) ==
    LET all == FlattenSeq(
                 [h \in DOMAIN hosts |->
                    SelectSeq(hosts[h], LAMBDA m : m.name = def.meter)])
        sum == FoldLeft(LAMBDA a, m : a + Converted(m, def.type), 0, all)
    IN  CASE def.func = "count" ->
               Len(SelectSeq(all, LAMBDA m :
                     m.type = "STR" /\ m.d[1] = def.match))
          [] def.func = "total" /\ def.type # "STR" -> sum
          [] def.func = "avg" /\ def.type # "STR" /\ all # <<>> ->
               sum \div Len(all)
          [] OTHER -> 0
=============================================================================
