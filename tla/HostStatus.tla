----------------------------- MODULE HostStatus -----------------------------
(***************************************************************************)
(* How the watcher thread turns a host's meters into a badness and the     *)
(* badness into a status, minute after minute: watchthread_handle_host of  *)
(* opticon-collector/watcher.c with calculate_badness of                   *)
(* libopticon/watchlist.c.                                                 *)
(*                                                                         *)
(* A meter's values and the thresholds they are compared with come down to *)
(* how many elements of the meter match a watcher.  Badness is kept in     *)
(* half points and rounds down where the code has a double.                *)
(***************************************************************************)
EXTENDS Integers, FiniteSets, FiniteSetsExt

CONSTANTS
    Meters,          \* the meters of the host that have watchers
    HitCounts,       \* how many elements of a meter may match a watcher
    TenantWatches    \* the watchlists the tenant may define

Levels == {"WARN", "ALERT", "CRIT"}
Watches == Meters \X Levels

ASSUME HostStatusAssumption ==
    /\ HitCounts \subseteq Nat /\ 0 \in HitCounts
    /\ TenantWatches \subseteq SUBSET Watches /\ {} \in TenantWatches

VARIABLES
    badness,     \* host->badness, in half points
    status,      \* the status meter
    tenantwatch, \* the watchers the tenant has defined
    (* History variables: no other variable depends on them. *)
    condition,   \* what the last round found: STALE or the highest trigger
    odd          \* whether it was an odd one: no round goes unnoticed

statusVars == <<badness, status, tenantwatch, condition, odd>>

StatusInit ==
    /\ badness = 0
    /\ status = "UNSET"
    /\ tenantwatch = {}
    /\ condition = "NONE"
    /\ odd = FALSE

(* resolve_tenantkey loads the tenant's watchers from its metadata, where  *)
(* cmd_tenant_set_watcher and cmd_tenant_delete_watcher put them.          *)
watchlist_populate(w) ==
    /\ w # tenantwatch
    /\ tenantwatch' = w
    /\ UNCHANGED <<badness, status, condition, odd>>

(* The weight of a match of each level, before the watcher's own weight. *)
Weight == [WARN |-> 10, ALERT |-> 16, CRIT |-> 24]

(* The watchers that are consulted: for a meter the tenant has a watcher   *)
(* for, the global watchlist is not looked at.                             *)
InForce ==
    {w \in Watches :
        (\E l \in Levels : <<w[1], l>> \in tenantwatch) => w \in tenantwatch}

(* Badness adds up over watchers and over the elements of a meter. *)
calculate_badness(hits) ==
    MapThenSumSet(LAMBDA w : hits[w] * Weight[w[2]], InForce)

maxtrigger(hits) ==
    LET fired == {w[2] : w \in {v \in InForce : hits[v] > 0}}
    IN  IF "CRIT" \in fired THEN "CRIT"
        ELSE IF "ALERT" \in fired THEN "ALERT"
        ELSE IF "WARN" \in fired THEN "WARN" ELSE "NONE"

(* Mutant: an ALERT condition adds to the badness without end. *)
CapWithoutAlert(b, total, trigger) ==
    CASE trigger = "NONE" -> 0
      [] trigger = "WARN" -> IF b > 100 THEN 0 ELSE total
      [] trigger = "ALERT" -> total
      [] trigger = "CRIT" -> IF b > 300 THEN 0 ELSE total

(* A condition only adds to the badness up to a level of its own. *)
Cap(b, total, trigger) ==
    CASE trigger = "NONE" -> 0
      [] trigger = "WARN" -> IF b > 100 THEN 0 ELSE total
      [] trigger = "ALERT" -> IF b > 180 THEN 0 ELSE total
      [] trigger = "CRIT" -> IF b > 300 THEN 0 ELSE total

(* With no problem left badness goes down, fast at first. *)
Recover(b) ==
    IF b > 200 THEN b \div 2
    ELSE IF b > 100 THEN (b * 3) \div 4
    ELSE IF b > 50 THEN b - 25
    ELSE 0

(* Mutant: a badness above the level of the condition stays there. *)
NoDecay(b, added) == b

(* With problems that do not add to it any more it goes down slowly. *)
Decay(b, added) == IF added = 0 THEN (b * 9) \div 10 ELSE b

StatusOf(b) ==
    IF b < 60 THEN "OK"
    ELSE IF b < 160 THEN "WARN"
    ELSE IF b < 240 THEN "ALERT"
    ELSE "CRIT"

(* A round with fresh data, hits of which match. *)
HandleHost(hits) ==
    LET trigger == maxtrigger(hits)
        added == Cap(badness, calculate_badness(hits), trigger)
        raised == badness + added
        new == IF trigger = "NONE" THEN Recover(raised)
               ELSE Decay(raised, added)
    IN  /\ badness' = new
        /\ status' = StatusOf(new)
        /\ condition' = trigger
        /\ UNCHANGED tenantwatch

(* A round more than 80 seconds after the last data: badness stays. *)
HandleStaleHost ==
    /\ status' = "STALE"
    /\ condition' = "STALE"
    /\ UNCHANGED <<badness, tenantwatch>>

Round ==
    /\ \/ \E hits \in [Watches -> HitCounts] : HandleHost(hits)
       \/ HandleStaleHost
    /\ odd' = ~odd

StatusNext ==
    \/ Round
    \/ \E w \in TenantWatches : watchlist_populate(w)

StatusSpec == StatusInit /\ [][StatusNext]_statusVars

(* The watcher thread goes round every minute. *)
StatusFairSpec == StatusSpec /\ WF_statusVars(Round)

-----------------------------------------------------------------------------
(* Type correctness; badness stays within one round of the highest cap. *)
MaxTotal ==
    MapThenSumSet(LAMBDA w : Max(HitCounts) * Weight[w[2]], Watches)
StatusTypeOK ==
    /\ badness \in 0 .. 300 + MaxTotal
    /\ status \in Levels \cup {"UNSET", "OK", "STALE"}
    /\ tenantwatch \in TenantWatches
    /\ condition \in Levels \cup {"NONE", "STALE"} /\ odd \in BOOLEAN

(* What lies between the highest badness a WARN or ALERT condition adds to *)
(* and the next status: 30 points.                                         *)
Gap == 60

(* The caps are tested before a round's matches are added, so a round may  *)
(* go past them, by its own sum only: a WARN condition does not bring a    *)
(* host to ALERT or CRIT, nor an ALERT one to CRIT, but in a single round  *)
(* whose matches add 30 points or more.  Smaller ones never get there, in  *)
(* whatever number and from whatever earlier conditions have left.         *)
NoOverreach ==
    [][badness' > badness /\ badness' - badness < Gap =>
         /\ condition' = "WARN" => status' \notin {"ALERT", "CRIT"}
         /\ condition' = "ALERT" => status' # "CRIT"]_statusVars

(* A condition that lasts ends in the status that stands for it, from      *)
(* whichever badness it starts, and stays there, again if no round of WARN *)
(* or ALERT adds 30 points: rises, caps, the slow decay and the fast       *)
(* recovery have no cycle that leaves the level.                           *)
Standing == [NONE |-> "OK", WARN |-> "WARN", ALERT |-> "ALERT",
             CRIT |-> "CRIT", STALE |-> "STALE"]
Lasts ==
    [][/\ condition' = condition
       /\ condition' \in {"WARN", "ALERT"} =>
             badness' - badness < Gap]_statusVars
SettlesOnLevel == <>Lasts => <>[](status = Standing[condition])
=============================================================================
