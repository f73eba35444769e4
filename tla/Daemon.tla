------------------------------- MODULE Daemon -------------------------------
(***************************************************************************)
(* A daemon under its watchdog (libopticon/daemon.c) and the configuration *)
(* it reloads on a SIGHUP: the collector's conf_reloader_run               *)
(* (opticon-collector/main.c) over a space of variables that remember in   *)
(* which generation they were loaded and changed (libopticon/var.c,        *)
(* var_parse.c) and the reactions to them (libopticon/react.c).            *)
(*                                                                         *)
(* A key stands for a path with a reaction, with its value or its section. *)
(* A value is a pair of its type and what it says.  The watchdog has a     *)
(* child at a time, which starts with what the watchdog has in memory.     *)
(***************************************************************************)
EXTENDS Conditional, FiniteSets

CONSTANTS
    Keys,
    Network,     \* the key whose change ends the process
    ConfValues,  \* pairs of a type and what is said
    Unset,
    MaxDeeds     \* bound of the model: edits, signals and crashes

ASSUME DaemonAssumption ==
    /\ Network \in Keys /\ MaxDeeds \in Nat

VARIABLES
    file,      \* the configuration file, broken where it cannot be parsed
    loaded,    \* what main has loaded and set, in the watchdog's memory
    watchdog,  \* where it is, its exit flag, and whose pid it has
    child,     \* how far it is
    conf,      \* the child's APP.conf
    settings,  \* what the reactions of the child have set
    reloader,  \* where conf_reloader_run is, and its conditional
    deeds,
    (* History variable: no step depends on it. *)
    obeys      \* the signal that must have its effect, or "none"

daemonVars == <<file, loaded, watchdog, child, conf, settings, reloader,
                deeds, obeys>>
childVars == <<child, conf, settings, reloader>>

-----------------------------------------------------------------------------
(* The variables.  The root's generation is conf.generation. *)

NoNode == [value |-> Unset, generation |-> 0, lastmodified |-> 0,
           firstseen |-> 0]

(* var_get_or_make and var_set_int or var_set_str: a variable keeps its    *)
(* type, and a value of another type is not taken.                         *)
var_set(node, value, gen) ==
    CASE node.value = Unset ->
           [value |-> value, generation |-> gen, lastmodified |-> gen,
            firstseen |-> gen]
      [] node.value # Unset /\ node.value[1] = value[1] ->
           [node EXCEPT !.value = value, !.generation = gen,
                        !.lastmodified = IF node.value = value THEN @
                                         ELSE gen]
      [] node.value # Unset /\ node.value[1] # value[1] ->
           IF value[1] = "int" THEN [node EXCEPT !.generation = gen] ELSE node

(* var_parse_json_level, for the entries it gets to. *)
Parsed(c, entries) ==
    [c EXCEPT !.node = [k \in Keys |->
        IF entries[k] = Unset THEN @[k]
        ELSE var_set(@[k], entries[k], c.generation)]]

(* What comes before an error in the file is loaded. *)
var_parse_json(c) ==
    IF ~file.broken THEN {Parsed(c, file.entries)}
    ELSE {Parsed(c, [k \in Keys |-> IF k \in ks THEN file.entries[k]
                                    ELSE Unset]) : ks \in SUBSET Keys}

(* Mutant: the generations var.c is made for, one for each load. *)
LoadNewGeneration(c) == var_parse_json([c EXCEPT !.generation = @ + 1])

(* The generation is that of the load before: nobody calls                 *)
(* var_new_generation.                                                     *)
var_load_json(c) == var_parse_json(c)

-----------------------------------------------------------------------------
(* The reactions. *)

(* opticonf_handle *)
UpdateType(c, k) ==
    LET node == c.node[k]
    IN  CASE node.value = Unset -> "NONE"
          [] node.value # Unset /\ node.generation < c.generation -> "REMOVE"
          [] node.value # Unset /\ node.generation >= c.generation ->
               IF node.lastmodified # c.generation THEN "NONE"
               ELSE IF node.firstseen = c.generation THEN "ADD" ELSE "CHANGE"

(* conf_meters, conf_db_path and the others: nothing is taken back. *)
React(s, c) ==
    [k \in Keys |-> IF UpdateType(c, k) \in {"ADD", "CHANGE"}
                    THEN c.node[k].value ELSE s[k]]

(* conf_network: "respawn from the watchdog". *)
Exits(c) == UpdateType(c, Network) \in {"CHANGE", "REMOVE"}

-----------------------------------------------------------------------------
(* The watchdog *)

NoConf == [generation |-> 0, node |-> [k \in Keys |-> NoNode]]
Fresh == [at |-> "top", cond |-> conditional_init]

(* main: the configuration is loaded before anything is forked. *)
DaemonInit ==
    /\ file \in [entries : [Keys -> ConfValues], broken : {FALSE}]
    /\ conf \in var_load_json(NoConf)
    /\ settings = React([k \in Keys |-> Unset], conf)
    /\ loaded = <<conf, settings>>
    /\ watchdog = [at |-> "fork", exits |-> FALSE, knows |-> "nobody"]
    /\ child = "none" /\ reloader = Fresh
    /\ deeds = 0 /\ obeys = "none"

(* The first child is forked before there are handlers to inherit. *)
Fork ==
    /\ watchdog.at = "fork"
    /\ watchdog' = [watchdog EXCEPT !.at = "forked"]
    /\ child' = IF watchdog.knows = "nobody" THEN "starting" ELSE "forked"
    /\ conf' = loaded[1] /\ settings' = loaded[2]
    /\ reloader' = Fresh
    /\ UNCHANGED <<file, loaded, deeds, obeys>>

(* The signal handlers and SERVICE_PID are set. *)
NoteService ==
    /\ watchdog.at = "forked"
    /\ watchdog' = [watchdog EXCEPT !.at = "wait", !.knows = "child"]
    /\ UNCHANGED <<file, loaded, childVars, deeds, obeys>>

(* wait returns the child; the exit flag is looked at. *)
Respawn ==
    /\ watchdog.at = "wait" /\ child = "dead"
    /\ watchdog' = [watchdog EXCEPT
         !.at = IF watchdog.exits THEN "gone" ELSE "fork", !.knows = "former"]
    /\ UNCHANGED <<file, loaded, childVars, deeds, obeys>>

-----------------------------------------------------------------------------
(* The child *)

(* SIG_DFL in watchdog_main; then daemon_main, up to its handler. *)
ChildStarts ==
    /\ child \in {"forked", "starting"}
    /\ child' = IF child = "forked" THEN "starting" ELSE "up"
    /\ UNCHANGED <<file, loaded, watchdog, conf, settings, reloader, deeds,
                   obeys>>

ReloaderStep ==
    /\ child = "up"
    /\ UNCHANGED <<file, loaded, watchdog, deeds, obeys>>

WaitFresh ==
    /\ ReloaderStep /\ reloader.at = "top"
    /\ reloader' = [at |-> "wait",
                    cond |-> conditional_wait_fresh(reloader.cond)]
    /\ UNCHANGED <<child, conf, settings>>

WokenUp ==
    /\ ReloaderStep /\ reloader.at = "wait" /\ reloader.cond.waiter = "woken"
    /\ reloader' = [at |-> "load", cond |-> wakeup(reloader.cond)]
    /\ UNCHANGED <<child, conf, settings>>

LoadConf ==
    /\ ReloaderStep /\ reloader.at = "load"
    /\ conf' \in var_load_json(conf)
    /\ reloader' = [reloader EXCEPT !.at = IF file.broken THEN "top"
                                           ELSE "handle"]
    /\ UNCHANGED <<child, settings>>

HandleConfig ==
    /\ ReloaderStep /\ reloader.at = "handle"
    /\ settings' = React(settings, conf)
    /\ child' = IF Exits(conf) THEN "dead" ELSE child
    /\ reloader' = [reloader EXCEPT !.at = "top"]
    /\ UNCHANGED conf

-----------------------------------------------------------------------------
(* Users and their signals *)

DaemonDeed == deeds < MaxDeeds /\ deeds' = deeds + 1

Edit ==
    /\ DaemonDeed
    /\ file' \in [entries : [Keys -> ConfValues \cup {Unset}],
                  broken : BOOLEAN]
    /\ obeys' = IF obeys = "HUP" THEN "none" ELSE obeys
    /\ UNCHANGED <<loaded, watchdog, childVars>>

Crash ==
    /\ DaemonDeed
    /\ child \in {"forked", "starting", "up"} /\ child' = "dead"
    /\ obeys' = IF obeys = "HUP" THEN "none" ELSE obeys
    /\ UNCHANGED <<file, loaded, watchdog, conf, settings, reloader>>

(* What the signal does to the child.  Between fork and SIG_DFL a later    *)
(* child has the watchdog's handler, and kills nobody.                     *)
Deliver(sig) ==
    CASE child = "up" /\ sig = "HUP" ->
           /\ reloader' = [reloader EXCEPT
                !.cond = conditional_signal(reloader.cond)]
           /\ UNCHANGED <<child, conf, settings>>
      [] child = "starting" \/ (child = "up" /\ sig = "TERM") ->
           child' = "dead" /\ UNCHANGED <<conf, settings, reloader>>
      [] OTHER -> UNCHANGED childVars

(* watchdog_sighandler *)
Handler(sig) ==
    /\ watchdog' = [watchdog EXCEPT !.exits = @ \/ (sig = "TERM")]
    /\ IF watchdog.knows = "child" THEN Deliver(sig)
       ELSE UNCHANGED childVars

(* Before it has a handler, a signal ends the watchdog. *)
Unhandled ==
    /\ watchdog' = [watchdog EXCEPT !.at = "gone"]
    /\ UNCHANGED childVars

(* A signal finds the service ready: the reloader waits, or the watchdog   *)
(* knows its child and the child takes signals.                            *)
Obeyed(sig) ==
    /\ watchdog.knows = "child"
    /\ IF sig = "TERM" THEN child # "forked"
       ELSE child = "up" /\ reloader.at = "wait"

Signal ==
    /\ DaemonDeed /\ watchdog.at # "gone"
    /\ \E sig \in {"HUP", "TERM"} :
         /\ IF watchdog.knows = "nobody" THEN Unhandled ELSE Handler(sig)
         /\ obeys' = IF obeys # "TERM" /\ Obeyed(sig) THEN sig ELSE obeys
    /\ UNCHANGED <<file, loaded>>

DaemonNext ==
    \/ Fork \/ NoteService \/ Respawn
    \/ ChildStarts \/ WaitFresh \/ WokenUp \/ LoadConf \/ HandleConfig
    \/ Edit \/ Crash \/ Signal

ReloaderThread == WaitFresh \/ WokenUp \/ LoadConf \/ HandleConfig
WatchdogProcess == Fork \/ NoteService \/ Respawn

DaemonFairness ==
    /\ WF_daemonVars(WatchdogProcess) /\ WF_daemonVars(ChildStarts)
    /\ WF_daemonVars(ReloaderThread)

DaemonSpec == DaemonInit /\ [][DaemonNext]_daemonVars /\ DaemonFairness

-----------------------------------------------------------------------------
(* What the file says is in force, but for the network, which is as it     *)
(* was at the start, and for values of another type than the first.        *)
InForceNow ==
    \A k \in Keys \ {Network} :
        file.entries[k] # Unset /\ file.entries[k][1] = conf.node[k].value[1]
            => settings[k] = file.entries[k]

(* A signal that finds the service ready has its effect in the end: after  *)
(* a SIGTERM neither the service nor its watchdog is left, and after a     *)
(* SIGHUP the settings of a file without errors are in force, whatever was *)
(* half loaded before (watchdog_sighandler, conf_reloader_run).            *)
SignalsAreObeyed ==
    <>[](/\ obeys = "TERM" => watchdog.at = "gone" /\ child = "dead"
         /\ obeys = "HUP" /\ ~file.broken => InForceNow)
=============================================================================
