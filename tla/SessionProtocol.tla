--------------------------- MODULE SessionProtocol ---------------------------
(***************************************************************************)
(* Authentication and metering between one agent and the collector:        *)
(* the send loop of opticon-agent/main.c, the packets of                   *)
(* libopticon/pktwrap.c and their check in ioport_decrypt, a network that  *)
(* loses, repeats, delays and reorders datagrams, and the collector's      *)
(* handle_auth_packet and handle_meter_packet with the session table they  *)
(* keep in memory and on disk.  Both programs may be restarted at any      *)
(* time, the collector also between changing the table and saving it.      *)
(*                                                                         *)
(* The authresender's second copy of an auth packet is the same bytes, so  *)
(* it is one of the network's repetitions.                                 *)
(***************************************************************************)
EXTENDS Integers, FiniteSets, SessionDB

CONSTANTS
    Lives,          \* sessions: one per life of the agent (gen_sessionid)
    Window,         \* 180: how far a packet's time may be off when decrypted
    ExpireAfter,    \* 905: how long a session lives without an auth packet
    RotateAfter,    \* 1800: how long the agent uses a session key
    SlowEvery,      \* 300: between two slow rounds of the agent
    FastEvery,      \* 60: between two fast rounds of the agent
    StartDelay,     \* 5: from the agent's start to its first slow round
    SerialsPerTick, \* how far time(NULL), as a serial, moves in a unit of time
    SerialMod,      \* 2^32: serials are of this width
    WrapZone,       \* 8: how near to a wrap resolve_sessionkey allows for it
    Skew,           \* the agent's clock minus the collector's
    MaxLate,        \* how late the agent's loop gets to a slow round
    MaxDelay,       \* how long the network can hold a datagram
    MaxCrashes,     \* bound of the model: restarts of the collector
    StartTime,      \* the collector's clock when the model starts
    EndTime         \* bound of the model: no time passes after this

ASSUME TimesAssumption ==
    /\ Window \in Nat /\ ExpireAfter \in Nat /\ RotateAfter \in Nat
    /\ SlowEvery \in Nat /\ FastEvery \in Nat \ {0} /\ StartDelay \in Nat
    /\ SerialsPerTick \in Nat \ {0} /\ Skew \in Int
    /\ SerialMod \in Nat \ {0} /\ WrapZone \in Nat /\ MaxCrashes \in Nat
    /\ MaxLate \in Nat /\ MaxDelay \in Nat
    /\ StartTime \in Nat \ {0} /\ EndTime \in Nat
    /\ StartTime + Skew > RotateAfter
ASSUME LivesAssumption == Lives \in Nat \ {0}

VARIABLES
    now,      \* the collector's clock
    agent,    \* the agent's memory
    keys,     \* session keys created so far, by all lives of the agent
    net,      \* datagrams the network may still deliver, once or often
    table,    \* the collector's session table
    hostserial, \* lastserial of the agent's host, in the collector's memory
    saving,   \* the collector is in handle_auth_packet, before the save
    disk,     \* sessions.json
    crashes,  \* restarts of the collector so far
    (* History variables: no step depends on them. *)
    applied,  \* the last meter packet applied since the collector started
    newest    \* session -> newest key accepted since the collector started

history == <<applied, newest>>
vars == <<now, agent, keys, net, table, hostserial, saving, disk, crashes,
          history>>

Ids == 1 .. Lives

Agent == [life : Ids, serial : Nat, key : Nat, lastkeyrotate : Int,
          nextslow : Int, nextsend : Int]

Packet == [type : {"auth", "meter"}, sessid : Ids, serial : Nat,
           key : Nat, ts : Int]

NothingApplied == [serial |-> 0, ts |-> 0]

(* time(NULL) on the agent's host. *)
AgentTime == now + Skew

(* The memory of an agent that starts now. *)
AgentStart(life) ==
    [life |-> life, serial |-> 0, key |-> 0, lastkeyrotate |-> 0,
     nextslow |-> AgentTime + StartDelay,
     nextsend |-> AgentTime + 2 * StartDelay]

Init ==
    /\ now = StartTime
    /\ agent = AgentStart(1)
    /\ keys = 0
    /\ net = {}
    /\ table = [id \in Ids |-> NoSession]
    /\ hostserial = 0
    /\ saving = FALSE
    /\ disk = [id \in Ids |-> NoSession]
    /\ applied = NothingApplied
    /\ newest = [id \in Ids |-> 0]
    /\ crashes = 0

-----------------------------------------------------------------------------
(* The agent. *)

(* Mutant: serials start over from 1 in every life of the agent. *)
GenSerialFromOne(serial) == serial + 1

(* The first serial of a life is the time, the others count up. *)
gen_serial(serial) ==
    IF serial = 0
    THEN (AgentTime * SerialsPerTick) % SerialMod
    ELSE (serial + 1) % SerialMod

AuthPacket(sessid, serial, key) ==
    [type |-> "auth", sessid |-> sessid, serial |-> serial, key |-> key,
     ts |-> AgentTime]

MeterPacket(sessid, serial, key) ==
    [type |-> "meter", sessid |-> sessid, serial |-> serial, key |-> key,
     ts |-> AgentTime]

(* "Only rotate the AES key every half hour". *)
RotateDue == AgentTime - agent.lastkeyrotate > RotateAfter

(* A slow round: an auth packet, with a fresh key when the old one has     *)
(* been used long enough, and a meter packet if a slow probe has answered. *)
SlowRound(collected) ==
    LET rotate == RotateDue
        key == IF rotate THEN keys + 1 ELSE agent.key
        authserial == gen_serial(agent.serial)
        meterserial == gen_serial(authserial)
        sent == {AuthPacket(agent.life, authserial, key)} \cup
                IF collected
                THEN {MeterPacket(agent.life, meterserial, key)} ELSE {}
    IN  /\ agent.nextslow <= AgentTime
        /\ keys' = IF rotate THEN keys + 1 ELSE keys
        /\ agent' =
             [agent EXCEPT
                !.serial = IF collected THEN meterserial ELSE authserial,
                !.key = key,
                !.lastkeyrotate = IF rotate THEN AgentTime ELSE @,
                !.nextslow = @ + SlowEvery]
        /\ net' = net \cup sent
        /\ UNCHANGED <<now, table, hostserial, saving, disk, crashes, history>>

(* nextsend moves past the present in steps of FastEvery. *)
NextSend ==
    agent.nextsend
      + FastEvery * ((AgentTime - agent.nextsend) \div FastEvery + 1)

(* A fast round, taken when no slow round is due.  With no probe data to   *)
(* send only the schedule moves.                                           *)
FastRound(collected) ==
    LET serial == gen_serial(agent.serial)
    IN  /\ agent.nextslow > AgentTime
        /\ agent.nextsend <= AgentTime
        /\ IF collected
           THEN /\ agent' = [agent EXCEPT !.serial = serial,
                                          !.nextsend = NextSend]
                /\ net' = net \cup
                            {MeterPacket(agent.life, serial, agent.key)}
           ELSE /\ agent' = [agent EXCEPT !.nextsend = NextSend]
                /\ net' = net
        /\ UNCHANGED <<now, keys, table, hostserial, saving, disk, crashes,
                       history>>

(* The agent is stopped and started: a new session id, serial and key. *)
AgentRestart ==
    /\ agent.life + 1 \in Ids
    /\ agent' = AgentStart(agent.life + 1)
    /\ UNCHANGED <<now, keys, net, table, hostserial, saving, disk, crashes,
                   history>>

-----------------------------------------------------------------------------
(* The collector. *)

(* Mutant: any timestamp will do. *)
TimestampIgnored(p) == TRUE

(* The timestamp ioport_decrypt finds in the packet is compared with the   *)
(* collector's clock.                                                      *)
TimestampValid(p) ==
    IF p.ts < now THEN now - p.ts <= Window ELSE p.ts - now <= Window

(* The serial check of resolve_sessionkey, which lets a serial just after  *)
(* the wrap follow one just before it.                                     *)
OldSerial(last, serial) ==
    last >= serial /\ (last < SerialMod - WrapZone \/ serial > WrapZone)

(* Mutant: only the serial of the session is looked at. *)
ResolveBySessionOnly(p) ==
    /\ session_find(table, p.sessid)
    /\ ~OldSerial(table[p.sessid].lastserial, p.serial)

(* The packet's session is known and its serial is new, for the session    *)
(* and for the host.                                                       *)
resolve_sessionkey(p) ==
    /\ session_find(table, p.sessid)
    /\ ~OldSerial(table[p.sessid].lastserial, p.serial)
    /\ ~OldSerial(hostserial, p.serial)

(* What is left of unwrapping once the key to use is known: the session's  *)
(* key must be the one the packet was made with, and the packet in time.   *)
(* An auth packet is made with the tenant's key, which does not change.    *)
ioport_unwrap_meterdata(p) == table[p.sessid].key = p.key /\ TimestampValid(p)
ioport_unwrap_authdata(p) == TimestampValid(p)

(* handle_auth_packet up to the save: a packet that does not decrypt or    *)
(* whose serial is not new changes nothing.  The tenant is known.          *)
HandleAuth(p) ==
    /\ ~saving
    /\ p.type = "auth"
    /\ ioport_unwrap_authdata(p)
    /\ \/ /\ session_find(table, p.sessid)
          /\ table[p.sessid].lastserial < p.serial
          /\ table' = session_expire(
                        Renew(table, p.sessid, p.key, p.serial, now),
                        now - ExpireAfter)
       \/ /\ ~session_find(table, p.sessid)
          /\ table' = session_expire(
                        session_register(table, p.sessid, p.key, now),
                        now - ExpireAfter)
    /\ saving' = TRUE
    /\ newest' = [newest EXCEPT ![p.sessid] = IF p.key > @ THEN p.key ELSE @]
    /\ UNCHANGED <<now, agent, keys, net, hostserial, disk, crashes, applied>>

(* sessiondb_save and db_set_global: the file is replaced as a whole, or,  *)
(* when it cannot be written, not at all.                                  *)
Save ==
    /\ saving
    /\ saving' = FALSE
    /\ disk' \in {sessiondb_save(table), disk}
    /\ UNCHANGED <<now, agent, keys, net, table, hostserial, crashes, history>>

(* handle_meter_packet: resolve_sessionkey notes the serial before the     *)
(* packet is decrypted; the update is dropped if the decryption fails or   *)
(* the host's lock cannot be had in four tries.                            *)
HandleMeter(p, locked) ==
    /\ ~saving
    /\ p.type = "meter"
    /\ resolve_sessionkey(p)
    /\ hostserial' = p.serial
    /\ applied' = IF ioport_unwrap_meterdata(p) /\ locked
                  THEN [serial |-> p.serial, ts |-> p.ts] ELSE applied
    /\ UNCHANGED <<now, agent, keys, net, table, saving, disk, crashes,
                   newest>>

(* The collector stops, at any point, and starts again: daemon_main        *)
(* restores the sessions and creates their hosts anew.                     *)
CollectorRestart ==
    /\ crashes < MaxCrashes
    /\ crashes' = crashes + 1
    /\ table' = session_expire(sessiondb_restore(disk), now - ExpireAfter)
    /\ hostserial' = 0
    /\ saving' = FALSE
    /\ applied' = NothingApplied
    /\ newest' = [id \in Ids |-> table'[id].key]
    /\ UNCHANGED <<now, agent, keys, net, disk>>

-----------------------------------------------------------------------------
(* Time passes; the agent's loop is never more than MaxLate behind, and a  *)
(* datagram does not outlive MaxDelay.                                     *)
Tick ==
    /\ now < EndTime
    /\ AgentTime < agent.nextslow + MaxLate
    /\ now' = now + 1
    /\ net' = {p \in net : now' + Skew - p.ts <= MaxDelay}
    /\ UNCHANGED <<agent, keys, table, hostserial, saving, disk, crashes,
                   history>>

Next ==
    \/ \E collected \in BOOLEAN : SlowRound(collected)
    \/ \E collected \in BOOLEAN : FastRound(collected)
    \/ AgentRestart
    \/ \E p \in net : HandleAuth(p)
    \/ \E p \in net, locked \in BOOLEAN : HandleMeter(p, locked)
    \/ Save
    \/ CollectorRestart
    \/ Tick

Spec == Init /\ [][Next]_vars

-----------------------------------------------------------------------------
(* Type correctness of both programs' memory, the network and the file.    *)
TypeOK ==
    /\ now \in Nat /\ keys \in Nat
    /\ agent \in Agent
    /\ \A p \in net : p \in Packet /\ p.key \in 1 .. keys
    /\ table \in [Ids -> Session] /\ disk \in [Ids -> Session]
    /\ hostserial \in Nat /\ crashes \in 0 .. MaxCrashes
    /\ saving \in BOOLEAN
    /\ applied \in [serial : Nat, ts : Int]
    /\ newest \in [Ids -> Nat]

(* Meter packets are written into the host in the order the agent took     *)
(* the measurements, through losses, repetitions, reordering, rotation of  *)
(* the key and restarts of the agent: resolve_sessionkey turns down what   *)
(* is late.  A restart of the collector starts a new order.                *)
MeterInOrder ==
    [][applied' # applied /\ applied' # NothingApplied =>
         applied'.serial > applied.serial /\ applied'.ts >= applied.ts]_vars

(* The serial check turns down nothing that is new: the next packet of the *)
(* agent, whichever life it is in, has a serial above all the collector    *)
(* has noted for its host and for its session (gen_serial starts a life    *)
(* from the clock).                                                        *)
NextSerialIsNew ==
    LET next == IF agent.serial = 0
                THEN (agent.nextslow * SerialsPerTick) % SerialMod
                ELSE (agent.serial + 1) % SerialMod
    IN  /\ ~OldSerial(hostserial, next)
        /\ table[agent.life].lastserial < next

(* A session's key is the newest one the collector has accepted for it, in *)
(* whichever order the auth packets came: a delayed auth packet never puts *)
(* an earlier key back.  Where the serial does not decide, because         *)
(* session_register leaves lastserial 0, the 180 seconds a packet is valid *)
(* for must, so the property needs the next slow round to be further away. *)
KeyIsNewest ==
    \A id \in Ids : session_find(table, id) => table[id].key = newest[id]
=============================================================================
