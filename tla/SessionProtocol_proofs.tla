----------------------- MODULE SessionProtocol_proofs ----------------------
(***************************************************************************)
(* Proofs about SessionProtocol, for any number of lives of the agent, any *)
(* number of restarts of the collector, whatever the network loses,        *)
(* repeats, delays or reorders.  What the constants must be like for the   *)
(* order of serials and keys is stated in the assumptions of the theorems: *)
(* SerialsFollowTheClock, NoWrap and RoundsApart.                          *)
(***************************************************************************)
EXTENDS SessionProtocol, TLAPS

(* A time as a serial: where the serials of a life begin.                  *)
Clock(t) == t * SerialsPerTick

(* The serials of a life begin at the clock and must stay behind it: those *)
(* of its first slow round are two, and there is time for two more in a    *)
(* fast interval, for four in a slow one, for two before a new life's      *)
(* first round.  (With a serial a second: 60 >= 2, 300 - MaxLate >= 4 and  *)
(* 5 - MaxLate >= 2.)                                                      *)
SerialsFollowTheClock ==
    /\ Clock(FastEvery) >= 2
    /\ Clock(SlowEvery - MaxLate) >= 4
    /\ Clock(StartDelay - MaxLate) >= 2

(* The clock, as a serial, is not near its wrap, which is in 2106.         *)
NoWrap ==
    /\ StartTime <= EndTime
    /\ Clock(EndTime + Skew + StartDelay) < SerialMod - WrapZone

(* An auth packet is no longer valid when the next slow round sends one.   *)
RoundsApart == SlowEvery - MaxLate > Window + Skew

------------------------------------------------------------------------------
(* The agent's loop is in time; before its first slow round it has sent    *)
(* nothing, and the round will make a key.                                 *)
ScheduleInv ==
    /\ now \in StartTime .. EndTime
    /\ AgentTime <= agent.nextslow + MaxLate
    /\ agent.serial = 0 =>
          /\ agent.key = 0 /\ agent.lastkeyrotate = 0
          /\ agent.nextsend = agent.nextslow + StartDelay
          /\ agent.nextslow <= AgentTime + StartDelay
          /\ agent.nextslow > 0
    /\ agent.serial # 0 => agent.key \in 1 .. keys

(* How far the serials may be ahead of twice the clock: what is owed to    *)
(* the next fast and the next slow round has been saved up by the time     *)
(* they are due.                                                           *)
OwedToFast == 2 - Clock(agent.nextsend - AgentTime)
OwedToSlow == 4 - Clock(agent.nextslow - AgentTime)
SerialInv ==
    agent.serial # 0 =>
        LET clock == 2 * Clock(AgentTime) + 2
        IN  /\ 2 * agent.serial <= clock
            /\ 2 * agent.serial + OwedToFast <= clock
            /\ 2 * agent.serial + OwedToSlow <= clock
            /\ 2 * agent.serial + OwedToFast + OwedToSlow <= clock

(* No serial that was ever sent is above this one.                         *)
LastSerial ==
    IF agent.serial = 0 THEN Clock(agent.nextslow) - 1
    ELSE agent.serial

(* What is in the network is from the past of this life or an earlier one. *)
NetInv ==
    \A p \in net :
        /\ p.sessid <= agent.life
        /\ p.serial \in 1 .. LastSerial
        /\ p.ts \in 0 .. AgentTime
        /\ p.sessid = agent.life =>
              /\ p.serial <= agent.serial
              /\ p.key <= agent.key
              /\ p.type = "auth" =>
                    p.ts <= agent.nextslow - SlowEvery + MaxLate

(* Serials are in the order of measurement, and so is what was applied.    *)
OrderInv ==
    /\ \A p, q \in net : p.serial > q.serial => p.ts >= q.ts
    /\ \A p \in net : p.serial > applied.serial => p.ts >= applied.ts
    /\ applied.serial <= hostserial /\ hostserial <= LastSerial
    /\ applied.ts <= AgentTime

(* Of two auth packets of a session the one with the higher serial has no  *)
(* older key, and the one with the newer key was sent a slow round later.  *)
AuthOrder ==
    \A p, q \in net :
        p.type = "auth" /\ q.type = "auth" /\ p.sessid = q.sessid =>
            /\ p.serial < q.serial => p.key <= q.key
            /\ p.key < q.key => p.ts + SlowEvery - MaxLate <= q.ts

(* An entry of the table or of the file for a session: the agent is past   *)
(* it, and an auth packet with an older key is behind it in serial (unless *)
(* the entry is without one) and was sent a slow round before it.          *)
EntryInv(id, e) ==
    IF e.key = 0 THEN e = NoSession
    ELSE /\ id <= agent.life
         /\ e.lastcycle <= now
         /\ id = agent.life => /\ e.key <= agent.key
                               /\ e.lastserial <= agent.serial
         /\ \A p \in net :
               p.type = "auth" /\ p.sessid = id /\ p.key < e.key =>
                   /\ e.lastserial = 0 \/ p.serial <= e.lastserial
                   /\ p.ts + SlowEvery - MaxLate <= e.lastcycle + Skew

(* Of a session that has expired no auth packet with an older key than the *)
(* newest is valid any more.                                               *)
GoneInv(id) ==
    table[id].key = 0 =>
        /\ newest[id] # 0 => id <= agent.life
        /\ id = agent.life => newest[id] <= agent.key
        /\ \A p \in net :
              p.type = "auth" /\ p.sessid = id /\ p.key < newest[id] =>
                  p.ts < now - Window

KeysInv ==
    \A id \in Ids :
        /\ EntryInv(id, table[id]) /\ EntryInv(id, disk[id])
        /\ GoneInv(id)
        /\ table[id].key # 0 => table[id].key = newest[id]

OrderIInv == TypeOK /\ ScheduleInv /\ SerialInv /\ NetInv /\ OrderInv
IInv == OrderIInv /\ AuthOrder /\ KeysInv

------------------------------------------------------------------------------
(* Arithmetic on the clock as a serial. *)

(* A later time has a higher serial.                                       *)
LEMMA ClockIsMonotone ==
    ASSUME NEW a \in Int, NEW b \in Int, a <= b
    PROVE  Clock(a) <= Clock(b)
  BY TimesAssumption, SMT DEF Clock

(* A time as a serial has the sign of the time.                            *)
LEMMA ClockIsSerial ==
    ASSUME NEW a \in Int
    PROVE  /\ Clock(a) \in Int
           /\ a > 0 => Clock(a) > 0
           /\ a <= 0 => Clock(a) <= 0
  BY TimesAssumption, SMT DEF Clock

(* Times that are added.                                                   *)
LEMMA ClockAdds ==
    ASSUME NEW a \in Int, NEW b \in Int
    PROVE  Clock(a + b) = Clock(a) + Clock(b)
  BY TimesAssumption, SMT DEF Clock

(* What a second is worth in serials.                                      *)
LEMMA ClockTicks ==
    ASSUME NEW a \in Int
    PROVE  Clock(a) = Clock(a - 1) + Clock(1)
  BY TimesAssumption, SMT DEF Clock

(* The schedule of fast rounds moves by at least one interval.             *)
LEMMA NextSendIsLater ==
    ASSUME agent.nextsend \in Int, now \in Int,
           agent.nextsend <= AgentTime
    PROVE  NextSend \in Int /\ NextSend >= agent.nextsend + FastEvery
  BY TimesAssumption, SMT DEF NextSend, AgentTime

(* There is time for two serials before the first round of a new life.     *)
LEMMA StartIsFarEnough ==
    ASSUME SerialsFollowTheClock
    PROVE  Clock(StartDelay) \in Int /\ Clock(StartDelay) >= 2
  <1>1. Clock(StartDelay - MaxLate) <= Clock(StartDelay)
    BY ClockIsMonotone, TimesAssumption
  <1>2. Clock(StartDelay - MaxLate) \in Int /\ Clock(StartDelay) \in Int
    BY ClockIsSerial, TimesAssumption
  <1> QED
    BY <1>1, <1>2 DEF SerialsFollowTheClock

(* A slow interval is worth the serials of two slow rounds.                *)
LEMMA RoundsAreRare ==
    ASSUME SerialsFollowTheClock
    PROVE  Clock(SlowEvery) \in Int /\ Clock(SlowEvery) >= 4
  <1>1. Clock(SlowEvery - MaxLate) <= Clock(SlowEvery)
    BY ClockIsMonotone, TimesAssumption
  <1>2. Clock(SlowEvery - MaxLate) \in Int /\ Clock(SlowEvery) \in Int
    BY ClockIsSerial, TimesAssumption
  <1> QED
    BY <1>1, <1>2 DEF SerialsFollowTheClock

(* What the assumptions mean for the serials at any moment: those sent     *)
(* are behind those of a life that would start now, and none is near the   *)
(* wrap.                                                                   *)
LEMMA SerialBounds ==
    ASSUME SerialsFollowTheClock, NoWrap, OrderIInv
    PROVE  LET next == Clock(AgentTime + StartDelay)
           IN  /\ LastSerial \in Nat /\ next \in Nat
               /\ LastSerial < next /\ next < SerialMod - WrapZone
               /\ agent.serial = 0 => Clock(agent.nextslow) <= next
               /\ agent.serial # 0 => agent.serial + 1 <= next
  <1> DEFINE next == Clock(AgentTime + StartDelay)
  <1>1. /\ agent.serial \in Nat /\ agent.nextslow \in Int
        /\ now \in StartTime .. EndTime /\ AgentTime \in Int /\ AgentTime > 0
    BY TimesAssumption
       DEF OrderIInv, TypeOK, Agent, ScheduleInv, AgentTime
  <1>2. /\ next \in Int /\ next = Clock(AgentTime) + Clock(StartDelay)
        /\ Clock(AgentTime) \in Int /\ Clock(AgentTime) > 0
    <2>1. next = Clock(AgentTime) + Clock(StartDelay)
      BY <1>1, ClockAdds, TimesAssumption
    <2> QED
      BY <1>1, <2>1, ClockIsSerial, TimesAssumption
  <1>3. next < SerialMod - WrapZone
    <2>1. next <= Clock(EndTime + Skew + StartDelay)
      BY <1>1, ClockIsMonotone, TimesAssumption DEF AgentTime
    <2>2. Clock(EndTime + Skew + StartDelay) \in Int
      BY ClockIsSerial, TimesAssumption
    <2> QED
      BY <1>2, <2>1, <2>2, TimesAssumption DEF NoWrap
  <1>4. CASE agent.serial = 0
    <2>1. agent.nextslow > 0 /\ agent.nextslow <= AgentTime + StartDelay
      BY <1>4 DEF OrderIInv, ScheduleInv
    <2>2. /\ Clock(agent.nextslow) \in Int /\ Clock(agent.nextslow) > 0
          /\ Clock(agent.nextslow) <= next
      BY <2>1, <1>1, ClockIsSerial, ClockIsMonotone, TimesAssumption
    <2> QED
      BY <1>1, <1>2, <1>3, <1>4, <2>2 DEF LastSerial
  <1>5. CASE agent.serial # 0
    <2>1. 2 * agent.serial <= 2 * Clock(AgentTime) + 2
      BY <1>5 DEF OrderIInv, SerialInv
    <2> QED
      BY <1>1, <1>2, <1>3, <1>5, <2>1, StartIsFarEnough DEF LastSerial
  <1> QED
    BY <1>4, <1>5

(* The first serial of a life: the clock, above all that were sent.        *)
LEMMA FirstSerial ==
    ASSUME SerialsFollowTheClock, NoWrap, OrderIInv,
           agent.serial = 0, agent.nextslow <= AgentTime
    PROVE  /\ gen_serial(agent.serial) = Clock(AgentTime)
           /\ Clock(AgentTime) \in Nat \ {0}
           /\ Clock(AgentTime) > LastSerial
           /\ Clock(AgentTime) + 1 < SerialMod
  <1>1. /\ agent.nextslow \in Int /\ agent.nextslow > 0 /\ AgentTime \in Int
    BY TimesAssumption
       DEF OrderIInv, TypeOK, Agent, ScheduleInv, AgentTime
  <1>2. /\ Clock(agent.nextslow) \in Int /\ Clock(agent.nextslow) > 0
        /\ Clock(agent.nextslow) <= Clock(AgentTime)
        /\ Clock(AgentTime) \in Int
    BY <1>1, ClockIsSerial, ClockIsMonotone
  <1>6. Clock(AgentTime + StartDelay) = Clock(AgentTime) + Clock(StartDelay)
    BY <1>1, ClockAdds, TimesAssumption
  <1>3. Clock(AgentTime) + 1 < SerialMod
    BY <1>2, <1>6, SerialBounds, StartIsFarEnough, TimesAssumption
  <1>4. Clock(AgentTime) % SerialMod = Clock(AgentTime)
    BY <1>2, <1>3, TimesAssumption
  <1>5. gen_serial(agent.serial) = Clock(AgentTime) % SerialMod
    BY DEF gen_serial, Clock
  <1> QED
    BY <1>1, <1>2, <1>3, <1>4, <1>5 DEF LastSerial

(* The others count up, and do not wrap.                                   *)
LEMMA FurtherSerial ==
    ASSUME NEW serial \in Nat, serial # 0, serial + 1 < SerialMod
    PROVE  gen_serial(serial) = serial + 1
  BY TimesAssumption DEF gen_serial

------------------------------------------------------------------------------
(* Each action keeps the serials in order. *)

(* The types of what the agent's steps are about.                          *)
LEMMA AgentTypes ==
    ASSUME TypeOK
    PROVE  /\ now \in Nat /\ AgentTime \in Int /\ keys \in Nat
           /\ agent.life \in Ids /\ agent.serial \in Nat
           /\ agent.key \in Nat /\ agent.lastkeyrotate \in Int
           /\ agent.nextslow \in Int /\ agent.nextsend \in Int
           /\ agent.nextslow - AgentTime \in Int
           /\ agent.nextsend - AgentTime \in Int
  BY TimesAssumption DEF TypeOK, Agent, AgentTime

(* A round that is due can afford its serials.                             *)
LEMMA SlowSerials ==
    ASSUME SerialsFollowTheClock, NoWrap, OrderIInv,
           agent.nextslow <= AgentTime
    PROVE  LET authserial == gen_serial(agent.serial)
           IN  /\ authserial \in Nat \ {0}
               /\ authserial > LastSerial
               /\ authserial <= Clock(AgentTime)
               /\ gen_serial(authserial) = authserial + 1
               /\ agent.serial # 0 => authserial = agent.serial + 1
  <1>1. agent.serial \in Nat /\ Clock(AgentTime) \in Int
    BY AgentTypes, ClockIsSerial DEF OrderIInv
  <1>2. CASE agent.serial = 0
    BY <1>1, <1>2, FirstSerial, FurtherSerial
  <1>3. CASE agent.serial # 0
    <2>1. OwedToSlow >= 4 /\ OwedToSlow \in Int
      BY AgentTypes, ClockIsSerial DEF OrderIInv, OwedToSlow
    <2>2. agent.serial + 1 <= Clock(AgentTime)
      BY <1>1, <1>3, <2>1 DEF OrderIInv, SerialInv
    <2>3. Clock(AgentTime) + 2 <= Clock(AgentTime + StartDelay)
      <3>1. /\ AgentTime \in Int /\ StartDelay \in Int
        BY AgentTypes, TimesAssumption DEF OrderIInv
      <3>2. Clock(AgentTime + StartDelay)
              = Clock(AgentTime) + Clock(StartDelay)
        BY <3>1, ClockAdds
      <3> QED
        BY <1>1, <3>2, StartIsFarEnough
    <2>4. agent.serial + 2 < SerialMod
      BY <1>1, <2>2, <2>3, SerialBounds, TimesAssumption
    <2> QED
      <3>1. gen_serial(agent.serial) = agent.serial + 1
        BY <1>1, <1>3, <2>4, FurtherSerial, TimesAssumption
      <3>2. gen_serial(agent.serial + 1) = agent.serial + 2
        BY <1>1, <2>4, FurtherSerial
      <3> QED
        BY <1>1, <1>3, <2>2, <3>1, <3>2 DEF LastSerial
  <1> QED
    BY <1>2, <1>3

(* A fast round is in a life that has sent, and counts its serial on.      *)
LEMMA FastSerial ==
    ASSUME SerialsFollowTheClock, NoWrap, OrderIInv,
           agent.nextslow > AgentTime, agent.nextsend <= AgentTime
    PROVE  /\ agent.serial # 0
           /\ gen_serial(agent.serial) = agent.serial + 1
  <1>1. agent.serial # 0
    BY AgentTypes, TimesAssumption DEF OrderIInv, ScheduleInv
  <1> QED
    BY <1>1, SerialBounds, FurtherSerial, AgentTypes, TimesAssumption
       DEF OrderIInv

(* Sending packets with new serials, made now.                             *)
LEMMA SendingKeepsOrder ==
    ASSUME OrderIInv, now' = now, applied' = applied,
           hostserial' = hostserial, agent'.life = agent.life,
           agent'.serial \in Nat, agent'.serial # 0,
           agent'.serial >= LastSerial, LastSerial \in Nat,
           agent'.serial >= agent.serial,
           agent'.key \in Nat, agent'.key >= agent.key,
           agent'.nextslow \in Int, agent'.nextslow >= agent.nextslow,
           NEW sent, net' = net \cup sent,
           \A p \in sent :
              /\ p.sessid = agent.life /\ p.key = agent'.key
              /\ p.serial \in Nat /\ p.serial > LastSerial
              /\ p.serial <= agent'.serial
              /\ p.ts = AgentTime
              /\ p.type = "auth" =>
                    AgentTime <= agent'.nextslow - SlowEvery + MaxLate
    PROVE  NetInv' /\ OrderInv'
  <1>1. LastSerial' = agent'.serial /\ AgentTime' = AgentTime
    BY DEF LastSerial, AgentTime
  <1>2. /\ AgentTime \in Nat /\ agent.serial \in Nat /\ agent.life \in Nat
        /\ agent.key \in Nat /\ agent.nextslow \in Int
        /\ applied.serial \in Nat /\ applied.ts \in Int /\ hostserial \in Nat
    <2>1. /\ AgentTime \in Nat /\ agent.serial \in Nat
          /\ agent.life \in Nat /\ agent.key \in Nat
          /\ agent.nextslow \in Int
      BY AgentTypes, TimesAssumption
         DEF OrderIInv, ScheduleInv, AgentTime, Ids
    <2>2. applied.serial \in Nat /\ applied.ts \in Int
      BY DEF OrderIInv, TypeOK
    <2>3. hostserial \in Nat
      BY DEF OrderIInv, TypeOK
    <2> QED
      BY <2>1, <2>2, <2>3
  <1>3. \A p \in net : /\ p.sessid \in Nat /\ p.serial \in Nat
                       /\ p.ts \in Int /\ p.key \in Nat
    <2>1. net \subseteq Packet
      BY DEF OrderIInv, TypeOK
    <2>2. \A p \in Packet : /\ p.sessid \in Nat /\ p.serial \in Nat
                            /\ p.ts \in Int /\ p.key \in Nat
      BY DEF Packet, Ids
    <2> QED
      BY <2>1, <2>2
  <1>4. NetInv'
    <2> SUFFICES ASSUME NEW p \in net'
                 PROVE  /\ p.sessid <= agent'.life
                        /\ p.serial \in 1 .. LastSerial'
                        /\ p.ts \in 0 .. AgentTime'
                        /\ p.sessid = agent'.life =>
                             /\ p.serial <= agent'.serial
                             /\ p.key <= agent'.key
                             /\ p.type = "auth" =>
                                  p.ts <= agent'.nextslow
                                            - SlowEvery + MaxLate
      BY DEF NetInv
    <2>1. CASE p \in net
      BY <1>1, <1>2, <1>3, <2>1, TimesAssumption DEF OrderIInv, NetInv
    <2>2. CASE p \in sent
      BY <1>1, <1>2, <2>2, TimesAssumption
    <2> QED
      BY <2>1, <2>2
  <1>5. \A p, q \in net' : p.serial > q.serial => p.ts >= q.ts
    <2> SUFFICES ASSUME NEW p \in net', NEW q \in net',
                        p.serial > q.serial
                 PROVE  p.ts >= q.ts
      OBVIOUS
    <2>1. CASE p \in net /\ q \in net
      BY <2>1 DEF OrderIInv, OrderInv
    <2>2. CASE p \in sent
      BY <1>2, <1>3, <2>2 DEF OrderIInv, NetInv
    <2>3. CASE p \in net /\ q \in sent
      BY <1>2, <1>3, <2>3 DEF OrderIInv, NetInv
    <2> QED
      BY <2>1, <2>2, <2>3
  <1>6. \A p \in net' : p.serial > applied.serial => p.ts >= applied.ts
    BY <1>2 DEF OrderIInv, OrderInv
  <1> QED
    BY <1>1, <1>2, <1>4, <1>5, <1>6 DEF OrderInv, OrderIInv

(* A slow round. *)
LEMMA SlowStep ==
    ASSUME SerialsFollowTheClock, NoWrap, OrderIInv,
           NEW collected \in BOOLEAN, SlowRound(collected)
    PROVE  OrderIInv'
  <1> DEFINE authserial == gen_serial(agent.serial)
             meterserial == gen_serial(authserial)
             last == IF collected THEN meterserial ELSE authserial
             key == IF RotateDue THEN keys + 1 ELSE agent.key
             sent == {AuthPacket(agent.life, authserial, key)} \cup
                     IF collected
                     THEN {MeterPacket(agent.life, meterserial, key)} ELSE {}
  <1>1. /\ authserial \in Nat \ {0} /\ authserial > LastSerial
        /\ authserial <= Clock(AgentTime)
        /\ meterserial = authserial + 1
        /\ agent.serial # 0 => authserial = agent.serial + 1
        /\ LastSerial \in Nat
        /\ last \in Nat \ {0} /\ last <= Clock(AgentTime) + 1
        /\ last >= authserial
        /\ last <= authserial + 1
    <2>1. Clock(AgentTime) \in Int
      BY AgentTypes, ClockIsSerial DEF OrderIInv
    <2> QED
      BY <2>1, SlowSerials, SerialBounds DEF SlowRound
  <1>2. /\ agent' = [agent EXCEPT
              !.serial = last, !.key = key,
              !.lastkeyrotate = IF RotateDue THEN AgentTime ELSE @,
              !.nextslow = @ + SlowEvery]
        /\ net' = net \cup sent
        /\ keys' = IF RotateDue THEN keys + 1 ELSE keys
        /\ UNCHANGED <<now, table, hostserial, saving, disk, crashes, applied,
                       newest>>
        /\ agent.nextslow <= AgentTime /\ AgentTime' = AgentTime
    BY DEF SlowRound, history, AgentTime
  <1>3. /\ agent'.serial = last /\ agent'.key = key
        /\ agent'.nextslow = agent.nextslow + SlowEvery
        /\ agent'.nextsend = agent.nextsend /\ agent'.life = agent.life
    BY <1>2 DEF OrderIInv, TypeOK, Agent
  <1>4. key \in 1 .. keys' /\ key >= agent.key /\ keys' \in Nat
    <2>1. CASE agent.serial = 0
      <3>1. RotateDue
        BY <2>1, AgentTypes, TimesAssumption
           DEF OrderIInv, ScheduleInv, RotateDue, AgentTime
      <3> QED
        BY <1>2, <2>1, <3>1, AgentTypes DEF OrderIInv, ScheduleInv
    <2>2. CASE agent.serial # 0
      BY <1>2, <2>2, AgentTypes DEF OrderIInv, ScheduleInv
    <2> QED
      BY <2>1, <2>2
  <1>5. TypeOK'
    <2>1. agent' \in Agent
      <3>1. /\ last \in Nat /\ key \in Nat /\ agent \in Agent
            /\ agent.nextslow + SlowEvery \in Int
            /\ AgentTime \in Int
        BY <1>1, <1>4, AgentTypes, TimesAssumption DEF OrderIInv, TypeOK
      <3> HIDE DEF last, key
      <3> QED
        BY <1>2, <3>1 DEF Agent
    <2>2. \A p \in sent : p \in Packet /\ p.key \in 1 .. keys'
      BY <1>1, <1>4, AgentTypes
         DEF OrderIInv, Packet, AuthPacket, MeterPacket
    <2>3. \A p \in net : p.key \in 1 .. keys'
      BY <1>2, AgentTypes DEF OrderIInv, TypeOK
    <2> HIDE DEF sent
    <2> QED
      BY <1>2, <1>4, <2>1, <2>2, <2>3 DEF OrderIInv, TypeOK
  <1>6. ScheduleInv'
    BY <1>1, <1>2, <1>3, <1>4, AgentTypes, TimesAssumption
       DEF OrderIInv, ScheduleInv
  <1>7. SerialInv'
    <2>1. /\ OwedToFast \in Int /\ OwedToSlow \in Int
          /\ OwedToFast' \in Int /\ OwedToSlow' \in Int
          /\ Clock(AgentTime) \in Int
      BY <1>2, <1>3, AgentTypes, ClockIsSerial, TimesAssumption
         DEF OrderIInv, OwedToFast, OwedToSlow
    <2>2. OwedToFast' = OwedToFast
      BY <1>2, <1>3 DEF OwedToFast
    <2>3. OwedToSlow' + 4 <= OwedToSlow
      <3>1. Clock(agent.nextslow + SlowEvery - AgentTime)
              = Clock(agent.nextslow - AgentTime) + Clock(SlowEvery)
        <4> DEFINE due == agent.nextslow - AgentTime
        <4>1. /\ agent.nextslow + SlowEvery - AgentTime = due + SlowEvery
              /\ due \in Int
          BY AgentTypes, TimesAssumption DEF OrderIInv
        <4>2. Clock(due + SlowEvery) = Clock(due) + Clock(SlowEvery)
          <5> HIDE DEF due
          <5> QED
            BY <4>1, ClockAdds, TimesAssumption
        <4> QED
          BY <4>1, <4>2
      <3>2. Clock(SlowEvery) >= 4 /\ Clock(SlowEvery) \in Int
        BY RoundsAreRare
      <3>3. Clock(agent.nextslow - AgentTime) \in Int
        BY AgentTypes, ClockIsSerial DEF OrderIInv
      <3>4. /\ OwedToSlow = 4 - Clock(agent.nextslow - AgentTime)
            /\ OwedToSlow'
                 = 4 - Clock(agent.nextslow + SlowEvery - AgentTime)
        <4> HIDE DEF last, key, sent
        <4> QED
          BY <1>2, <1>3, AgentTypes, TimesAssumption
             DEF OrderIInv, OwedToSlow
      <3> QED
        BY <3>1, <3>2, <3>3, <3>4
    <2>4. CASE agent.serial = 0
      <3>1. OwedToFast' <= 0
        <4>1. agent.nextsend - AgentTime >= StartDelay - MaxLate
          BY <2>4, AgentTypes, TimesAssumption DEF OrderIInv, ScheduleInv
        <4>2. Clock(agent.nextsend - AgentTime) >= 2
          BY <4>1, AgentTypes, ClockIsMonotone, ClockIsSerial,
             TimesAssumption DEF OrderIInv, SerialsFollowTheClock
        <4> QED
          BY <4>2, <2>2, AgentTypes, ClockIsSerial
             DEF OrderIInv, OwedToFast
      <3>2. OwedToSlow' <= 0
        <4>1. agent'.nextslow - AgentTime >= SlowEvery - MaxLate
          BY <1>3, AgentTypes, TimesAssumption DEF OrderIInv, ScheduleInv
        <4>2. agent'.nextslow - AgentTime \in Int
          BY <1>3, AgentTypes, TimesAssumption DEF OrderIInv
        <4>3. Clock(agent'.nextslow - AgentTime) >= 4
          BY <4>1, <4>2, ClockIsMonotone, ClockIsSerial,
             TimesAssumption DEF SerialsFollowTheClock
        <4> QED
          BY <1>2, <4>2, <4>3, ClockIsSerial DEF OwedToSlow
      <3> QED
        BY <1>1, <1>2, <1>3, <2>1, <3>1, <3>2 DEF SerialInv
    <2>5. CASE agent.serial # 0
      <3>1. /\ 2 * agent.serial + OwedToSlow <= 2 * Clock(AgentTime) + 2
            /\ 2 * agent.serial + OwedToFast + OwedToSlow
                 <= 2 * Clock(AgentTime) + 2
        BY <2>5 DEF OrderIInv, SerialInv
      <3>2. OwedToSlow >= 4
        BY <1>2, AgentTypes, ClockIsSerial DEF OrderIInv, OwedToSlow
      <3>3. last <= agent.serial + 2 /\ agent.serial \in Nat
        BY <1>1, <2>5, AgentTypes DEF OrderIInv
      <3>4. /\ last \in Nat /\ agent'.serial = last
            /\ AgentTime' = AgentTime
        BY <1>1, <1>2, <1>3
      <3> HIDE DEF last, authserial, meterserial, key, sent
      <3>5. /\ 2 * last <= 2 * Clock(AgentTime) + 2
            /\ 2 * last + OwedToFast' <= 2 * Clock(AgentTime) + 2
            /\ 2 * last + OwedToSlow' <= 2 * Clock(AgentTime) + 2
            /\ 2 * last + OwedToFast' + OwedToSlow'
                 <= 2 * Clock(AgentTime) + 2
        <4>1. PICK tofast \in Int, toslow \in Int :
                  tofast = OwedToFast' /\ toslow = OwedToSlow'
          BY <2>1
        <4>2. tofast = OwedToFast /\ toslow + 4 <= OwedToSlow
          BY <2>2, <2>3, <4>1
        <4>3. /\ 2 * last <= 2 * Clock(AgentTime) + 2
              /\ 2 * last + tofast <= 2 * Clock(AgentTime) + 2
              /\ 2 * last + toslow <= 2 * Clock(AgentTime) + 2
              /\ 2 * last + tofast + toslow <= 2 * Clock(AgentTime) + 2
          BY <2>1, <3>1, <3>2, <3>3, <3>4, <4>2
        <4> QED
          BY <4>1, <4>3
      <3> QED
        BY <3>4, <3>5 DEF SerialInv
    <2> QED
      BY <2>4, <2>5
  <1>8. NetInv' /\ OrderInv'
    <2>1. \A p \in sent :
              /\ p.sessid = agent.life /\ p.key = agent'.key
              /\ p.serial \in Nat /\ p.serial > LastSerial
              /\ p.serial <= agent'.serial
              /\ p.ts = AgentTime
      BY <1>1, <1>3 DEF AuthPacket, MeterPacket
    <2>2. /\ agent.serial <= LastSerial \/ agent.serial = 0
          /\ AgentTime <= agent'.nextslow - SlowEvery + MaxLate
      BY <1>3, AgentTypes, TimesAssumption
         DEF OrderIInv, ScheduleInv, LastSerial
    <2> HIDE DEF sent, last, key, authserial
    <2>3. agent'.serial \in Nat /\ agent'.serial # 0
      BY <1>1, <1>3
    <2>4. agent'.serial >= LastSerial /\ agent'.serial >= agent.serial
      BY <1>1, <1>3, <2>2, AgentTypes DEF OrderIInv
    <2>5. /\ agent'.key \in Nat /\ agent'.key >= agent.key
          /\ agent'.nextslow \in Int /\ agent'.nextslow >= agent.nextslow
      BY <1>3, <1>4, AgentTypes, TimesAssumption DEF OrderIInv
    <2> QED
      BY <1>1, <1>2, <1>3, <2>1, <2>2, <2>3, <2>4, <2>5, SendingKeepsOrder
  <1> QED
    BY <1>5, <1>6, <1>7, <1>8 DEF OrderIInv

(* A fast round: only an agent that has had its first slow round sends.    *)
LEMMA FastStep ==
    ASSUME SerialsFollowTheClock, NoWrap, OrderIInv,
           NEW collected \in BOOLEAN, FastRound(collected)
    PROVE  OrderIInv'
  <1> DEFINE serial == gen_serial(agent.serial)
             last == IF collected THEN serial ELSE agent.serial
             sent == IF collected
                     THEN {MeterPacket(agent.life, serial, agent.key)} ELSE {}
  <1>1. /\ agent.serial # 0 /\ serial = agent.serial + 1
        /\ agent.serial \in Nat /\ LastSerial = agent.serial
        /\ last \in {agent.serial, agent.serial + 1}
    BY FastSerial, AgentTypes DEF FastRound, OrderIInv, LastSerial
  <1>2. /\ agent' = [agent EXCEPT !.serial = last, !.nextsend = NextSend]
        /\ net' = net \cup sent
        /\ agent.nextsend <= AgentTime
        /\ UNCHANGED <<now, keys, table, hostserial, saving, disk, crashes,
                       applied, newest>>
    <2>1. agent \in Agent
      BY DEF OrderIInv, TypeOK
    <2> QED
      BY <2>1, <1>1 DEF FastRound, history, Agent
  <1>3. /\ NextSend \in Int /\ NextSend >= agent.nextsend + FastEvery
        /\ AgentTime' = AgentTime
    BY <1>2, AgentTypes, NextSendIsLater DEF OrderIInv, AgentTime
  <1>4. /\ agent'.serial = last /\ agent'.key = agent.key
        /\ agent'.nextslow = agent.nextslow /\ agent'.nextsend = NextSend
        /\ agent'.life = agent.life
    BY <1>2 DEF OrderIInv, TypeOK, Agent
  <1>5. TypeOK'
    <2>1. agent' \in Agent
      <3>1. last \in Nat /\ agent \in Agent
        BY <1>1 DEF OrderIInv, TypeOK
      <3> HIDE DEF last
      <3> QED
        BY <1>2, <1>3, <3>1 DEF Agent
    <2>2. \A p \in sent : p \in Packet /\ p.key \in 1 .. keys
      BY <1>1, AgentTypes DEF OrderIInv, ScheduleInv, Packet, MeterPacket
    <2> HIDE DEF sent, last
    <2> QED
      BY <1>2, <2>1, <2>2 DEF OrderIInv, TypeOK
  <1>6. ScheduleInv'
    BY <1>1, <1>2, <1>3, <1>4, AgentTypes, TimesAssumption
       DEF OrderIInv, ScheduleInv
  <1>7. SerialInv'
    <2>1. /\ 2 * agent.serial + OwedToFast <= 2 * Clock(AgentTime) + 2
          /\ 2 * agent.serial + OwedToFast + OwedToSlow
               <= 2 * Clock(AgentTime) + 2
      BY <1>1 DEF OrderIInv, SerialInv
    <2>2. /\ OwedToFast \in Int /\ OwedToSlow \in Int
          /\ Clock(AgentTime) \in Int /\ OwedToFast >= 2
      BY <1>2, AgentTypes, ClockIsSerial
         DEF OrderIInv, OwedToFast, OwedToSlow
    <2>3. Clock(NextSend - AgentTime)
            >= Clock(agent.nextsend - AgentTime) + 2
      <3> DEFINE due == agent.nextsend - AgentTime
      <3>1. /\ due \in Int /\ NextSend - AgentTime \in Int
            /\ due + FastEvery <= NextSend - AgentTime
        BY <1>3, AgentTypes, TimesAssumption DEF OrderIInv
      <3>2. /\ Clock(due + FastEvery) <= Clock(NextSend - AgentTime)
            /\ Clock(due) \in Int /\ Clock(FastEvery) \in Int
            /\ Clock(due + FastEvery) \in Int
            /\ Clock(NextSend - AgentTime) \in Int
        <4> HIDE DEF due
        <4> QED
          BY <3>1, ClockIsMonotone, ClockIsSerial, TimesAssumption
      <3>3. Clock(due + FastEvery) = Clock(due) + Clock(FastEvery)
        <4> HIDE DEF due
        <4> QED
          BY <3>1, ClockAdds, TimesAssumption
      <3> QED
        BY <3>2, <3>3 DEF SerialsFollowTheClock
    <2>4. PICK tofast \in Int, toslow \in Int :
              tofast = OwedToFast' /\ toslow = OwedToSlow'
      <3>1. /\ agent'.nextsend - AgentTime' \in Int
            /\ agent'.nextslow - AgentTime' \in Int
        BY <1>3, <1>4, AgentTypes DEF OrderIInv
      <3> QED
        BY <3>1, ClockIsSerial DEF OwedToFast, OwedToSlow
    <2>5. tofast <= OwedToFast - 2 /\ toslow = OwedToSlow
      <3>1. /\ tofast = 2 - Clock(NextSend - AgentTime)
            /\ toslow = 4 - Clock(agent.nextslow - AgentTime)
        BY <1>3, <1>4, <2>4, AgentTypes
           DEF OrderIInv, OwedToFast, OwedToSlow
      <3>2. /\ Clock(agent.nextsend - AgentTime) \in Int
            /\ Clock(NextSend - AgentTime) \in Int
        BY <1>3, AgentTypes, ClockIsSerial DEF OrderIInv
      <3> QED
        BY <2>3, <3>1, <3>2 DEF OwedToFast, OwedToSlow
    <2>6. last <= agent.serial + 1 /\ last \in Nat
      BY <1>1
    <2> HIDE DEF last, serial, sent
    <2>7. /\ 2 * last <= 2 * Clock(AgentTime) + 2
          /\ 2 * last + tofast <= 2 * Clock(AgentTime) + 2
          /\ 2 * last + toslow <= 2 * Clock(AgentTime) + 2
          /\ 2 * last + tofast + toslow <= 2 * Clock(AgentTime) + 2
      BY <1>1, <2>1, <2>2, <2>5, <2>6
    <2> QED
      BY <1>3, <1>4, <2>4, <2>7 DEF SerialInv
  <1>8. NetInv' /\ OrderInv'
    <2>1. \A p \in sent :
              /\ p.sessid = agent.life /\ p.key = agent'.key
              /\ p.serial \in Nat /\ p.serial > LastSerial
              /\ p.serial <= agent'.serial
              /\ p.ts = AgentTime
              /\ p.type = "auth" =>
                    AgentTime <= agent'.nextslow - SlowEvery + MaxLate
      BY <1>1, <1>4 DEF MeterPacket
    <2>2. /\ agent'.serial \in Nat /\ agent'.serial # 0
          /\ agent'.serial >= LastSerial /\ agent'.serial >= agent.serial
          /\ LastSerial \in Nat
      BY <1>1, <1>4
    <2>3. /\ agent'.key \in Nat /\ agent'.key >= agent.key
          /\ agent'.nextslow \in Int /\ agent'.nextslow >= agent.nextslow
      BY <1>4, AgentTypes DEF OrderIInv
    <2> HIDE DEF sent, last, serial
    <2> QED
      BY <1>2, <1>4, <2>1, <2>2, <2>3, SendingKeepsOrder
  <1> QED
    BY <1>5, <1>6, <1>7, <1>8 DEF OrderIInv

(* A new life: its serials will be above all that were sent.               *)
LEMMA AgentRestartStep ==
    ASSUME SerialsFollowTheClock, NoWrap, OrderIInv, AgentRestart
    PROVE  OrderIInv'
  <1>1. /\ agent' = AgentStart(agent.life + 1) /\ agent.life + 1 \in Ids
        /\ UNCHANGED <<now, keys, net, table, hostserial, saving, disk,
                       crashes, applied, newest>>
        /\ AgentTime' = AgentTime
    BY DEF AgentRestart, history, AgentTime
  <1>2. /\ agent'.life = agent.life + 1 /\ agent'.serial = 0
        /\ agent'.key = 0 /\ agent'.lastkeyrotate = 0
        /\ agent'.nextslow = AgentTime + StartDelay
        /\ agent'.nextsend = AgentTime + 2 * StartDelay
    BY <1>1 DEF AgentStart
  <1>3. AgentTime \in Nat \ {0} /\ agent.life \in Nat
    BY AgentTypes, TimesAssumption
       DEF OrderIInv, ScheduleInv, AgentTime, Ids
  <1>4. TypeOK'
    <2>1. agent' \in Agent
      BY <1>1, <1>3, TimesAssumption DEF AgentStart, Agent
    <2> QED
      BY <1>1, <2>1 DEF OrderIInv, TypeOK
  <1>5. ScheduleInv'
    BY <1>1, <1>2, <1>3, TimesAssumption DEF OrderIInv, ScheduleInv
  <1>6. SerialInv'
    BY <1>2 DEF SerialInv
  <1>7. LastSerial' >= LastSerial /\ LastSerial' \in Nat /\ LastSerial \in Nat
    <2>1. LastSerial' = Clock(AgentTime + StartDelay) - 1
      BY <1>2, <1>3, TimesAssumption DEF LastSerial
    <2> QED
      BY <2>1, SerialBounds
  <1>8. NetInv'
    <2> SUFFICES ASSUME NEW p \in net
                 PROVE  /\ p.sessid < agent'.life
                        /\ p.serial \in 1 .. LastSerial'
                        /\ p.ts \in 0 .. AgentTime'
      <3>1. \A p \in net : p.sessid \in Nat
        BY DEF OrderIInv, TypeOK, Packet, Ids
      <3>2. net' = net /\ agent'.life \in Nat
        BY <1>1, <1>2, <1>3
      <3> QED
        BY <3>1, <3>2 DEF NetInv
    <2>1. p.sessid <= agent.life /\ p.sessid \in Nat
      BY DEF OrderIInv, NetInv, TypeOK, Packet, Ids
    <2>2. p.serial \in 1 .. LastSerial'
      BY <1>7 DEF OrderIInv, NetInv
    <2> QED
      BY <1>1, <1>2, <1>3, <2>1, <2>2 DEF OrderIInv, NetInv
  <1>9. OrderInv'
    <2>1. hostserial <= LastSerial'
      BY <1>7 DEF OrderIInv, OrderInv, TypeOK
    <2> QED
      BY <1>1, <2>1 DEF OrderIInv, OrderInv
  <1> QED
    BY <1>4, <1>5, <1>6, <1>8, <1>9 DEF OrderIInv

(* Time passes: the clock moves on by more than what is owed.              *)
LEMMA TickStep ==
    ASSUME OrderIInv, Tick
    PROVE  OrderIInv'
  <1>1. /\ now < EndTime /\ now' = now + 1
        /\ AgentTime < agent.nextslow + MaxLate
        /\ net' \subseteq net
        /\ UNCHANGED <<agent, keys, table, hostserial, saving, disk, crashes,
                       applied, newest>>
    BY DEF Tick, history
  <1>2. /\ AgentTime' = AgentTime + 1 /\ AgentTime \in Nat
        /\ LastSerial' = LastSerial /\ now \in Nat
    BY <1>1, AgentTypes, TimesAssumption
       DEF OrderIInv, ScheduleInv, AgentTime, LastSerial
  <1>3. TypeOK'
    BY <1>1, <1>2 DEF OrderIInv, TypeOK
  <1>4. ScheduleInv'
    BY <1>1, <1>2, AgentTypes, TimesAssumption DEF OrderIInv, ScheduleInv
  <1>5. SerialInv'
    <2> SUFFICES ASSUME agent.serial # 0
                 PROVE  SerialInv'
      BY <1>1 DEF SerialInv
    <2> DEFINE slow == agent.nextslow - AgentTime
               fast == agent.nextsend - AgentTime
    <2>1. /\ slow \in Int /\ fast \in Int /\ AgentTime \in Int
          /\ slow - 1 \in Int /\ fast - 1 \in Int
          /\ agent'.nextslow - AgentTime' = slow - 1
          /\ agent'.nextsend - AgentTime' = fast - 1
      BY <1>1, <1>2, AgentTypes DEF OrderIInv
    <2>2. /\ Clock(1) \in Int /\ Clock(1) > 0
          /\ Clock(AgentTime + 1) = Clock(AgentTime) + Clock(1)
      BY <2>1, ClockIsSerial, ClockAdds
    <2>3. /\ Clock(slow) = Clock(slow - 1) + Clock(1)
          /\ Clock(fast) = Clock(fast - 1) + Clock(1)
      <3> HIDE DEF slow, fast
      <3> QED
        BY <2>1, ClockTicks
    <2>4. PICK tofast \in Int, toslow \in Int :
              tofast = OwedToFast' /\ toslow = OwedToSlow'
      BY <2>1, ClockIsSerial DEF OwedToFast, OwedToSlow
    <2>5. /\ tofast = OwedToFast + Clock(1)
          /\ toslow = OwedToSlow + Clock(1)
          /\ OwedToFast \in Int /\ OwedToSlow \in Int
          /\ Clock(AgentTime) \in Int /\ agent.serial \in Nat
      <3>1. tofast = 2 - Clock(fast - 1) /\ toslow = 4 - Clock(slow - 1)
        BY <2>1, <2>4 DEF OwedToFast, OwedToSlow
      <3>2. OwedToFast = 2 - Clock(fast) /\ OwedToSlow = 4 - Clock(slow)
        BY DEF OwedToFast, OwedToSlow
      <3> HIDE DEF slow, fast
      <3>3. /\ Clock(slow) \in Int /\ Clock(slow - 1) \in Int
            /\ Clock(fast) \in Int /\ Clock(fast - 1) \in Int
            /\ Clock(AgentTime) \in Int /\ agent.serial \in Nat
        BY <2>1, ClockIsSerial, AgentTypes DEF OrderIInv
      <3> QED
        BY <2>2, <2>3, <3>1, <3>2, <3>3
    <2>6. LET clock == 2 * Clock(AgentTime) + 2
          IN  /\ 2 * agent.serial <= clock
              /\ 2 * agent.serial + OwedToFast <= clock
              /\ 2 * agent.serial + OwedToSlow <= clock
              /\ 2 * agent.serial + OwedToFast + OwedToSlow <= clock
      BY DEF OrderIInv, SerialInv
    <2> HIDE DEF slow, fast
    <2>7. LET clock == 2 * Clock(AgentTime + 1) + 2
          IN  /\ 2 * agent.serial <= clock
              /\ 2 * agent.serial + tofast <= clock
              /\ 2 * agent.serial + toslow <= clock
              /\ 2 * agent.serial + tofast + toslow <= clock
      BY <2>2, <2>5, <2>6
    <2> QED
      BY <1>1, <1>2, <2>4, <2>7 DEF SerialInv
  <1>6. NetInv'
    BY <1>1, <1>2 DEF OrderIInv, NetInv, TypeOK, Packet
  <1>7. OrderInv'
    BY <1>1, <1>2 DEF OrderIInv, OrderInv, TypeOK
  <1> QED
    BY <1>3, <1>4, <1>5, <1>6, <1>7 DEF OrderIInv

(* What the collector does leaves the agent and the network alone.         *)
LEMMA CollectorLeavesAgent ==
    ASSUME OrderIInv, UNCHANGED <<now, agent, keys, net>>
    PROVE  /\ ScheduleInv' /\ SerialInv' /\ NetInv'
           /\ AgentTime' = AgentTime /\ LastSerial' = LastSerial
  <1>1. AgentTime' = AgentTime /\ LastSerial' = LastSerial
    BY DEF AgentTime, LastSerial
  <1>2. ScheduleInv' /\ NetInv'
    BY <1>1 DEF OrderIInv, ScheduleInv, NetInv
  <1>3. SerialInv'
    BY DEF OrderIInv, SerialInv, OwedToFast, OwedToSlow, AgentTime
  <1> QED
    BY <1>1, <1>2, <1>3

(* The serial check lets nothing pass that is not above the last one.      *)
LEMMA NewSerialIsHigher ==
    ASSUME SerialsFollowTheClock, NoWrap, OrderIInv,
           NEW last \in Nat, last <= LastSerial, NEW serial \in Nat
    PROVE  ~OldSerial(last, serial) <=> serial > last
  <1>1. last < SerialMod - WrapZone
    BY SerialBounds, TimesAssumption
  <1> QED
    BY <1>1, TimesAssumption DEF OldSerial

(* What a packet that is applied is to those before it.                    *)
LEMMA MeterStep ==
    ASSUME SerialsFollowTheClock, NoWrap, OrderIInv,
           NEW p \in net, NEW locked \in BOOLEAN, HandleMeter(p, locked)
    PROVE  /\ OrderIInv'
           /\ applied' # applied =>
                applied'.serial > applied.serial /\ applied'.ts >= applied.ts
  <1>1. /\ ~OldSerial(hostserial, p.serial) /\ hostserial' = p.serial
        /\ applied' \in {[serial |-> p.serial, ts |-> p.ts], applied}
        /\ UNCHANGED <<now, agent, keys, net, table, saving, disk, crashes,
                       newest>>
    BY DEF HandleMeter, resolve_sessionkey
  <1>2. /\ p.serial \in Nat /\ p.ts \in Int /\ p.serial <= LastSerial
        /\ p.ts <= AgentTime
        /\ hostserial \in Nat /\ hostserial <= LastSerial
        /\ applied.serial \in Nat /\ applied.serial <= hostserial
        /\ applied.ts \in Int
        /\ p.serial > applied.serial => p.ts >= applied.ts
    BY DEF OrderIInv, TypeOK, Packet, NetInv, OrderInv
  <1>3. p.serial > hostserial
    BY <1>1, <1>2, NewSerialIsHigher
  <1>4. /\ ScheduleInv' /\ SerialInv' /\ NetInv'
        /\ AgentTime' = AgentTime /\ LastSerial' = LastSerial
    BY <1>1, CollectorLeavesAgent
  <1>5. TypeOK'
    BY <1>1, <1>2 DEF OrderIInv, TypeOK
  <1>6. OrderInv'
    BY <1>1, <1>2, <1>3, <1>4 DEF OrderIInv, OrderInv
  <1> QED
    BY <1>1, <1>2, <1>3, <1>4, <1>5, <1>6 DEF OrderIInv

(* The table's operators keep to sessions.                                 *)
LEMMA TableTypes ==
    ASSUME NEW t \in [Ids -> Session], NEW id \in Ids, NEW key \in Nat,
           NEW serial \in Nat, NEW tnow \in Int
    PROVE  /\ Renew(t, id, key, serial, tnow) \in [Ids -> Session]
           /\ session_register(t, id, key, tnow) \in [Ids -> Session]
           /\ sessiondb_save(t) = t /\ sessiondb_restore(t) = t
  <1>1. sessiondb_save(t) = t
    <2>1. \A i \in Ids : t[i] = [key |-> t[i].key,
                                 lastserial |-> t[i].lastserial,
                                 lastcycle |-> t[i].lastcycle]
      BY DEF Session
    <2> QED
      BY <2>1 DEF sessiondb_save
  <1> QED
    BY <1>1 DEF Session, Renew, session_register, sessiondb_restore

(* session_expire keeps the table a table of sessions.                     *)
LEMMA ExpiryKeepsType ==
    ASSUME NEW t \in [Ids -> Session], NEW cutoff
    PROVE  session_expire(t, cutoff) \in [Ids -> Session]
  BY DEF Session, NoSession, session_expire

(* An auth packet, the save and a restart are not about serials of meters. *)
LEMMA AuthStepOrder ==
    ASSUME OrderIInv, NEW p \in net, HandleAuth(p)
    PROVE  OrderIInv'
  <1>1. /\ UNCHANGED <<now, agent, keys, net, hostserial, disk, crashes,
                       applied>>
        /\ saving' = TRUE
        /\ newest' = [newest EXCEPT ![p.sessid] =
                        IF p.key > @ THEN p.key ELSE @]
        /\ \/ table' = session_expire(
                   Renew(table, p.sessid, p.key, p.serial, now),
                   now - ExpireAfter)
           \/ table' = session_expire(
                   session_register(table, p.sessid, p.key, now),
                   now - ExpireAfter)
    BY DEF HandleAuth
  <1>2. /\ p.sessid \in Ids /\ p.key \in Nat /\ p.serial \in Nat
        /\ now \in Int /\ now - ExpireAfter \in Int
        /\ table \in [Ids -> Session] /\ newest \in [Ids -> Nat]
    BY TimesAssumption DEF OrderIInv, TypeOK, Packet
  <1>3. table' \in [Ids -> Session]
    <2>1. /\ Renew(table, p.sessid, p.key, p.serial, now)
               \in [Ids -> Session]
          /\ session_register(table, p.sessid, p.key, now)
               \in [Ids -> Session]
      BY <1>2, TableTypes
    <2> QED
      BY <1>1, <2>1, ExpiryKeepsType
  <1>4. newest' \in [Ids -> Nat]
    BY <1>1, <1>2
  <1>5. TypeOK'
    BY <1>1, <1>3, <1>4 DEF OrderIInv, TypeOK
  <1>6. OrderInv'
    BY <1>1, CollectorLeavesAgent DEF OrderIInv, OrderInv
  <1> QED
    BY <1>1, <1>5, <1>6, CollectorLeavesAgent DEF OrderIInv

(* A save, which may fail, writes the table or leaves the file.            *)
LEMMA SaveStepOrder ==
    ASSUME OrderIInv, Save
    PROVE  OrderIInv' /\ disk' \in {table, disk}
  <1>1. /\ UNCHANGED <<now, agent, keys, net, table, hostserial, crashes,
                       applied, newest>>
        /\ saving' = FALSE /\ disk' \in {sessiondb_save(table), disk}
    BY DEF Save, history
  <1>2. table \in [Ids -> Session] /\ sessiondb_save(table) = table
    <2>1. table \in [Ids -> Session] /\ 1 \in Ids
      BY LivesAssumption DEF OrderIInv, TypeOK, Ids
    <2> QED
      BY <2>1, TableTypes
  <1>3. TypeOK'
    BY <1>1, <1>2 DEF OrderIInv, TypeOK
  <1>4. OrderInv'
    BY <1>1, CollectorLeavesAgent DEF OrderIInv, OrderInv
  <1> QED
    BY <1>1, <1>2, <1>3, <1>4, CollectorLeavesAgent DEF OrderIInv

(* A restart of the collector forgets what it applied and noted.           *)
LEMMA RestartStepOrder ==
    ASSUME SerialsFollowTheClock, NoWrap, OrderIInv, CollectorRestart
    PROVE  /\ OrderIInv'
           /\ table' = session_expire(disk, now - ExpireAfter)
           /\ applied' = NothingApplied
  <1>1. /\ UNCHANGED <<now, agent, keys, net, disk>>
        /\ table' = session_expire(sessiondb_restore(disk),
                                   now - ExpireAfter)
        /\ hostserial' = 0 /\ saving' = FALSE
        /\ applied' = NothingApplied
        /\ newest' = [id \in Ids |-> table'[id].key]
        /\ crashes' \in 0 .. MaxCrashes
    BY TimesAssumption DEF CollectorRestart, OrderIInv, TypeOK
  <1>2. /\ table' = session_expire(disk, now - ExpireAfter)
        /\ table' \in [Ids -> Session]
    <2>1. /\ disk \in [Ids -> Session] /\ 1 \in Ids
      BY LivesAssumption DEF OrderIInv, TypeOK, Ids
    <2> QED
      BY <1>1, <2>1, TableTypes, ExpiryKeepsType
  <1>3. TypeOK'
    <2>1. newest' \in [Ids -> Nat]
      BY <1>1, <1>2 DEF Session
    <2>2. applied' \in [serial : Nat, ts : Int]
      BY <1>1 DEF NothingApplied
    <2>3. /\ now' \in Nat /\ keys' \in Nat /\ agent' \in Agent
          /\ \A p \in net' : p \in Packet /\ p.key \in 1 .. keys'
          /\ disk' \in [Ids -> Session]
      BY <1>1 DEF OrderIInv, TypeOK
    <2> QED
      BY <1>1, <1>2, <2>1, <2>2, <2>3 DEF TypeOK
  <1>4. OrderInv'
    <2>1. \A p \in net : p.ts >= 0
      BY DEF OrderIInv, NetInv, TypeOK, Packet
    <2>2. LastSerial \in Nat /\ AgentTime >= 0 /\ AgentTime \in Int
      BY SerialBounds, TimesAssumption
         DEF OrderIInv, ScheduleInv, AgentTime
    <2> QED
      BY <1>1, <2>1, <2>2, CollectorLeavesAgent
         DEF OrderIInv, OrderInv, NothingApplied
  <1> QED
    BY <1>1, <1>2, <1>3, <1>4, CollectorLeavesAgent DEF OrderIInv

------------------------------------------------------------------------------
(* The order of serials as an invariant. *)

(* The agent's first life begins with nothing sent.                        *)
LEMMA OrderInit ==
    ASSUME NoWrap, Init
    PROVE  OrderIInv
  <1>1. /\ now = StartTime /\ AgentTime \in Nat \ {0} /\ 1 \in Ids
        /\ agent = AgentStart(1) /\ net = {}
        /\ agent.life = 1 /\ agent.serial = 0 /\ agent.key = 0
        /\ agent.lastkeyrotate = 0
        /\ agent.nextslow = AgentTime + StartDelay
        /\ agent.nextsend = AgentTime + 2 * StartDelay
    BY TimesAssumption, LivesAssumption
       DEF Init, AgentStart, AgentTime, Ids
  <1>2. TypeOK
    <2>1. agent \in Agent
      BY <1>1, TimesAssumption DEF AgentStart, Agent
    <2>2. NoSession \in Session /\ applied \in [serial : Nat, ts : Int]
      BY DEF Init, NoSession, Session, NothingApplied
    <2>3. /\ table \in [Ids -> Session] /\ disk \in [Ids -> Session]
          /\ newest \in [Ids -> Nat]
      BY <2>2 DEF Init
    <2>4. /\ now \in Nat /\ keys \in Nat /\ hostserial \in Nat
          /\ crashes \in 0 .. MaxCrashes
      BY TimesAssumption DEF Init
    <2>5. saving \in BOOLEAN
      BY DEF Init
    <2> QED
      BY <1>1, <2>1, <2>2, <2>3, <2>4, <2>5 DEF TypeOK
  <1>3. ScheduleInv
    BY <1>1, TimesAssumption DEF ScheduleInv, NoWrap
  <1>4. SerialInv /\ NetInv
    BY <1>1 DEF SerialInv, NetInv
  <1>5. OrderInv
    <2>1. LastSerial = Clock(AgentTime + StartDelay) - 1
      BY <1>1 DEF LastSerial
    <2>2. /\ Clock(AgentTime + StartDelay) \in Int
          /\ Clock(AgentTime + StartDelay) > 0
      BY <1>1, ClockIsSerial, TimesAssumption
    <2> QED
      BY <1>1, <2>1, <2>2 DEF Init, OrderInv, NothingApplied
  <1> QED
    BY <1>2, <1>3, <1>4, <1>5 DEF OrderIInv

(* Every step of either program keeps the order of serials.                *)
LEMMA OrderStep ==
    ASSUME SerialsFollowTheClock, NoWrap, OrderIInv, [Next]_vars
    PROVE  OrderIInv'
  <1>1. CASE UNCHANGED vars
    <2>1. OrderInv' /\ TypeOK'
      BY <1>1, CollectorLeavesAgent
         DEF vars, history, OrderIInv, OrderInv, TypeOK
    <2> QED
      BY <1>1, <2>1, CollectorLeavesAgent DEF vars, OrderIInv
  <1>2. CASE \E collected \in BOOLEAN : SlowRound(collected)
    BY <1>2, SlowStep
  <1>3. CASE \E collected \in BOOLEAN : FastRound(collected)
    BY <1>3, FastStep
  <1>4. CASE AgentRestart
    BY <1>4, AgentRestartStep
  <1>5. CASE \E p \in net : HandleAuth(p)
    BY <1>5, AuthStepOrder
  <1>6. CASE \E p \in net, locked \in BOOLEAN : HandleMeter(p, locked)
    BY <1>6, MeterStep
  <1>7. CASE Save
    BY <1>7, SaveStepOrder
  <1>8. CASE CollectorRestart
    BY <1>8, RestartStepOrder
  <1>9. CASE Tick
    BY <1>9, TickStep
  <1> QED
    BY <1>1, <1>2, <1>3, <1>4, <1>5, <1>6, <1>7, <1>8, <1>9 DEF Next

(* Whatever the network does, no serial in it or noted by the collector is *)
(* above those the agent's clock allows.                                   *)
THEOREM OrderInvariant ==
    ASSUME SerialsFollowTheClock, NoWrap
    PROVE  Spec => []OrderIInv
  BY OrderInit, OrderStep, PTL DEF Spec

(* A meter packet that is applied is later than the last one applied, by   *)
(* its serial and by its time.                                             *)
LEMMA AppliedStep ==
    ASSUME SerialsFollowTheClock, NoWrap, OrderIInv, [Next]_vars
    PROVE  applied' # applied /\ applied' # NothingApplied =>
             applied'.serial > applied.serial /\ applied'.ts >= applied.ts
  <1>1. CASE \E p \in net, locked \in BOOLEAN : HandleMeter(p, locked)
    BY <1>1, MeterStep
  <1>2. CASE CollectorRestart
    BY <1>2 DEF CollectorRestart
  <1>3. CASE ~\E p \in net, locked \in BOOLEAN : HandleMeter(p, locked)
    BY <1>2, <1>3 DEF Next, vars, history, SlowRound, FastRound,
                      AgentRestart, HandleAuth, Save, Tick
  <1> QED
    BY <1>1, <1>3

(* resolve_sessionkey and the serials of the agent keep the meters of a    *)
(* host in the order of measurement, through losses, repetitions and       *)
(* reordering of packets and restarts of the agent.                        *)
THEOREM MetersAreInOrder ==
    ASSUME SerialsFollowTheClock, NoWrap
    PROVE  Spec => MeterInOrder
  BY OrderInvariant, AppliedStep, PTL DEF Spec, MeterInOrder

------------------------------------------------------------------------------
(* Keys. *)

(* What the assumption and the bounds of time give for the key lemmas.     *)
LEMMA KeyTypes ==
    ASSUME TypeOK
    PROVE  /\ \A p \in net : /\ p.sessid \in Ids /\ p.key \in Nat /\ p.key > 0
                             /\ p.serial \in Nat /\ p.ts \in Int
           /\ \A id \in Ids :
                 /\ id \in Nat /\ newest[id] \in Nat
                 /\ table[id] \in Session /\ disk[id] \in Session
           /\ \A e \in Session :
                 /\ e.key \in Nat /\ e.lastserial \in Nat
                 /\ e.lastcycle \in Int
  <1>1. \A p \in net : /\ p.sessid \in Ids /\ p.key \in Nat /\ p.key > 0
                       /\ p.serial \in Nat /\ p.ts \in Int
    BY DEF TypeOK, Packet
  <1>2. \A id \in Ids : /\ id \in Nat /\ newest[id] \in Nat
                        /\ table[id] \in Session /\ disk[id] \in Session
    BY DEF TypeOK, Ids
  <1>3. \A e \in Session : /\ e.key \in Nat /\ e.lastserial \in Nat
                           /\ e.lastcycle \in Int
    BY DEF Session
  <1> QED
    BY <1>1, <1>2, <1>3

(* The agent goes on in its life, and sends one auth packet at most.       *)
LEMMA SendingKeepsKeys ==
    ASSUME IInv, now' = now, UNCHANGED <<table, disk, newest>>,
           agent'.life = agent.life,
           agent'.key \in Nat, agent'.key >= agent.key,
           agent'.serial \in Nat, agent'.serial >= agent.serial,
           NEW sent, net' = net \cup sent,
           \A q \in sent : q.type = "auth" =>
              /\ q.sessid = agent.life /\ q.key = agent'.key
              /\ q.serial > agent.serial /\ q.serial \in Nat
              /\ q.ts = AgentTime /\ agent.nextslow <= AgentTime,
           \A p, q \in sent : p.type = "auth" /\ q.type = "auth" => p = q
    PROVE  AuthOrder' /\ KeysInv'
  <1>1. /\ agent.key \in Nat /\ agent.serial \in Nat /\ agent.life \in Nat
        /\ agent.nextslow \in Int /\ AgentTime \in Int
    BY AgentTypes DEF IInv, OrderIInv, Ids
  <1>2. TypeOK
    BY DEF IInv, OrderIInv
  <1>3. ASSUME NEW p \in net, NEW q \in sent, p.type = "auth",
               q.type = "auth", p.sessid = q.sessid
        PROVE  /\ p.serial < q.serial /\ p.key <= q.key
               /\ p.ts + SlowEvery - MaxLate <= q.ts
    BY <1>1, <1>2, <1>3, KeyTypes, TimesAssumption
       DEF IInv, OrderIInv, NetInv
  <1>4. AuthOrder'
    <2> SUFFICES ASSUME NEW p \in net', NEW q \in net',
                        p.type = "auth", q.type = "auth",
                        p.sessid = q.sessid
                 PROVE  /\ p.serial < q.serial => p.key <= q.key
                        /\ p.key < q.key =>
                             p.ts + SlowEvery - MaxLate <= q.ts
      BY DEF AuthOrder
    <2>1. CASE p \in net /\ q \in net
      BY <2>1 DEF IInv, AuthOrder
    <2>2. CASE p \in net /\ q \in sent
      BY <1>3, <2>2
    <2>3. CASE p \in sent /\ q \in net
      BY <1>1, <1>2, <1>3, <2>3, KeyTypes
    <2>4. CASE p \in sent /\ q \in sent
      BY <2>4
    <2> QED
      BY <2>1, <2>2, <2>3, <2>4
  <1>5. KeysInv'
    <2> SUFFICES ASSUME NEW id \in Ids
                 PROVE  /\ EntryInv(id, table[id])'
                        /\ EntryInv(id, disk[id])'
                        /\ GoneInv(id)'
                        /\ (table[id].key # 0 => table[id].key = newest[id])'
      BY DEF KeysInv
    <2>1. /\ EntryInv(id, table[id]) /\ EntryInv(id, disk[id])
          /\ GoneInv(id)
          /\ table[id].key # 0 => table[id].key = newest[id]
      BY DEF IInv, KeysInv
    <2>2. ASSUME NEW e \in Session, EntryInv(id, e), e.key # 0
          PROVE  /\ id <= agent'.life
                 /\ e.lastcycle <= now'
                 /\ id = agent'.life => /\ e.key <= agent'.key
                                        /\ e.lastserial <= agent'.serial
                 /\ \A p \in net' :
                      p.type = "auth" /\ p.sessid = id /\ p.key < e.key =>
                        /\ e.lastserial = 0 \/ p.serial <= e.lastserial
                        /\ p.ts + SlowEvery - MaxLate <= e.lastcycle + Skew
      BY <1>1, <1>2, <2>2, KeyTypes DEF EntryInv
    <2>3. EntryInv(id, table[id])' /\ EntryInv(id, disk[id])'
      BY <1>2, <2>1, <2>2, KeyTypes DEF EntryInv
    <2>4. GoneInv(id)'
      BY <1>1, <1>2, <2>1, KeyTypes DEF GoneInv
    <2> QED
      BY <2>1, <2>3, <2>4
  <1> QED
    BY <1>4, <1>5

(* A slow round sends its auth packet above all that was sent.             *)
LEMMA SlowStepKeys ==
    ASSUME SerialsFollowTheClock, NoWrap, RoundsApart, IInv,
           NEW collected \in BOOLEAN, SlowRound(collected)
    PROVE  AuthOrder' /\ KeysInv'
  <1> DEFINE authserial == gen_serial(agent.serial)
             meterserial == gen_serial(authserial)
             last == IF collected THEN meterserial ELSE authserial
             key == IF RotateDue THEN keys + 1 ELSE agent.key
             auth == AuthPacket(agent.life, authserial, key)
             sent == {auth} \cup
                     IF collected
                     THEN {MeterPacket(agent.life, meterserial, key)} ELSE {}
  <1>1. OrderIInv /\ TypeOK /\ agent \in Agent
    BY DEF IInv, OrderIInv, TypeOK
  <1>2. /\ agent' = [agent EXCEPT
              !.serial = last, !.key = key,
              !.lastkeyrotate = IF RotateDue THEN AgentTime ELSE @,
              !.nextslow = @ + SlowEvery]
        /\ net' = net \cup sent
        /\ UNCHANGED <<now, table, disk, newest>>
        /\ agent.nextslow <= AgentTime
    BY DEF SlowRound, history
  <1>3. /\ authserial \in Nat /\ authserial > LastSerial
        /\ meterserial = authserial + 1
        /\ agent.serial # 0 => authserial = agent.serial + 1
        /\ authserial # 0
    BY <1>1, <1>2, SlowSerials
  <1>4. authserial > agent.serial /\ last >= authserial /\ last \in Nat
    BY <1>1, <1>3, AgentTypes
  <1>5. key \in Nat /\ key >= agent.key
    BY <1>1, AgentTypes DEF OrderIInv, ScheduleInv
  <1>6. agent'.life = agent.life /\ agent'.key = key /\ agent'.serial = last
    BY <1>1, <1>2 DEF Agent
  <1>7. \A q \in sent : q.type = "auth" => q = auth
    BY DEF AuthPacket, MeterPacket
  <1>8. /\ auth.sessid = agent.life /\ auth.key = key
        /\ auth.serial = authserial /\ auth.ts = AgentTime
    BY DEF AuthPacket
  <1>9. agent'.serial >= agent.serial /\ agent'.serial \in Nat
    <2>1. agent.serial \in Nat
      BY <1>1, AgentTypes
    <2> HIDE DEF authserial, last
    <2> QED
      BY <1>3, <1>4, <1>6, <2>1
  <1> HIDE DEF auth, authserial, meterserial, last, key, sent
  <1> QED
    BY <1>2, <1>3, <1>4, <1>5, <1>6, <1>7, <1>8, <1>9, SendingKeepsKeys

(* A fast round sends no auth packet and keeps the key.                    *)
LEMMA FastStepKeys ==
    ASSUME SerialsFollowTheClock, NoWrap, RoundsApart, IInv,
           NEW collected \in BOOLEAN, FastRound(collected)
    PROVE  AuthOrder' /\ KeysInv'
  <1> DEFINE serial == gen_serial(agent.serial)
             sent == IF collected
                     THEN {MeterPacket(agent.life, serial, agent.key)} ELSE {}
  <1>1. OrderIInv /\ TypeOK /\ agent \in Agent
    BY DEF IInv, OrderIInv, TypeOK
  <1>2. serial = agent.serial + 1 /\ agent.serial \in Nat
    BY <1>1, FastSerial, AgentTypes DEF FastRound
  <1>3. /\ net' = net \cup sent
        /\ UNCHANGED <<now, table, disk, newest>>
        /\ agent'.life = agent.life /\ agent'.key = agent.key
        /\ agent'.serial \in {agent.serial, serial}
    BY <1>1 DEF FastRound, history, Agent
  <1>4. \A q \in sent : q.type # "auth"
    BY DEF MeterPacket
  <1>5. agent'.serial \in Nat /\ agent'.serial >= agent.serial
    BY <1>2, <1>3
  <1>6. agent'.key \in Nat /\ agent'.key >= agent.key
    BY <1>1, <1>3, AgentTypes
  <1> HIDE DEF serial, sent
  <1> QED
    BY <1>3, <1>4, <1>5, <1>6, SendingKeepsKeys

(* A new life: what is known is about the lives before it.                 *)
LEMMA AgentRestartKeys ==
    ASSUME IInv, AgentRestart
    PROVE  AuthOrder' /\ KeysInv'
  <1>1. /\ agent'.life = agent.life + 1 /\ agent.life \in Nat
        /\ agent'.key = 0
        /\ UNCHANGED <<now, net, table, disk, newest>>
    BY DEF AgentRestart, AgentStart, history, IInv, OrderIInv, TypeOK,
           Agent, Ids
  <1>2. AuthOrder'
    BY <1>1 DEF IInv, AuthOrder
  <1>3. TypeOK
    BY DEF IInv, OrderIInv
  <1>4. ASSUME NEW id \in Ids, NEW e, EntryInv(id, e)
        PROVE  IF e.key = 0 THEN e = NoSession
               ELSE /\ id < agent'.life
                    /\ e.lastcycle <= now
                    /\ \A p \in net :
                         p.type = "auth" /\ p.sessid = id /\ p.key < e.key =>
                           /\ e.lastserial = 0 \/ p.serial <= e.lastserial
                           /\ p.ts + SlowEvery - MaxLate
                                <= e.lastcycle + Skew
    BY <1>1, <1>3, <1>4, KeyTypes DEF EntryInv
  <1>5. ASSUME NEW id \in Ids
        PROVE  EntryInv(id, table[id])' /\ EntryInv(id, disk[id])'
    <2>1. EntryInv(id, table[id]) /\ EntryInv(id, disk[id])
      BY DEF IInv, KeysInv
    <2> QED
      BY <1>1, <1>3, <1>4, <2>1, KeyTypes DEF EntryInv
  <1>6. ASSUME NEW id \in Ids
        PROVE  GoneInv(id)'
    <2>1. GoneInv(id) /\ EntryInv(id, table[id])
      BY DEF IInv, KeysInv
    <2> QED
      BY <1>1, <1>3, <2>1, KeyTypes DEF GoneInv
  <1> QED
    BY <1>1, <1>2, <1>5, <1>6 DEF IInv, KeysInv

(* Time passes: nothing becomes valid that was not.                        *)
LEMMA TickKeys ==
    ASSUME IInv, Tick
    PROVE  AuthOrder' /\ KeysInv'
  <1>1. /\ now' = now + 1 /\ now \in Nat /\ net' \subseteq net
        /\ UNCHANGED <<agent, table, disk, newest>>
    BY DEF Tick, history, IInv, OrderIInv, TypeOK
  <1>2. TypeOK
    BY DEF IInv, OrderIInv
  <1>3. AuthOrder'
    BY <1>1 DEF IInv, AuthOrder
  <1>4. ASSUME NEW id \in Ids
        PROVE  EntryInv(id, table[id])' /\ EntryInv(id, disk[id])'
    <2>1. EntryInv(id, table[id]) /\ EntryInv(id, disk[id])
      BY DEF IInv, KeysInv
    <2> QED
      BY <1>1, <1>2, <2>1, KeyTypes DEF EntryInv
  <1>5. ASSUME NEW id \in Ids
        PROVE  GoneInv(id)'
    <2>1. GoneInv(id)
      BY DEF IInv, KeysInv
    <2> QED
      BY <1>1, <1>2, <2>1, KeyTypes, TimesAssumption DEF GoneInv
  <1> QED
    BY <1>1, <1>3, <1>4, <1>5 DEF IInv, KeysInv

(* The save keeps the table; nothing else changes.                         *)
LEMMA SaveKeys ==
    ASSUME IInv, Save
    PROVE  AuthOrder' /\ KeysInv'
  <1>1. /\ UNCHANGED <<now, agent, net, table, newest>>
        /\ disk' \in {table, disk}
    BY SaveStepOrder DEF Save, history, IInv
  <1>2. AuthOrder'
    BY <1>1 DEF IInv, AuthOrder
  <1>3. ASSUME NEW id \in Ids
        PROVE  /\ EntryInv(id, table[id])' /\ EntryInv(id, disk[id])'
               /\ GoneInv(id)'
    BY <1>1 DEF IInv, KeysInv, EntryInv, GoneInv
  <1> QED
    BY <1>1, <1>2, <1>3 DEF IInv, KeysInv

(* A restart takes the entries from the file and starts over with them.    *)
LEMMA RestartKeys ==
    ASSUME SerialsFollowTheClock, NoWrap, IInv, CollectorRestart
    PROVE  AuthOrder' /\ KeysInv'
  <1>1. /\ UNCHANGED <<now, agent, net, disk>>
        /\ table' = session_expire(disk, now - ExpireAfter)
        /\ newest' = [id \in Ids |-> table'[id].key]
    BY RestartStepOrder DEF CollectorRestart, IInv
  <1>2. AuthOrder'
    BY <1>1 DEF IInv, AuthOrder
  <1>3. TypeOK /\ DOMAIN disk = Ids
    BY DEF IInv, OrderIInv, TypeOK
  <1>4. ASSUME NEW id \in Ids
        PROVE  /\ EntryInv(id, table[id])' /\ EntryInv(id, disk[id])'
               /\ GoneInv(id)'
               /\ (table[id].key # 0 => table[id].key = newest[id])'
    <2>1. EntryInv(id, disk[id])
      BY DEF IInv, KeysInv
    <2>2. table'[id] \in {NoSession, disk[id]}
      BY <1>1, <1>3 DEF session_expire
    <2>3. EntryInv(id, NoSession)
      BY DEF EntryInv, NoSession
    <2>4. EntryInv(id, table[id])' /\ EntryInv(id, disk[id])'
      BY <1>1, <2>1, <2>2, <2>3 DEF EntryInv
    <2>5. newest'[id] = table'[id].key
      BY <1>1
    <2>6. GoneInv(id)'
      BY <1>1, <1>3, <2>5, KeyTypes, AgentTypes DEF GoneInv
    <2> QED
      BY <2>4, <2>5, <2>6
  <1> QED
    BY <1>2, <1>4 DEF KeysInv

(* Sessions expire from a table whose entries are in order: what is        *)
(* forgotten was older than any packet that is still valid.                *)
LEMMA ExpiryKeepsKeys ==
    ASSUME TypeOK, RoundsApart, NEW t \in [Ids -> Session],
           UNCHANGED <<now, agent, net, disk>>,
           table' = session_expire(t, now - ExpireAfter),
           NEW id \in Ids, EntryInv(id, t[id]),
           t[id].key # 0 => newest'[id] = t[id].key,
           newest'[id] \in Nat,
           t[id].key = 0 =>
              /\ newest'[id] # 0 => id <= agent.life
              /\ id = agent.life => newest'[id] <= agent.key
              /\ \A p \in net :
                    p.type = "auth" /\ p.sessid = id /\ p.key < newest'[id] =>
                        p.ts < now - Window
    PROVE  /\ EntryInv(id, table[id])' /\ GoneInv(id)'
           /\ (table[id].key # 0 => table[id].key = newest[id])'
  <1>1. table'[id] \in {NoSession, t[id]}
    BY DEF session_expire
  <1>2. EntryInv(id, NoSession) /\ NoSession.key = 0
    BY DEF EntryInv, NoSession
  <1>3. EntryInv(id, table[id])'
    BY <1>1, <1>2 DEF EntryInv
  <1>4. ASSUME t[id].key # 0, NEW p \in net, p.type = "auth",
               p.sessid = id, p.key < t[id].key
        PROVE  p.ts < now - Window
    <2>1. /\ p.ts + SlowEvery - MaxLate <= t[id].lastcycle + Skew
          /\ t[id].lastcycle <= now
      BY <1>4 DEF EntryInv
    <2>2. /\ p.ts \in Int /\ t[id].lastcycle \in Int /\ now \in Nat
      BY KeyTypes, AgentTypes
    <2> QED
      BY <2>1, <2>2, TimesAssumption DEF RoundsApart
  <1>5. GoneInv(id)'
    BY <1>4 DEF GoneInv, EntryInv
  <1> QED
    BY <1>1, <1>2, <1>3, <1>5

(* An auth packet that is accepted has no older key than the newest: by    *)
(* its serial, or because an older one would be out of time.               *)
LEMMA AcceptedIsNewest ==
    ASSUME RoundsApart, IInv, NEW p \in net, HandleAuth(p)
    PROVE  p.key >= newest[p.sessid]
  <1>1. /\ TimestampValid(p) /\ p.type = "auth"
        /\ \/ /\ table[p.sessid].key # 0
              /\ table[p.sessid].lastserial < p.serial
           \/ table[p.sessid].key = 0
    BY DEF HandleAuth, ioport_unwrap_authdata, session_find
  <1>2. TypeOK /\ p.sessid \in Ids
    BY DEF IInv, OrderIInv, TypeOK, Packet
  <1>3. /\ p.key \in Nat /\ p.serial \in Nat /\ p.ts \in Int /\ now \in Nat
        /\ newest[p.sessid] \in Nat /\ table[p.sessid] \in Session
        /\ table[p.sessid].lastserial \in Nat
        /\ table[p.sessid].lastcycle \in Int
    BY <1>2, KeyTypes, AgentTypes
  <1>4. ~(p.ts < now - Window)
    BY <1>1, <1>3, TimesAssumption DEF TimestampValid
  <1>5. /\ EntryInv(p.sessid, table[p.sessid]) /\ GoneInv(p.sessid)
        /\ table[p.sessid].key # 0 =>
              table[p.sessid].key = newest[p.sessid]
    BY <1>2 DEF IInv, KeysInv
  <1>6. CASE table[p.sessid].key = 0
    BY <1>1, <1>3, <1>4, <1>5, <1>6 DEF GoneInv
  <1>7. CASE table[p.sessid].key # 0
    <2> SUFFICES ASSUME p.key < newest[p.sessid]
                 PROVE  FALSE
      BY <1>3
    <2>1. /\ \/ table[p.sessid].lastserial = 0
             \/ p.serial <= table[p.sessid].lastserial
          /\ p.ts + SlowEvery - MaxLate
               <= table[p.sessid].lastcycle + Skew
          /\ table[p.sessid].lastcycle <= now
      BY <1>1, <1>5, <1>7 DEF EntryInv
    <2>2. p.ts < now - Window
      BY <1>3, <2>1, TimesAssumption DEF RoundsApart
    <2> QED
      BY <1>4, <2>2
  <1> QED
    BY <1>6, <1>7

(* handle_auth_packet takes no key that is behind the newest.              *)
LEMMA AuthStepKeys ==
    ASSUME RoundsApart, IInv, NEW p \in net, HandleAuth(p)
    PROVE  AuthOrder' /\ KeysInv'
  <1> DEFINE sid == p.sessid
             entry(serial) == [key |-> p.key, lastserial |-> serial,
                               lastcycle |-> now]
  <1>1. /\ UNCHANGED <<now, agent, net, disk>> /\ p.type = "auth"
        /\ newest' = [newest EXCEPT ![sid] =
                        IF p.key > @ THEN p.key ELSE @]
    BY DEF HandleAuth
  <1>2. PICK serial \in {0, p.serial} :
            table' = session_expire([table EXCEPT ![sid] = entry(serial)],
                                    now - ExpireAfter)
    BY DEF HandleAuth, Renew, session_register
  <1> DEFINE t == [table EXCEPT ![sid] = entry(serial)]
  <1>3. TypeOK /\ OrderIInv
    BY DEF IInv, OrderIInv
  <1>4. /\ sid \in Ids /\ p.key \in Nat /\ p.key > 0 /\ p.serial \in Nat
        /\ p.ts \in Int /\ now \in Nat /\ newest[sid] \in Nat
        /\ serial \in Nat
    BY <1>3, KeyTypes, AgentTypes
  <1>5. t \in [Ids -> Session] /\ t[sid] = entry(serial)
        /\ \A id \in Ids \ {sid} : t[id] = table[id]
    BY <1>3, <1>4 DEF TypeOK, Session
  <1>6. /\ newest'[sid] = p.key
        /\ \A id \in Ids \ {sid} : newest'[id] = newest[id]
    <2>1. p.key >= newest[sid]
      BY AcceptedIsNewest
    <2>2. newest \in [Ids -> Nat]
      BY <1>3 DEF TypeOK
    <2> QED
      BY <1>1, <1>4, <2>1, <2>2
  <1>7. EntryInv(sid, entry(serial))
    <2>1. /\ p.sessid <= agent.life
          /\ p.sessid = agent.life =>
                p.key <= agent.key /\ p.serial <= agent.serial
          /\ p.ts <= now + Skew
      BY <1>3 DEF OrderIInv, NetInv, AgentTime
    <2>2. ASSUME NEW q \in net, q.type = "auth", q.sessid = sid,
                 q.key < p.key
          PROVE  /\ q.serial <= p.serial
                 /\ q.ts + SlowEvery - MaxLate <= now + Skew
      <3>1. /\ p.serial < q.serial => p.key <= q.key
            /\ q.ts + SlowEvery - MaxLate <= p.ts
        BY <1>1, <2>2 DEF IInv, AuthOrder
      <3>2. q.serial \in Nat /\ q.key \in Nat /\ q.ts \in Int
        BY <1>3, KeyTypes
      <3> QED
        BY <1>4, <2>1, <2>2, <3>1, <3>2, TimesAssumption
    <2>3. agent.serial \in Nat /\ sid \in Nat
      BY <1>3, AgentTypes, KeyTypes, <1>4
    <2> QED
      BY <1>2, <1>4, <2>1, <2>2, <2>3 DEF EntryInv
  <1>8. AuthOrder'
    BY <1>1 DEF IInv, AuthOrder
  <1>9. table' = session_expire(t, now - ExpireAfter)
    BY <1>2
  <1> HIDE DEF t, entry
  <1>10. ASSUME NEW id \in Ids
        PROVE  /\ EntryInv(id, table[id])' /\ GoneInv(id)'
               /\ (table[id].key # 0 => table[id].key = newest[id])'
    <2>1. /\ EntryInv(id, table[id]) /\ GoneInv(id)
          /\ table[id].key # 0 => table[id].key = newest[id]
          /\ newest[id] \in Nat
      BY <1>3, KeyTypes DEF IInv, KeysInv
    <2>2. CASE id = sid
      <3>1. t[id].key = p.key
        BY <1>5, <2>2 DEF entry
      <3>2. EntryInv(id, t[id]) /\ newest'[id] = p.key
        BY <1>5, <1>6, <1>7, <2>2
      <3> QED
        BY <1>1, <1>3, <1>4, <1>5, <1>9, <3>1, <3>2, ExpiryKeepsKeys
    <2>3. CASE id # sid
      <3>1. t[id] = table[id] /\ newest'[id] = newest[id]
        BY <1>5, <1>6, <2>3
      <3> QED
        BY <1>1, <1>3, <1>5, <1>9, <2>1, <3>1, ExpiryKeepsKeys DEF GoneInv
    <2> QED
      BY <2>2, <2>3
  <1>11. ASSUME NEW id \in Ids PROVE EntryInv(id, disk[id])'
    BY <1>1 DEF IInv, KeysInv, EntryInv
  <1> QED
    BY <1>8, <1>10, <1>11 DEF KeysInv

------------------------------------------------------------------------------
(* The invariant and what follows from it. *)

(* Before the first round there are no keys.                               *)
LEMMA KeysInit ==
    ASSUME Init
    PROVE  AuthOrder /\ KeysInv
  <1>1. /\ net = {} /\ agent.life = 1 /\ agent.key = 0
        /\ \A id \in Ids : table[id] = NoSession /\ disk[id] = NoSession
        /\ \A id \in Ids : newest[id] = 0
    BY DEF Init, AgentStart
  <1> QED
    BY <1>1 DEF AuthOrder, KeysInv, EntryInv, GoneInv, NoSession

(* Every step of either program keeps the order of keys.                   *)
LEMMA KeysStep ==
    ASSUME SerialsFollowTheClock, NoWrap, RoundsApart, IInv, [Next]_vars
    PROVE  AuthOrder' /\ KeysInv'
  <1>1. ASSUME UNCHANGED <<now, agent, net, table, disk, newest>>
        PROVE  AuthOrder' /\ KeysInv'
    BY <1>1 DEF IInv, AuthOrder, KeysInv, EntryInv, GoneInv
  <1>2. CASE \E p \in net, locked \in BOOLEAN : HandleMeter(p, locked)
    BY <1>1, <1>2 DEF HandleMeter
  <1>3. CASE UNCHANGED vars
    BY <1>1, <1>3 DEF vars, history
  <1>4. CASE \E collected \in BOOLEAN : SlowRound(collected)
    BY <1>4, SlowStepKeys
  <1>5. CASE \E collected \in BOOLEAN : FastRound(collected)
    BY <1>5, FastStepKeys
  <1>6. CASE AgentRestart
    BY <1>6, AgentRestartKeys
  <1>7. CASE \E p \in net : HandleAuth(p)
    BY <1>7, AuthStepKeys
  <1>8. CASE Save
    BY <1>8, SaveKeys
  <1>9. CASE CollectorRestart
    BY <1>9, RestartKeys
  <1>10. CASE Tick
    BY <1>10, TickKeys
  <1> QED
    BY <1>2, <1>3, <1>4, <1>5, <1>6, <1>7, <1>8, <1>9, <1>10 DEF Next

(* What the table, the file and the network know of serials and keys stays *)
(* behind the agent, through all that may happen to any of them.           *)
THEOREM ProtocolInvariant ==
    ASSUME SerialsFollowTheClock, NoWrap, RoundsApart
    PROVE  Spec => []IInv
  <1>1. Init => IInv
    BY OrderInit, KeysInit DEF IInv
  <1>2. IInv /\ [Next]_vars => IInv'
    BY OrderStep, KeysStep DEF IInv
  <1> QED
    BY <1>1, <1>2, PTL DEF Spec

(* handle_auth_packet never puts an earlier key of a session back, in      *)
(* whichever order and however often its packets come, through expiry,     *)
(* restarts and saves that fail.                                           *)
THEOREM NewestKeyIsKept ==
    ASSUME SerialsFollowTheClock, NoWrap, RoundsApart
    PROVE  Spec => []KeyIsNewest
  <1>1. IInv => KeyIsNewest
    BY DEF IInv, KeysInv, KeyIsNewest, session_find
  <1> QED
    BY <1>1, ProtocolInvariant, PTL

(* The serial checks of the collector turn down nothing that is new: the   *)
(* agent's next serial is above those noted for the host and the session.  *)
THEOREM NextSerialIsAlwaysNew ==
    ASSUME SerialsFollowTheClock, NoWrap, RoundsApart
    PROVE  Spec => []NextSerialIsNew
  <1> DEFINE next == IF agent.serial = 0
                     THEN (agent.nextslow * SerialsPerTick) % SerialMod
                     ELSE (agent.serial + 1) % SerialMod
  <1>1. ASSUME IInv PROVE NextSerialIsNew
    <2>1. /\ OrderIInv /\ TypeOK /\ agent.serial \in Nat
          /\ agent.life \in Ids /\ agent.nextslow \in Int
      BY <1>1, AgentTypes DEF IInv, OrderIInv
    <2>2. next \in Nat /\ next > LastSerial
      <3>1. CASE agent.serial = 0
        <4>1. /\ Clock(agent.nextslow) \in Int /\ Clock(agent.nextslow) > 0
              /\ Clock(agent.nextslow) < SerialMod
          BY <2>1, <3>1, ClockIsSerial, SerialBounds, TimesAssumption
             DEF OrderIInv, ScheduleInv
        <4>2. next = Clock(agent.nextslow) % SerialMod
          BY <3>1 DEF Clock
        <4> QED
          BY <3>1, <4>1, <4>2, TimesAssumption DEF LastSerial
      <3>2. CASE agent.serial # 0
        BY <2>1, <3>2, SerialBounds, TimesAssumption DEF LastSerial
      <3> QED
        BY <3>1, <3>2
    <2>3. /\ hostserial \in Nat /\ hostserial <= LastSerial
          /\ LastSerial \in Nat
      BY <2>1, SerialBounds DEF TypeOK, OrderIInv, OrderInv
    <2>4. table[agent.life].lastserial <= agent.serial
      <3>1. EntryInv(agent.life, table[agent.life])
        BY <1>1, <2>1 DEF IInv, KeysInv
      <3> QED
        BY <2>1, <3>1 DEF EntryInv, NoSession
    <2>5. /\ table[agent.life].lastserial \in Nat
          /\ agent.serial <= LastSerial
      BY <2>1, <2>3, KeyTypes DEF LastSerial
    <2> HIDE DEF next
    <2>6. ~OldSerial(hostserial, next)
      BY <2>1, <2>2, <2>3, NewSerialIsHigher
    <2>7. table[agent.life].lastserial < next
      BY <2>1, <2>2, <2>3, <2>4, <2>5
    <2> USE DEF next
    <2> QED
      BY <2>6, <2>7 DEF NextSerialIsNew
  <1> QED
    BY <1>1, ProtocolInvariant, PTL

(* Both programs' memory, the network and the file have their types.       *)
THEOREM TypesAreKept ==
    ASSUME SerialsFollowTheClock, NoWrap
    PROVE  Spec => []TypeOK
  <1>1. OrderIInv => TypeOK
    BY DEF OrderIInv
  <1> QED
    BY <1>1, OrderInvariant, PTL
=============================================================================
