------------------------------- MODULE LocalDB -------------------------------
(***************************************************************************)
(* The record files of one host in the local database                      *)
(* (libopticondb/db_local.c): the watcher saves records                    *)
(* (localdb_save_record), the API reads them (localdb_get_record with      *)
(* localdb_find_index), the reaper deletes days that are over              *)
(* (localdb_delete_host_date), and the collector may stop at any moment.   *)
(*                                                                         *)
(* A record is known by its time.  The .db file of a day is a sequence of  *)
(* pieces, each a whole record or one that was cut off when the collector  *)
(* stopped; its .idx file a sequence of times and positions.  Output is    *)
(* buffered: what is written reaches a file when the file is closed, and   *)
(* the front part of a long record before that.                            *)
(***************************************************************************)
EXTENDS Integers, SequencesExt

CONSTANTS
    DayLen,      \* 86400
    MaxAge,      \* 90: how long after the last record of a day it is found
    MaxCrashes,  \* bound of the model: times the collector stops
    EndTime      \* bound of the model: no time passes after this

ASSUME LocalDBAssumption ==
    /\ DayLen \in Nat \ {0} /\ MaxAge \in Nat
    /\ MaxCrashes \in Nat /\ EndTime \in Nat

Days == 0 .. EndTime \div DayLen
None == -1

VARIABLES
    now,       \* the clock
    db, idx,   \* day -> the contents of its files
    dbname,    \* days whose .db file has a name
    idxname,   \* days whose .idx file has a name
    current,   \* what current.db has: a record's time, or None
    curnew,    \* the same for current.db.new
    lock,      \* who has the .db file of which day locked for writing
    wpc,       \* where localdb_save_record is
    when,      \* the record it saves
    dbpos,     \* where it starts in the .db file
    rpc,       \* where localdb_get_record is
    ts,        \* the time it looks for
    culling,   \* the day the reaper has deleted the .db file of, or None
    (* History variables: no step depends on them but for the bound. *)
    crashes,   \* times the collector stopped
    got        \* what localdb_get_record found last, and should have

files == <<db, idx, dbname, idxname, current, curnew>>
writer == <<lock, wpc, when, dbpos>>
reader == <<rpc, ts, got>>
vars == <<now, files, writer, reader, culling, crashes>>

time2date(t) == t \div DayLen
Whole(t) == [when |-> t, whole |-> TRUE]
Torn(t) == [when |-> t, whole |-> FALSE]
Nothing == [found |-> Torn(None), wanted |-> None, count |-> 0]

Init ==
    /\ now = 0
    /\ db = [d \in Days |-> <<>>] /\ idx = [d \in Days |-> <<>>]
    /\ dbname = {} /\ idxname = {}
    /\ current = None /\ curnew = None
    /\ lock = None /\ wpc = "idle" /\ when = None /\ dbpos = 0
    /\ rpc = "idle" /\ ts = 0 /\ culling = None
    /\ crashes = 0 /\ got = Nothing

-----------------------------------------------------------------------------
(* localdb_save_record. *)

Day == time2date(when)

(* Mutant: current.db itself is opened and emptied. *)
OpenCurrentInPlace(stale) ==
    /\ wpc = "idle" /\ now > when
    /\ stale => current # None
    /\ when' = now
    /\ current' = None
    /\ wpc' = IF stale THEN "openStale" ELSE "open"
    /\ UNCHANGED <<now, db, idx, dbname, idxname, curnew, lock, dbpos,
                   reader, culling, crashes>>

(* current.db.new is opened and emptied, unless a host whose status is     *)
(* STALE has no current.db: its files are not created.                     *)
OpenCurrent(stale) ==
    /\ wpc = "idle" /\ now > when
    /\ stale => current # None
    /\ when' = now
    /\ curnew' = None
    /\ wpc' = IF stale THEN "openStale" ELSE "open"
    /\ UNCHANGED <<now, db, idx, dbname, idxname, current, lock, dbpos,
                   reader, culling, crashes>>

(* Without today's file the record of a stale host is not saved. *)
GiveUp ==
    /\ wpc = "openStale" /\ Day \notin dbname
    /\ wpc' = "idle"
    /\ UNCHANGED <<now, files, lock, when, dbpos, reader, culling, crashes>>

(* Mutant: the place of a record in the .db file is taken from the index. *)
EndByIndex == Len(idx[Day]) + 1

(* fseek to the end, ftell. *)
EndOfDb == Len(db[Day]) + 1

OpenDbFile ==
    /\ wpc \in {"open", "openStale"}
    /\ wpc = "openStale" => Day \in dbname
    /\ dbname' = dbname \cup {Day}
    /\ wpc' = "lock"
    /\ UNCHANGED <<now, db, idx, idxname, current, curnew, lock, when, dbpos,
                   reader, culling, crashes>>

(* A reader's lock is waited for.  The index is opened, or created, and    *)
(* the end of the .db file noted.                                          *)
LockFiles ==
    /\ wpc = "lock" /\ ~(rpc = "find" /\ time2date(ts) = Day)
    /\ lock' = Day
    /\ idxname' = idxname \cup {Day}
    /\ dbpos' = EndOfDb
    /\ wpc' = "write"
    /\ UNCHANGED <<now, db, idx, dbname, current, curnew, when, reader,
                   culling, crashes>>

(* The record is written into buffers; one that does not fit in them is in *)
(* the files in part.                                                      *)
WriteRecord(long) ==
    /\ wpc = "write"
    /\ db' = IF long THEN [db EXCEPT ![Day] = Append(@, Torn(when))] ELSE db
    /\ wpc' = "unlock"
    /\ UNCHANGED <<now, idx, dbname, idxname, current, curnew, lock, when,
                   dbpos, reader, culling, crashes>>

(* The lock is given back before the buffers are flushed. *)
Unlock ==
    /\ wpc = "unlock"
    /\ lock' = None
    /\ wpc' = "closeDb"
    /\ UNCHANGED <<now, files, when, dbpos, reader, culling, crashes>>

(* The rest of the record, or all of it, goes to the end of the file. *)
CloseDb ==
    LET begun == db[Day] # <<>> /\ Last(db[Day]) = Torn(when)
    IN  /\ wpc = "closeDb"
        /\ db' = [db EXCEPT ![Day] =
                    Append(IF begun THEN Front(@) ELSE @, Whole(when))]
        /\ wpc' = "closeIdx"
        /\ UNCHANGED <<now, idx, dbname, idxname, current, curnew, lock, when,
                       dbpos, reader, culling, crashes>>

CloseIdx ==
    /\ wpc = "closeIdx"
    /\ idx' = [idx EXCEPT ![Day] = Append(@, [when |-> when, pos |-> dbpos])]
    /\ wpc' = "closeCurrent"
    /\ UNCHANGED <<now, db, dbname, idxname, current, curnew, lock, when,
                   dbpos, reader, culling, crashes>>

CloseCurrent ==
    /\ wpc = "closeCurrent"
    /\ curnew' = when
    /\ wpc' = "rename"
    /\ UNCHANGED <<now, db, idx, dbname, idxname, current, lock, when, dbpos,
                   reader, culling, crashes>>

localdb_done_current ==
    /\ wpc = "rename"
    /\ current' = curnew /\ curnew' = None
    /\ wpc' = "idle"
    /\ UNCHANGED <<now, db, idx, dbname, idxname, lock, when, dbpos, reader,
                   culling, crashes>>

(* The collector stops and is started again: buffers and locks are gone. *)
Crash ==
    /\ crashes < MaxCrashes
    /\ crashes' = crashes + 1
    /\ wpc' = "idle" /\ lock' = None /\ dbpos' = 0 /\ culling' = None
    /\ UNCHANGED <<now, files, when, reader>>

-----------------------------------------------------------------------------
(* localdb_delete_host_date, for the earliest day, which the reaper knows  *)
(* is over.                                                                *)

DeleteDb(d) ==
    /\ culling = None /\ d \in dbname /\ \A e \in dbname : d <= e
    /\ idx[d] # <<>> /\ now - idx[d][1].when >= DayLen
    /\ dbname' = dbname \ {d}
    /\ culling' = d
    /\ UNCHANGED <<now, db, idx, idxname, current, curnew, writer, reader,
                   crashes>>

DeleteIdx ==
    /\ culling # None
    /\ idxname' = idxname \ {culling}
    /\ culling' = None
    /\ UNCHANGED <<now, db, idx, dbname, current, curnew, writer, reader,
                   crashes>>

-----------------------------------------------------------------------------
(* localdb_get_record. *)

(* Mutant: a record of exactly the time is passed over. *)
ScanStrictly(ix, pos, t) ==
    LET later == {k \in pos .. Len(ix) : ix[k].when >= t}
    IN  IF later # {} /\ Min(later) > 1 THEN Min(later) - 1 ELSE Len(ix)

(* From an entry that is not too late, forward to the last such.  At the   *)
(* end of the file the last one counts if it is of the very time.          *)
ScanForward(ix, pos, t) ==
    LET later == {k \in pos .. Len(ix) : ix[k].when > t}
    IN  IF later # {} THEN Min(later) - 1
        ELSE IF ix[Len(ix)].when = t THEN Len(ix) ELSE Len(ix) - 1

(* From one that is too late, back to the first that is not. *)
ScanBack(ix, pos, t) ==
    LET before == {k \in 1 .. pos : ix[k].when <= t}
    IN  IF before # {} THEN Max(before) ELSE 1

(* Where to begin: the time's share of the day so far. *)
FirstGuess(ix, t) ==
    LET range == ix[Len(ix)].when - ix[1].when
        diff == t - ix[1].when
        pos == (Len(ix) * diff) \div range
    IN  IF pos > 0 THEN pos ELSE 1

(* The position of the record for time t, or None.  The guess is put right *)
(* by a scan.                                                              *)
localdb_find_index(ix, t0) ==
    LET count == Len(ix)
        first == ix[1].when
        last == ix[count].when
        t == Min({t0, last})
        pos == FirstGuess(ix, t)
    IN  IF count = 0 THEN None
        ELSE IF count < 2 THEN 1
        ELSE IF first > t0 \/ t0 - last > MaxAge THEN None
        ELSE IF ix[pos].when <= t
             THEN ix[ScanForward(ix, pos, t)].pos
             ELSE ix[ScanBack(ix, pos, t)].pos

OpenDb(t) ==
    /\ rpc = "idle" /\ t <= now /\ time2date(t) \in dbname
    /\ ts' = t
    /\ rpc' = "lock"
    /\ UNCHANGED <<now, files, writer, got, culling, crashes>>

(* The lock is waited for and the index opened, if it is there. *)
LockDb ==
    /\ rpc = "lock" /\ lock # time2date(ts)
    /\ rpc' = IF time2date(ts) \in idxname THEN "find" ELSE "idle"
    /\ UNCHANGED <<now, files, writer, ts, got, culling, crashes>>

(* What should be found: the last record saved up to the time. *)
Wanted(ix, t) ==
    LET upto == {k \in 1 .. Len(ix) : ix[k].when <= t}
    IN  IF upto = {} THEN None ELSE ix[Max(upto)].when

(* The entry is looked up and the record there read.  The index may grow   *)
(* during the search, past the last entry that it takes into account.      *)
GetRecord ==
    LET d == time2date(ts)
        pos == localdb_find_index(idx[d], ts)
    IN  /\ rpc = "find"
        /\ got' = IF pos # None /\ pos <= Len(db[d])
                  THEN [found |-> db[d][pos], wanted |-> Wanted(idx[d], ts),
                        count |-> Len(idx[d])]
                  ELSE Nothing
        /\ rpc' = "idle" /\ ts' = 0
        /\ UNCHANGED <<now, files, writer, culling, crashes>>

(* Time passes, in units that are longer than saving a record takes. *)
Tick ==
    /\ now < EndTime /\ wpc = "idle"
    /\ now' = now + 1
    /\ UNCHANGED <<files, writer, reader, culling, crashes>>

Writer ==
    \/ \E stale \in BOOLEAN : OpenCurrent(stale)
    \/ GiveUp \/ OpenDbFile \/ LockFiles
    \/ \E long \in BOOLEAN : WriteRecord(long)
    \/ Unlock \/ CloseDb \/ CloseIdx \/ CloseCurrent \/ localdb_done_current
Reader == LockDb \/ GetRecord \/ \E t \in 0 .. EndTime : OpenDb(t)
Next ==
    \/ Writer \/ Reader \/ Crash \/ Tick
    \/ DeleteIdx \/ \E d \in Days : DeleteDb(d)

Spec == Init /\ [][Next]_vars

-----------------------------------------------------------------------------
(* Type correctness; the lock goes with the places it is held at. *)
TypeOK ==
    /\ now \in 0 .. EndTime /\ when \in None .. now /\ ts \in 0 .. now
    /\ {current, curnew} \subseteq None .. now
    /\ dbname \subseteq Days /\ idxname \subseteq Days
    /\ \A d \in Days :
         /\ \A k \in DOMAIN db[d] :
              db[d][k] \in [when : 0 .. now, whole : BOOLEAN]
         /\ \A k \in DOMAIN idx[d] : idx[d][k] \in [when : 0 .. now, pos : Nat]
    /\ lock = IF wpc \in {"write", "unlock"} THEN Day ELSE None
    /\ culling \in Days \cup {None} /\ crashes \in 0 .. MaxCrashes

(* Every index entry leads to a whole record of its time, and the entries  *)
(* are in the order of time: records cut off when the collector stopped    *)
(* stay in the file, and the places of later ones are counted past them.   *)
(* current.db is in step with the records: what it holds is indexed, so a  *)
(* crash never leaves it ahead of what can be read back.                   *)
IndexSound ==
    /\ \A d \in Days : \A k \in DOMAIN idx[d] :
         /\ idx[d][k].pos \in DOMAIN db[d]
         /\ db[d][idx[d][k].pos] = Whole(idx[d][k].when)
         /\ k > 1 => idx[d][k - 1].when < idx[d][k].when
    /\ current # None =>
         \E k \in DOMAIN idx[time2date(current)] :
             idx[time2date(current)][k].when = current

(* "Get the offset for the closest matching record to a given timestamp"   *)
(* (localdb_find_index): wherever the guess leads, localdb_get_record      *)
(* reads the whole record that was saved last up to the time asked for,    *)
(* also beside a save and after a crash.  (With a single entry the code    *)
(* reads what is first in the file.)                                       *)
ReadsWanted == got.count > 1 => got.found = Whole(got.wanted)

(* Once there, current.db always has a whole record, and never an older    *)
(* one, because it is replaced by a finished file.                         *)
CurrentMovesOn == [][current' # current => current' > current]_vars
=============================================================================
