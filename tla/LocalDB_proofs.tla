---------------------------- MODULE LocalDB_proofs ----------------------------
(***************************************************************************)
(* Proofs about LocalDB, for days of any length, any number of records and *)
(* of crashes.  The inductive invariant says how far the files of the day  *)
(* are with the record that is being saved; that localdb_find_index finds  *)
(* the right entry from wherever its guess leads is a theorem about any    *)
(* index in the order of time.                                             *)
(***************************************************************************)
EXTENDS LocalDB, SequenceTheorems, WellFoundedInduction, TLAPS

-----------------------------------------------------------------------------
(* Least and greatest numbers, and divisions. *)

(* Some number of a set is the least. *)
LEMMA LeastOf ==
    ASSUME NEW S \in SUBSET Nat, S # {}
    PROVE  Min(S) \in S /\ \A x \in S : Min(S) <= x
  <1>1. \E n \in S : \A m \in S : n <= m
    <2>1. PICK x \in S : \A y \in S : ~(<<y, x>> \in OpToRel(<, Nat))
      BY NatLessThanWellFounded, WFMin
    <2>2. \A y \in S : ~(y < x)
      BY <2>1 DEF OpToRel
    <2> QED
      BY <2>2
  <1> QED
    BY <1>1 DEF Min

(* Some number of a bounded set is the greatest. *)
LEMMA GreatestOf ==
    ASSUME NEW N \in Nat, NEW S \in SUBSET (0 .. N), S # {}
    PROVE  Max(S) \in S /\ \A x \in S : x <= Max(S)
  <1> DEFINE T == {N - x : x \in S}
  <1>1. T \in SUBSET Nat /\ T # {}
    <2>1. PICK w \in S : TRUE
      OBVIOUS
    <2>2. N - w \in T
      OBVIOUS
    <2>3. \A x \in S : N - x \in Nat
      OBVIOUS
    <2> QED
      BY <2>2, <2>3
  <1>2. PICK n \in T : \A m \in T : n <= m
    BY <1>1, LeastOf
  <1>3. PICK x \in S : n = N - x
    OBVIOUS
  <1>4. ASSUME NEW y \in S
        PROVE  y <= x
    <2>1. N - y \in T
      OBVIOUS
    <2>2. N - x <= N - y
      BY <1>2, <1>3, <2>1
    <2> QED
      BY <2>2
  <1> QED
    BY <1>4 DEF Max

(* More divided by the same is not less. *)
LEMMA QuotientGrows ==
    ASSUME NEW a \in Nat, NEW b \in Nat, NEW d \in Nat \ {0}, a <= b
    PROVE  (a \div d) <= (b \div d)
  <1> DEFINE p == a \div d
             q == b \div d
             r == a % d
             s == b % d
  <1>1. /\ p \in Int /\ q \in Int /\ r \in 0 .. d - 1 /\ s \in 0 .. d - 1
        /\ a = d * p + r /\ b = d * q + s
    OBVIOUS
  <1> HIDE DEF p, q, r, s
  <1> SUFFICES ASSUME p >= q + 1
               PROVE  FALSE
    BY <1>1 DEF p, q
  <1>2. d * p >= d * (q + 1)
    BY <1>1
  <1>3. d * (q + 1) = d * q + d
    BY <1>1
  <1> QED
    BY <1>1, <1>2, <1>3

(* A share of c that is not more than all of it. *)
LEMMA ShareOf ==
    ASSUME NEW c \in Nat, NEW a \in Nat, NEW d \in Nat \ {0}, a <= d
    PROVE  ((c * a) \div d) \in 0 .. c
  <1>1. c * a \in Nat /\ c * a <= c * d /\ c * d \in Nat
    OBVIOUS
  <1>2. (c * d) \div d = c
    OBVIOUS
  <1>3. ((c * a) \div d) \in Nat
    BY <1>1
  <1> QED
    BY <1>1, <1>2, <1>3, QuotientGrows

-----------------------------------------------------------------------------
(* The search in an index. *)

Entries == [when : Nat, pos : Nat]

InOrder(ix) ==
    \A k \in 1 .. Len(ix) : \A j \in 1 .. k - 1 : ix[j].when < ix[k].when

(* The elements of an index. *)
LEMMA EntriesOfIndex ==
    ASSUME NEW ix \in Seq(Entries)
    PROVE  /\ Len(ix) \in Nat
           /\ \A k \in 1 .. Len(ix) : ix[k].when \in Nat /\ ix[k].pos \in Nat
  <1>1. \A k \in 1 .. Len(ix) : ix[k] \in Entries
    BY ElementOfSeq
  <1> QED
    BY <1>1, LenProperties DEF Entries

(* k is the last entry of ix that is not too late for t. *)
LastUpTo(ix, t, k) ==
    /\ k \in 1 .. Len(ix) /\ ix[k].when <= t
    /\ \A j \in k + 1 .. Len(ix) : ix[j].when > t

(* The scan forward stops at the last entry that is not too late. *)
LEMMA ForwardIsRight ==
    ASSUME NEW ix \in Seq(Entries), InOrder(ix), NEW t \in Nat,
           NEW pos \in 1 .. Len(ix), ix[pos].when <= t,
           t <= ix[Len(ix)].when
    PROVE  LastUpTo(ix, t, ScanForward(ix, pos, t))
  <1> DEFINE later == {k \in pos .. Len(ix) : ix[k].when > t}
  <1>1. Len(ix) \in Nat /\ \A k \in 1 .. Len(ix) : ix[k].when \in Nat
    BY EntriesOfIndex
  <1>2. CASE later # {}
    <2> DEFINE m == Min(later)
    <2>1. later \in SUBSET Nat
      BY <1>1
    <2>2. m \in later /\ \A k \in later : m <= k
      BY <1>2, <2>1, LeastOf
    <2>3. ScanForward(ix, pos, t) = m - 1
      BY <1>2 DEF ScanForward
    <2> HIDE DEF m
    <2>4. m \in pos .. Len(ix) /\ ix[m].when > t /\ m # pos
      BY <1>1, <2>2
    <2>5. m - 1 \in pos .. Len(ix) /\ m - 1 \notin later
      BY <1>1, <2>2, <2>4
    <2>6. ix[m - 1].when <= t
      BY <1>1, <2>5
    <2>7. ASSUME NEW j \in m .. Len(ix)
          PROVE  ix[j].when > t
      <3>1. j = m \/ (j \in 1 .. Len(ix) /\ m \in 1 .. j - 1)
        BY <1>1, <2>4
      <3>2. j = m \/ ix[m].when < ix[j].when
        BY <3>1 DEF InOrder
      <3> QED
        BY <1>1, <2>4, <3>1, <3>2
    <2>8. m \in Int /\ m - 1 \in 1 .. Len(ix) /\ m - 1 + 1 = m
      BY <1>1, <2>4, <2>5
    <2> QED
      BY <2>3, <2>6, <2>7, <2>8 DEF LastUpTo
  <1>3. CASE later = {}
    <2>1. Len(ix) \in pos .. Len(ix) /\ Len(ix) \notin later
      BY <1>1, <1>3
    <2>2. ix[Len(ix)].when = t
      BY <1>1, <2>1
    <2>3. ScanForward(ix, pos, t) = Len(ix)
      BY <1>3, <2>2 DEF ScanForward
    <2> QED
      BY <1>1, <2>2, <2>3 DEF LastUpTo
  <1> QED
    BY <1>2, <1>3

(* So does the scan back, if there is such an entry.                       *)
LEMMA BackIsRight ==
    ASSUME NEW ix \in Seq(Entries), InOrder(ix), NEW t \in Nat,
           NEW pos \in 1 .. Len(ix), ix[pos].when > t, ix[1].when <= t
    PROVE  LastUpTo(ix, t, ScanBack(ix, pos, t))
  <1> DEFINE before == {k \in 1 .. pos : ix[k].when <= t}
             m == Max(before)
  <1>1. Len(ix) \in Nat /\ \A k \in 1 .. Len(ix) : ix[k].when \in Nat
    BY EntriesOfIndex
  <1>2. 1 \in before /\ before \in SUBSET (0 .. pos) /\ pos \in Nat
    BY <1>1
  <1>3. m \in before /\ \A k \in before : k <= m
    BY <1>1, <1>2, GreatestOf
  <1>4. ScanBack(ix, pos, t) = m
    BY <1>2 DEF ScanBack
  <1> HIDE DEF m
  <1>5. m \in 1 .. pos /\ ix[m].when <= t
    BY <1>3
  <1>6. ASSUME NEW j \in m + 1 .. Len(ix)
        PROVE  ix[j].when > t
    <2>1. j \in 1 .. Len(ix)
      BY <1>1, <1>5
    <2>2. CASE j <= pos
      <3>1. j \in 1 .. pos /\ j \notin before
        BY <1>1, <1>3, <1>5, <2>1, <2>2
      <3> QED
        BY <1>1, <2>1, <3>1
    <2>3. CASE j > pos
      <3>1. pos \in 1 .. j - 1
        BY <2>1, <2>3
      <3>2. ix[pos].when < ix[j].when
        BY <2>1, <3>1 DEF InOrder
      <3> QED
        BY <1>1, <2>1, <3>2
    <2> QED
      BY <1>1, <1>5, <2>1, <2>2, <2>3
  <1> QED
    BY <1>1, <1>4, <1>5, <1>6 DEF LastUpTo

(* The least of two. *)
LEMMA LeastOfTwo ==
    ASSUME NEW a \in Nat, NEW b \in Nat
    PROVE  Min({a, b}) = IF a <= b THEN a ELSE b
  <1>1. Min({a, b}) \in {a, b} /\ Min({a, b}) <= a /\ Min({a, b}) <= b
    BY LeastOf
  <1> QED
    BY <1>1

(* localdb_find_index finds the last entry up to the time, or none.        *)
LEMMA FindIndexIsRight ==
    ASSUME NEW ix \in Seq(Entries), InOrder(ix), Len(ix) > 1,
           NEW t0 \in Nat, localdb_find_index(ix, t0) # None
    PROVE  \E k \in 1 .. Len(ix) : /\ localdb_find_index(ix, t0) = ix[k].pos
                                   /\ LastUpTo(ix, t0, k)
  <1> DEFINE count == Len(ix)
             first == ix[1].when
             last == ix[count].when
             t == Min({t0, last})
             pos == FirstGuess(ix, t)
             k == IF ix[pos].when <= t THEN ScanForward(ix, pos, t)
                                       ELSE ScanBack(ix, pos, t)
  <1>1. /\ count \in Nat /\ first \in Nat /\ last \in Nat
        /\ \A i \in 1 .. count : ix[i].when \in Nat
    BY EntriesOfIndex
  <1>2. first <= t0 /\ localdb_find_index(ix, t0) = ix[k].pos
    BY <1>1 DEF localdb_find_index
  <1>3. first < last
    BY <1>1 DEF InOrder
  <1>4. t = IF t0 <= last THEN t0 ELSE last
    BY <1>1, LeastOfTwo
  <1>5. t \in Nat /\ first <= t /\ t <= last /\ t <= t0
    <2>1. first \in Nat /\ last \in Nat /\ first <= t0
      BY <1>1, <1>2
    <2> HIDE DEF first, last, t
    <2> QED
      BY <1>3, <1>4, <2>1
  <1> HIDE DEF t
  <1>6. pos \in 1 .. count
    <2> DEFINE guess == (count * (t - first)) \div (last - first)
    <2>1. guess \in 0 .. count
      <3>1. count \in Nat /\ first \in Nat /\ last \in Nat
        BY <1>1
      <3> DEFINE a == t - first
                 d == last - first
      <3> HIDE DEF count, first, last
      <3>2. a \in Nat /\ d \in Nat \ {0} /\ a <= d
        BY <1>3, <1>5, <3>1
      <3> HIDE DEF a, d
      <3>3. ((count * a) \div d) \in 0 .. count
        BY <3>1, <3>2, ShareOf, Zenon
      <3> QED
        BY <3>3, Zenon DEF a, d
    <2>2. pos = IF guess > 0 THEN guess ELSE 1
      BY Zenon DEF FirstGuess
    <2> HIDE DEF guess, pos
    <2> QED
      BY <1>1, <2>1, <2>2
  <1> HIDE DEF pos
  <1>7. LastUpTo(ix, t, k)
    <2>1. CASE ix[pos].when <= t
      BY <1>5, <1>6, <2>1, ForwardIsRight
    <2>2. CASE ~(ix[pos].when <= t)
      <3>1. ix[pos].when > t
        BY <1>1, <1>5, <1>6, <2>2
      <3> QED
        BY <1>5, <1>6, <2>2, <3>1, BackIsRight
    <2> QED
      BY <2>1, <2>2
  <1> HIDE DEF k
  <1>8. LastUpTo(ix, t0, k)
    <2>1. k \in 1 .. count /\ ix[k].when \in Nat /\ ix[k].when <= t
          /\ \A j \in k + 1 .. count : ix[j].when > t
      BY <1>1, <1>7 DEF LastUpTo
    <2>2. CASE t = t0
      BY <1>7, <2>2
    <2>3. CASE t # t0
      <3>1. t = last
        BY <1>4, <2>3
      <3>2. k = count
        BY <1>1, <2>1, <3>1
      <3> QED
        BY <1>1, <1>5, <2>1, <3>2 DEF LastUpTo
    <2> QED
      BY <2>2, <2>3
  <1> QED
    BY <1>2, <1>8 DEF LastUpTo

(* The last entry up to a time is the one that is wanted.                  *)
LEMMA WantedIsLast ==
    ASSUME NEW ix \in Seq(Entries), NEW t \in Nat, NEW k, LastUpTo(ix, t, k)
    PROVE  Wanted(ix, t) = ix[k].when
  <1> DEFINE upto == {i \in 1 .. Len(ix) : ix[i].when <= t}
  <1>1. Len(ix) \in Nat /\ \A i \in 1 .. Len(ix) : ix[i].when \in Nat
    BY EntriesOfIndex
  <1>2. k \in upto /\ upto \in SUBSET (0 .. Len(ix))
    BY <1>1 DEF LastUpTo
  <1>3. Max(upto) \in upto /\ \A i \in upto : i <= Max(upto)
    BY <1>1, <1>2, GreatestOf
  <1>4. Max(upto) = k
    <2> DEFINE m == Max(upto)
    <2>1. m \in 1 .. Len(ix) /\ ix[m].when <= t /\ k <= m
      BY <1>2, <1>3
    <2> HIDE DEF m
    <2>2. ~(m \in k + 1 .. Len(ix))
      BY <1>1, <2>1 DEF LastUpTo
    <2>3. m = k
      BY <1>1, <1>2, <2>1, <2>2
    <2> QED
      BY <2>3 DEF m
  <1>5. upto # {}
    BY <1>2
  <1> QED
    BY <1>4, <1>5 DEF Wanted
-----------------------------------------------------------------------------
(* The files. *)

Pieces == [when : Nat, whole : BOOLEAN]

(* Every entry of an index leads to a whole record of its time. *)
Leads(ix, data) ==
    \A k \in 1 .. Len(ix) : /\ ix[k].pos \in 1 .. Len(data)
                            /\ data[ix[k].pos] = Whole(ix[k].when)

UpTo(s, t) == \A k \in 1 .. Len(s) : s[k].when <= t
Before(s, t) == \A k \in 1 .. Len(s) : s[k].when < t
Indexed(t) == \E k \in 1 .. Len(idx[time2date(t)]) :
                 idx[time2date(t)][k].when = t

Opening == {"open", "openStale", "lock"}
Saving == Opening \cup {"write", "unlock", "closeDb", "closeIdx",
                        "closeCurrent", "rename"}

Types ==
    /\ now \in 0 .. EndTime /\ when \in None .. now /\ ts \in 0 .. now
    /\ current \in None .. when /\ curnew \in None .. now /\ dbpos \in Nat
    /\ db \in [Days -> Seq(Pieces)] /\ idx \in [Days -> Seq(Entries)]
    /\ dbname \subseteq Days /\ idxname \subseteq Days
    /\ wpc \in Saving \cup {"idle"} /\ rpc \in {"idle", "lock", "find"}
    /\ wpc # "idle" => when \in Nat /\ current < when
    /\ lock = IF wpc \in {"write", "unlock"} THEN Day ELSE None
    /\ culling \in Days \cup {None} /\ crashes \in 0 .. MaxCrashes

(* Nothing in the files is newer than the record that was saved last, and  *)
(* what is older than the one being saved is told by where the writer is.  *)
TimeInv ==
    \A d \in Days :
        /\ InOrder(idx[d]) /\ Leads(idx[d], db[d])
        /\ UpTo(db[d], when) /\ UpTo(idx[d], when)
        /\ wpc \in Opening \cup {"write"} => Before(db[d], when)
        /\ wpc \in Opening \cup {"write", "unlock", "closeDb", "closeIdx"}
             => Before(idx[d], when)

(* The record that is being saved: in the .db file in part, where dbpos    *)
(* says, and whole there before it is indexed; and current.db after that.  *)
SaveInv ==
    /\ wpc = "write" => dbpos = Len(db[Day]) + 1
    /\ wpc \in {"unlock", "closeDb"} =>
         \/ dbpos = Len(db[Day]) + 1 /\ Before(db[Day], when)
         \/ /\ dbpos = Len(db[Day]) /\ dbpos > 0
            /\ db[Day][dbpos] = Torn(when)
    /\ wpc = "closeIdx" =>
         dbpos \in 1 .. Len(db[Day]) /\ db[Day][dbpos] = Whole(when)
    /\ wpc \in {"closeCurrent", "rename"} => Indexed(when)
    /\ wpc = "rename" => curnew = when
    /\ current # None => Indexed(current)

FileInv == Types /\ TimeInv /\ SaveInv

-----------------------------------------------------------------------------
(* Pieces and days. *)

(* A whole record and one that is cut off. *)
LEMMA PiecesDiffer ==
    ASSUME NEW a \in Nat, NEW b \in Nat
    PROVE  /\ Whole(a) \in Pieces /\ Torn(a) \in Pieces
           /\ Whole(a).when = a /\ Torn(a).when = a
           /\ Torn(a) # Whole(b)
  <1>1. Whole(a) \in Pieces /\ Torn(a) \in Pieces
    BY DEF Whole, Torn, Pieces
  <1>2. Whole(a).when = a /\ Torn(a).when = a
    BY DEF Whole, Torn
  <1>3. Torn(a).whole = FALSE /\ Whole(b).whole = TRUE
    BY DEF Whole, Torn
  <1> QED
    BY <1>1, <1>2, <1>3

(* The day of a time there is. *)
LEMMA DayIsThere ==
    ASSUME NEW t \in 0 .. EndTime
    PROVE  time2date(t) \in Days
  <1>1. /\ t \in Nat /\ EndTime \in Nat /\ DayLen \in Nat \ {0}
        /\ t <= EndTime
    BY LocalDBAssumption
  <1>2. t \div DayLen <= EndTime \div DayLen
    BY <1>1, QuotientGrows
  <1>3. t \div DayLen \in Nat /\ EndTime \div DayLen \in Nat
    BY <1>1
  <1> QED
    BY <1>2, <1>3 DEF time2date, Days

(* The day of the record that is being saved. *)
LEMMA DayOfRecord ==
    ASSUME Types, wpc # "idle"
    PROVE  Day \in Days /\ when \in Nat
  <1>1. when \in 0 .. EndTime
    BY LocalDBAssumption DEF Types, None
  <1> QED
    BY <1>1, DayIsThere DEF Day

(* The contents of the files. *)
LEMMA FilesOfDay ==
    ASSUME Types, NEW d \in Days
    PROVE  /\ db[d] \in Seq(Pieces) /\ Len(db[d]) \in Nat
           /\ \A k \in 1 .. Len(db[d]) : db[d][k].when \in Nat
           /\ idx[d] \in Seq(Entries) /\ Len(idx[d]) \in Nat
           /\ \A k \in 1 .. Len(idx[d]) : /\ idx[d][k].when \in Nat
                                          /\ idx[d][k].pos \in Nat
  <1>1. db[d] \in Seq(Pieces) /\ idx[d] \in Seq(Entries)
    BY DEF Types
  <1>2. \A k \in 1 .. Len(db[d]) : db[d][k] \in Pieces
    BY <1>1, ElementOfSeq
  <1>3. \A k \in 1 .. Len(db[d]) : db[d][k].when \in Nat
    BY <1>2 DEF Pieces
  <1> QED
    BY <1>1, <1>3, EntriesOfIndex, LenProperties

(* A file without its last piece. *)
LEMMA FrontOfFile ==
    ASSUME NEW S, NEW s \in Seq(S), s # <<>>
    PROVE  /\ Front(s) \in Seq(S) /\ Len(Front(s)) = Len(s) - 1
           /\ \A k \in 1 .. Len(s) - 1 : Front(s)[k] = s[k]
           /\ Len(s) \in Nat \ {0} /\ Last(s) = s[Len(s)]
  <1>1. Len(s) \in Nat \ {0}
    BY EmptySeq, LenProperties
  <1>2. Front(s) = SubSeq(s, 1, Len(s) - 1)
    BY DEF Front
  <1> DEFINE n == Len(s) - 1
  <1>3. n \in Nat /\ \A i \in 1 .. n : s[i] \in S
    BY <1>1, ElementOfSeq
  <1> HIDE DEF n
  <1>4. /\ Front(s) \in Seq(S) /\ Len(Front(s)) = n
        /\ \A k \in 1 .. n : Front(s)[k] = s[k]
    <2>1. /\ SubSeq(s, 1, n) \in Seq(S)
          /\ Len(SubSeq(s, 1, n)) = IF 1 <= n THEN n - 1 + 1 ELSE 0
          /\ \A i \in 1 .. n - 1 + 1 : SubSeq(s, 1, n)[i] = s[1 + i - 1]
      BY <1>3, SubSeqProperties
    <2>2. n - 1 + 1 = n /\ \A i \in 1 .. n : 1 + i - 1 = i
      BY <1>3
    <2>3. Front(s) = SubSeq(s, 1, n)
      BY <1>2 DEF n
    <2> QED
      BY <1>3, <2>1, <2>2, <2>3
  <1> QED
    BY <1>1, <1>4 DEF Last, n

-----------------------------------------------------------------------------
(* The steps. *)

(* At the start there are no files. *)
LEMMA FileInit == Init => FileInv
  BY LocalDBAssumption
     DEF Init, FileInv, Types, TimeInv, SaveInv, None, Opening, Saving,
         InOrder, Leads, UpTo

(* Every step keeps the types.                                             *)
LEMMA TypesStep ==
    ASSUME FileInv, [Next]_vars
    PROVE  Types'
  <1>1. CASE \E stale \in BOOLEAN : OpenCurrent(stale)
    BY <1>1, LocalDBAssumption
       DEF OpenCurrent, FileInv, Types, Opening, Saving, Day, None, files,
           writer, reader
  <1>2. CASE GiveUp
    BY <1>2, LocalDBAssumption
       DEF GiveUp, FileInv, Types, Opening, Saving, Day, None, files, writer,
           reader
  <1>3. CASE OpenDbFile
    <2>1. Day \in Days
      BY <1>3, DayOfRecord DEF FileInv, OpenDbFile
    <2> QED
      BY <1>3, <2>1
         DEF OpenDbFile, FileInv, Types, Opening, Saving, Day, None, reader
  <1>4. CASE LockFiles
    <2>1. Day \in Days /\ Len(db[Day]) \in Nat
      BY <1>4, DayOfRecord, FilesOfDay DEF FileInv, LockFiles
    <2> QED
      BY <1>4, <2>1
         DEF LockFiles, FileInv, Types, Opening, Saving, Day, None, reader,
             EndOfDb
  <1>5. CASE \E long \in BOOLEAN : WriteRecord(long)
    <2>1. Day \in Days /\ Torn(when) \in Pieces
      BY <1>5, DayOfRecord, PiecesDiffer DEF FileInv, WriteRecord
    <2>2. Append(db[Day], Torn(when)) \in Seq(Pieces)
      BY <2>1, FilesOfDay, AppendProperties DEF FileInv
    <2>3. db' \in [Days -> Seq(Pieces)]
      BY <1>5, <2>1, <2>2 DEF WriteRecord, FileInv, Types
    <2> QED
      BY <1>5, <2>3
         DEF WriteRecord, FileInv, Types, Opening, Saving, Day, None, reader
  <1>6. CASE Unlock
    BY <1>6, LocalDBAssumption
       DEF Unlock, FileInv, Types, Opening, Saving, Day, None, files, writer,
           reader
  <1>7. CASE CloseDb
    <2>1. Day \in Days /\ Whole(when) \in Pieces
      BY <1>7, DayOfRecord, PiecesDiffer DEF FileInv, CloseDb
    <2>2. /\ Append(db[Day], Whole(when)) \in Seq(Pieces)
          /\ db[Day] # <<>> =>
               Append(Front(db[Day]), Whole(when)) \in Seq(Pieces)
      BY <2>1, FilesOfDay, FrontOfFile, AppendProperties DEF FileInv
    <2>3. db' \in [Days -> Seq(Pieces)]
      BY <1>7, <2>1, <2>2 DEF CloseDb, FileInv, Types
    <2> QED
      BY <1>7, <2>3
         DEF CloseDb, FileInv, Types, Opening, Saving, Day, None, reader
  <1>8. CASE CloseIdx
    <2>1. Day \in Days /\ when \in Nat
      BY <1>8, DayOfRecord DEF FileInv, CloseIdx
    <2>2. [when |-> when, pos |-> dbpos] \in Entries
      BY <2>1 DEF FileInv, Types, Entries
    <2>3. Append(idx[Day], [when |-> when, pos |-> dbpos]) \in Seq(Entries)
      BY <2>1, <2>2, FilesOfDay, AppendProperties DEF FileInv
    <2>4. idx' \in [Days -> Seq(Entries)]
      BY <1>8, <2>1, <2>3 DEF CloseIdx, FileInv, Types
    <2> QED
      BY <1>8, <2>4
         DEF CloseIdx, FileInv, Types, Opening, Saving, Day, None, reader
  <1>9. CASE CloseCurrent
    BY <1>9, LocalDBAssumption
       DEF CloseCurrent, FileInv, Types, Opening, Saving, Day, None, files,
           writer, reader
  <1>10. CASE localdb_done_current
    BY <1>10, LocalDBAssumption
       DEF localdb_done_current, FileInv, Types, Opening, Saving, Day, None,
           files, writer, reader, SaveInv
  <1>11. CASE LockDb
    BY <1>11, LocalDBAssumption
       DEF LockDb, FileInv, Types, Opening, Saving, Day, None, files, writer,
           reader
  <1>12. CASE GetRecord
    BY <1>12, LocalDBAssumption
       DEF GetRecord, FileInv, Types, Opening, Saving, Day, None, files,
           writer, reader
  <1>13. CASE \E t \in 0 .. EndTime : OpenDb(t)
    BY <1>13, LocalDBAssumption
       DEF OpenDb, FileInv, Types, Opening, Saving, Day, None, files, writer,
           reader
  <1>14. CASE Crash
    BY <1>14, LocalDBAssumption
       DEF Crash, FileInv, Types, Opening, Saving, Day, None, files, writer,
           reader
  <1>15. CASE Tick
    BY <1>15, LocalDBAssumption
       DEF Tick, FileInv, Types, Opening, Saving, Day, None, files, writer,
           reader
  <1>16. CASE DeleteIdx
    BY <1>16, LocalDBAssumption
       DEF DeleteIdx, FileInv, Types, Opening, Saving, Day, None, files,
           writer, reader
  <1>17. CASE \E d \in Days : DeleteDb(d)
    BY <1>17, LocalDBAssumption
       DEF DeleteDb, FileInv, Types, Opening, Saving, Day, None, files, writer,
           reader
  <1>18. CASE UNCHANGED vars
    BY <1>18, LocalDBAssumption
       DEF vars, FileInv, Types, Opening, Saving, Day, None, files, writer,
           reader
  <1> QED
    BY <1>1, <1>2, <1>3, <1>4, <1>5, <1>6, <1>7, <1>8, <1>9, <1>10, <1>11,
       <1>12, <1>13, <1>14, <1>15, <1>16, <1>17, <1>18
       DEF Next, Writer, Reader

(* One more piece in a day's file. *)
LEMMA LongerFile ==
    ASSUME Types, TimeInv, wpc \in {"write", "closeDb"}, NEW e \in Pieces,
           Day \in Days, when \in Nat, e.when = when,
           db' = [db EXCEPT ![Day] = Append(@, e)],
           idx' = idx, when' = when, wpc' \notin Opening \cup {"write"}
    PROVE  TimeInv'
  <1> DEFINE d == Day
  <1>1. /\ \A f \in Days \ {d} : db'[f] = db[f]
        /\ db'[d] = Append(db[d], e)
    BY DEF Types
  <1>2. /\ Len(db'[d]) = Len(db[d]) + 1 /\ Len(db[d]) \in Nat
        /\ db'[d][Len(db[d]) + 1] = e
        /\ \A k \in 1 .. Len(db[d]) : db'[d][k] = db[d][k]
    BY <1>1, FilesOfDay, AppendProperties
  <1>3. Leads(idx[d], db[d]) /\ UpTo(db[d], when)
    BY DEF TimeInv
  <1>4. \A f \in Days : Before(idx[f], when)
    BY DEF TimeInv
  <1>5. Leads(idx[d], db'[d])
    BY <1>2, <1>3 DEF Leads
  <1>6. UpTo(db'[d], when)
    BY <1>2, <1>3 DEF UpTo
  <1> HIDE DEF d
  <1>7. \A f \in Days : Leads(idx[f], db'[f]) /\ UpTo(db'[f], when)
    BY <1>1, <1>5, <1>6 DEF TimeInv
  <1> QED
    BY <1>4, <1>7 DEF TimeInv

(* The piece of a long record becomes the record. *)
LEMMA MendedFile ==
    ASSUME Types, TimeInv, wpc = "closeDb",
           Day \in Days, when \in Nat,
           db[Day] # <<>>, Last(db[Day]) = Torn(when),
           db' = [db EXCEPT ![Day] = Append(Front(@), Whole(when))],
           idx' = idx, when' = when, wpc' \notin Opening \cup {"write"}
    PROVE  TimeInv'
  <1> DEFINE d == Day
             n == Len(db[d])
             w == Whole(when)
  <1>1. /\ \A f \in Days \ {d} : db'[f] = db[f]
        /\ db'[d] = Append(Front(db[d]), w)
    BY DEF Types
  <1>2. w \in Pieces /\ w.when = when
    BY PiecesDiffer
  <1>3. /\ Front(db[d]) \in Seq(Pieces) /\ Len(Front(db[d])) = n - 1
        /\ \A k \in 1 .. n - 1 : Front(db[d])[k] = db[d][k]
        /\ n \in Nat \ {0} /\ db[d][n] = Torn(when)
    BY FilesOfDay, FrontOfFile
  <1> HIDE DEF w
  <1>4. /\ Len(db'[d]) = n /\ db'[d][n] = w
        /\ \A k \in 1 .. n - 1 : db'[d][k] = db[d][k]
    <2>1. /\ Len(db'[d]) = Len(Front(db[d])) + 1
          /\ db'[d][Len(Front(db[d])) + 1] = w
          /\ \A k \in 1 .. Len(Front(db[d])) : db'[d][k] = Front(db[d])[k]
      BY <1>1, <1>2, <1>3, AppendProperties
    <2> QED
      BY <1>3, <2>1
  <1>5. Leads(idx[d], db[d]) /\ UpTo(db[d], when)
    BY DEF TimeInv
  <1>6. \A f \in Days : Before(idx[f], when)
    BY DEF TimeInv
  <1>7. Leads(idx[d], db'[d])
    <2> SUFFICES ASSUME NEW k \in 1 .. Len(idx[d])
                 PROVE  /\ idx[d][k].pos \in 1 .. n
                        /\ db'[d][idx[d][k].pos] = Whole(idx[d][k].when)
      BY <1>4 DEF Leads
    <2>1. /\ idx[d][k].pos \in 1 .. n
          /\ db[d][idx[d][k].pos] = Whole(idx[d][k].when)
      BY <1>5 DEF Leads
    <2>2. idx[d][k].when \in Nat
      BY FilesOfDay
    <2>3. idx[d][k].pos # n
      BY <1>3, <2>1, <2>2, PiecesDiffer
    <2>4. idx[d][k].pos \in 1 .. n - 1
      BY <1>3, <2>1, <2>3
    <2> QED
      BY <1>4, <2>1, <2>4
  <1>8. UpTo(db'[d], when)
    <2> SUFFICES ASSUME NEW k \in 1 .. n
                 PROVE  db'[d][k].when <= when
      BY <1>4 DEF UpTo
    <2>1. CASE k = n
      BY <1>2, <1>4, <2>1
    <2>2. CASE k \in 1 .. n - 1
      BY <1>4, <1>5, <2>2 DEF UpTo
    <2> QED
      BY <1>3, <2>1, <2>2
  <1> HIDE DEF d
  <1>9. \A f \in Days : Leads(idx[f], db'[f]) /\ UpTo(db'[f], when)
    BY <1>1, <1>7, <1>8 DEF TimeInv
  <1> QED
    BY <1>6, <1>9 DEF TimeInv

(* Records are saved in the order of time, each in its own piece.          *)
LEMMA TimeStep ==
    ASSUME FileInv, [Next]_vars
    PROVE  TimeInv'
  <1>1. CASE \E stale \in BOOLEAN : OpenCurrent(stale)
    <2>1. /\ db' = db /\ idx' = idx /\ when' = now /\ now > when
          /\ wpc' \in {"open", "openStale"}
      BY <1>1 DEF OpenCurrent
    <2>2. now \in Int /\ when \in Int
      BY LocalDBAssumption DEF FileInv, Types, None
    <2>3. ASSUME NEW d \in Days
          PROVE  Before(db[d], now) /\ Before(idx[d], now)
      <3>1. UpTo(db[d], when) /\ UpTo(idx[d], when)
        BY DEF FileInv, TimeInv
      <3>2. \A k \in 1 .. Len(db[d]) : db[d][k].when \in Nat
        BY FilesOfDay DEF FileInv
      <3>3. \A k \in 1 .. Len(idx[d]) : idx[d][k].when \in Nat
        BY FilesOfDay DEF FileInv
      <3>4. Before(db[d], now)
        BY <2>1, <2>2, <3>1, <3>2 DEF UpTo, Before
      <3>5. Before(idx[d], now)
        BY <2>1, <2>2, <3>1, <3>3 DEF UpTo, Before
      <3> QED
        BY <3>4, <3>5
    <2>4. ASSUME NEW d \in Days
          PROVE  UpTo(db[d], now) /\ UpTo(idx[d], now)
      <3>1. UpTo(db[d], now)
        BY <2>2, <2>3, FilesOfDay DEF UpTo, Before, FileInv
      <3>2. UpTo(idx[d], now)
        BY <2>2, <2>3, FilesOfDay DEF UpTo, Before, FileInv
      <3> QED
        BY <3>1, <3>2
    <2>5. \A d \in Days : InOrder(idx[d]) /\ Leads(idx[d], db[d])
      BY DEF FileInv, TimeInv
    <2> QED
      BY <2>1, <2>3, <2>4, <2>5 DEF TimeInv
  <1>2. CASE GiveUp
    BY <1>2 DEF GiveUp, FileInv, TimeInv, Opening, files, writer, reader
  <1>3. CASE OpenDbFile
    BY <1>3 DEF OpenDbFile, FileInv, TimeInv, Opening, files, writer, reader
  <1>4. CASE LockFiles
    BY <1>4 DEF LockFiles, FileInv, TimeInv, Opening, files, writer, reader
  <1>5. CASE \E long \in BOOLEAN : WriteRecord(long)
    <2>1. /\ idx' = idx /\ when' = when /\ wpc = "write" /\ wpc' = "unlock"
          /\ db' = db \/ db' = [db EXCEPT ![Day] = Append(@, Torn(when))]
      BY <1>5 DEF WriteRecord
    <2>2. CASE db' = db
      BY <2>1, <2>2 DEF FileInv, TimeInv, Opening
    <2>3. CASE db' = [db EXCEPT ![Day] = Append(@, Torn(when))]
      <3>1. Day \in Days /\ when \in Nat
        BY <2>1, DayOfRecord DEF FileInv
      <3>2. Torn(when) \in Pieces /\ Torn(when).when = when
        BY <3>1, PiecesDiffer
      <3>3. wpc \in {"write", "closeDb"} /\ wpc' \notin Opening \cup {"write"}
        BY <2>1 DEF Opening
      <3> QED
        BY <2>1, <2>3, <3>1, <3>2, <3>3, LongerFile DEF FileInv
    <2> QED
      BY <2>1, <2>2, <2>3
  <1>6. CASE Unlock
    BY <1>6 DEF Unlock, FileInv, TimeInv, Opening, files, writer, reader
  <1>7. CASE CloseDb
    <2> DEFINE d == Day
    <2>1. /\ idx' = idx /\ when' = when /\ wpc = "closeDb"
          /\ wpc' = "closeIdx" /\ d \in Days /\ when \in Nat
      BY <1>7, DayOfRecord DEF CloseDb, FileInv
    <2>4. wpc \in {"write", "closeDb"} /\ wpc' \notin Opening \cup {"write"}
      BY <2>1 DEF Opening
    <2>2. CASE db[d] # <<>> /\ Last(db[d]) = Torn(when)
      <3>1. db' = [db EXCEPT ![d] = Append(Front(@), Whole(when))]
        BY <1>7, <2>2 DEF CloseDb
      <3> QED
        BY <2>1, <2>2, <2>4, <3>1, MendedFile DEF FileInv
    <2>3. CASE ~(db[d] # <<>> /\ Last(db[d]) = Torn(when))
      <3>1. db' = [db EXCEPT ![d] = Append(@, Whole(when))]
        BY <1>7, <2>3 DEF CloseDb
      <3>2. Whole(when) \in Pieces /\ Whole(when).when = when
        BY <2>1, PiecesDiffer
      <3> QED
        BY <2>1, <2>4, <3>1, <3>2, LongerFile DEF FileInv
    <2> QED
      BY <2>2, <2>3
  <1>8. CASE CloseIdx
    <2> DEFINE d == Day
               e == [when |-> when, pos |-> dbpos]
    <2>1. /\ db' = db /\ when' = when /\ wpc = "closeIdx"
          /\ wpc' = "closeCurrent" /\ d \in Days /\ when \in Nat
          /\ idx' = [idx EXCEPT ![d] = Append(@, e)]
      BY <1>8, DayOfRecord DEF CloseIdx, FileInv
    <2>2. /\ dbpos \in 1 .. Len(db[d]) /\ db[d][dbpos] = Whole(when)
          /\ DOMAIN idx = Days
      BY <2>1 DEF FileInv, SaveInv, Types
    <2>3. e \in Entries /\ e.when = when /\ e.pos = dbpos
      BY <2>1 DEF FileInv, Types, Entries
    <2> HIDE DEF d, e
    <2>4. /\ \A f \in Days \ {d} : idx'[f] = idx[f]
          /\ idx'[d] = Append(idx[d], e)
      BY <2>1, <2>2
    <2>5. /\ Len(idx'[d]) = Len(idx[d]) + 1 /\ Len(idx[d]) \in Nat
          /\ idx'[d][Len(idx[d]) + 1] = e
          /\ \A k \in 1 .. Len(idx[d]) : idx'[d][k] = idx[d][k]
      BY <2>1, <2>3, <2>4, FilesOfDay, AppendProperties DEF FileInv
    <2>6. /\ InOrder(idx[d]) /\ Leads(idx[d], db[d])
          /\ Before(idx[d], when) /\ UpTo(db[d], when)
      BY <2>1 DEF FileInv, TimeInv
    <2>7. InOrder(idx'[d])
      <3> SUFFICES ASSUME NEW k \in 1 .. Len(idx'[d]), NEW j \in 1 .. k - 1
                   PROVE  idx'[d][j].when < idx'[d][k].when
        BY DEF InOrder
      <3>1. CASE k \in 1 .. Len(idx[d])
        <4>1. j \in 1 .. Len(idx[d])
          BY <2>5, <3>1
        <4> QED
          BY <2>5, <2>6, <3>1, <4>1 DEF InOrder
      <3>2. CASE k = Len(idx[d]) + 1
        <4>1. j \in 1 .. Len(idx[d])
          BY <2>5, <3>2
        <4> QED
          BY <2>3, <2>5, <2>6, <3>2, <4>1 DEF Before
      <3> QED
        BY <2>5, <3>1, <3>2
    <2>8. Leads(idx'[d], db[d])
      <3> SUFFICES ASSUME NEW k \in 1 .. Len(idx'[d])
                   PROVE  /\ idx'[d][k].pos \in 1 .. Len(db[d])
                          /\ db[d][idx'[d][k].pos] = Whole(idx'[d][k].when)
        BY DEF Leads
      <3>1. CASE k \in 1 .. Len(idx[d])
        BY <2>5, <2>6, <3>1 DEF Leads
      <3>2. CASE k = Len(idx[d]) + 1
        BY <2>2, <2>3, <2>5, <3>2
      <3> QED
        BY <2>5, <3>1, <3>2
    <2>9. UpTo(idx'[d], when)
      <3>1. \A k \in 1 .. Len(idx[d]) : idx[d][k].when \in Nat
        BY <2>1, FilesOfDay DEF FileInv
      <3> QED
        BY <2>1, <2>3, <2>5, <2>6, <3>1 DEF UpTo, Before
    <2> QED
      BY <2>1, <2>4, <2>6, <2>7, <2>8, <2>9 DEF FileInv, TimeInv, Opening
  <1>9. CASE CloseCurrent
    BY <1>9 DEF CloseCurrent, FileInv, TimeInv, Opening, files, writer, reader
  <1>10. CASE localdb_done_current
    BY <1>10
       DEF localdb_done_current, FileInv, TimeInv, Opening, files, writer,
           reader
  <1>11. CASE LockDb
    BY <1>11 DEF LockDb, FileInv, TimeInv, Opening, files, writer, reader
  <1>12. CASE GetRecord
    BY <1>12 DEF GetRecord, FileInv, TimeInv, Opening, files, writer, reader
  <1>13. CASE \E t \in 0 .. EndTime : OpenDb(t)
    BY <1>13 DEF OpenDb, FileInv, TimeInv, Opening, files, writer, reader
  <1>14. CASE Crash
    BY <1>14 DEF Crash, FileInv, TimeInv, Opening, files, writer, reader
  <1>15. CASE Tick
    BY <1>15 DEF Tick, FileInv, TimeInv, Opening, files, writer, reader
  <1>16. CASE DeleteIdx
    BY <1>16 DEF DeleteIdx, FileInv, TimeInv, Opening, files, writer, reader
  <1>17. CASE \E d \in Days : DeleteDb(d)
    BY <1>17 DEF DeleteDb, FileInv, TimeInv, Opening, files, writer, reader
  <1>18. CASE UNCHANGED vars
    BY <1>18 DEF vars, FileInv, TimeInv, Opening, files, writer, reader
  <1> QED
    BY <1>1, <1>2, <1>3, <1>4, <1>5, <1>6, <1>7, <1>8, <1>9, <1>10, <1>11,
       <1>12, <1>13, <1>14, <1>15, <1>16, <1>17, <1>18
       DEF Next, Writer, Reader

(* What is indexed stays indexed. *)
LEMMA IndexGrows ==
    ASSUME Types, wpc # "idle", NEW e \in Entries,
           idx' = [idx EXCEPT ![Day] = Append(@, e)],
           NEW t \in Nat, Indexed(t) \/ (e.when = t /\ time2date(t) = Day)
    PROVE  \E k \in 1 .. Len(idx'[time2date(t)]) :
              idx'[time2date(t)][k].when = t
  <1> DEFINE d == Day
             u == time2date(t)
  <1>1. d \in Days
    BY DayOfRecord
  <1>2. /\ u # d => idx'[u] = idx[u]
        /\ idx'[d] = Append(idx[d], e)
    BY <1>1 DEF Types
  <1>3. /\ Len(idx'[d]) = Len(idx[d]) + 1 /\ Len(idx[d]) \in Nat
        /\ idx'[d][Len(idx[d]) + 1] = e
        /\ \A k \in 1 .. Len(idx[d]) : idx'[d][k] = idx[d][k]
    BY <1>1, <1>2, FilesOfDay, AppendProperties
  <1> HIDE DEF d
  <1>4. CASE Indexed(t)
    <2>1. PICK k \in 1 .. Len(idx[u]) : idx[u][k].when = t
      BY <1>4 DEF Indexed
    <2>2. CASE u = d
      <3>1. k \in 1 .. Len(idx'[u]) /\ idx'[u][k] = idx[u][k]
        BY <1>3, <2>2
      <3> QED
        BY <2>1, <3>1
    <2>3. CASE u # d
      BY <1>2, <2>1, <2>3
    <2> QED
      BY <2>2, <2>3
  <1>5. CASE e.when = t /\ u = d
    <2>1. Len(idx[d]) + 1 \in 1 .. Len(idx'[d])
      BY <1>3
    <2> QED
      BY <1>3, <1>5, <2>1
  <1> QED
    BY <1>4, <1>5 DEF d

(* A record is indexed when it is whole, and current.db replaced then.     *)
LEMMA SaveStep ==
    ASSUME FileInv, [Next]_vars
    PROVE  SaveInv'
  <1>1. CASE \E stale \in BOOLEAN : OpenCurrent(stale)
    BY <1>1
       DEF OpenCurrent, FileInv, SaveInv, Indexed, Day, files, writer, reader
  <1>2. CASE GiveUp
    BY <1>2 DEF GiveUp, FileInv, SaveInv, Indexed, Day, files, writer, reader
  <1>3. CASE OpenDbFile
    BY <1>3
       DEF OpenDbFile, FileInv, SaveInv, Indexed, Day, files, writer, reader
  <1>4. CASE LockFiles
    BY <1>4 DEF LockFiles, FileInv, SaveInv, Indexed, Day, EndOfDb, reader
  <1>5. CASE \E long \in BOOLEAN : WriteRecord(long)
    <2> DEFINE d == Day
    <2>1. /\ idx' = idx /\ when' = when /\ wpc = "write" /\ wpc' = "unlock"
          /\ dbpos' = dbpos /\ current' = current /\ Day' = Day
          /\ db' = db \/ db' = [db EXCEPT ![d] = Append(@, Torn(when))]
      BY <1>5 DEF WriteRecord, Day
    <2>2. /\ dbpos = Len(db[d]) + 1
          /\ current # None => Indexed(current)
      BY <2>1 DEF FileInv, SaveInv
    <2>3. /\ d \in Days /\ DOMAIN db = Days /\ Torn(when) \in Pieces
          /\ db[d] \in Seq(Pieces) /\ Len(db[d]) \in Nat
      BY <2>1, DayOfRecord, PiecesDiffer, FilesOfDay DEF FileInv, Types
    <2>4. Before(db[d], when)
      BY <2>1, <2>3 DEF FileInv, TimeInv
    <2> HIDE DEF d
    <2>5. \/ dbpos = Len(db'[d]) + 1 /\ Before(db'[d], when)
          \/ /\ dbpos = Len(db'[d]) /\ dbpos > 0
             /\ db'[d][dbpos] = Torn(when)
      <3>1. CASE db' = db
        BY <2>2, <2>4, <3>1
      <3>2. CASE db' = [db EXCEPT ![d] = Append(@, Torn(when))]
        <4>1. db'[d] = Append(db[d], Torn(when))
          BY <2>3, <3>2
        <4>2. /\ Len(db'[d]) = Len(db[d]) + 1
              /\ db'[d][Len(db[d]) + 1] = Torn(when)
          BY <2>3, <4>1, AppendProperties
        <4> QED
          BY <2>2, <2>3, <4>2
      <3> QED
        BY <2>1, <3>1, <3>2
    <2>6. Indexed(current)' <=> Indexed(current)
      BY <2>1 DEF Indexed
    <2> QED
      BY <2>1, <2>2, <2>5, <2>6 DEF SaveInv, Before, d
  <1>6. CASE Unlock
    BY <1>6 DEF Unlock, FileInv, SaveInv, Indexed, Day, files, writer, reader
  <1>7. CASE CloseDb
    <2> DEFINE d == Day
               w == Whole(when)
               n == Len(db[d])
               begun == db[d] # <<>> /\ Last(db[d]) = Torn(when)
    <2>1. /\ idx' = idx /\ when' = when /\ wpc = "closeDb"
          /\ wpc' = "closeIdx" /\ dbpos' = dbpos /\ current' = current
          /\ Day' = Day
      BY <1>7 DEF CloseDb, Day
    <2>2. /\ d \in Days /\ DOMAIN db = Days /\ w \in Pieces
          /\ db[d] \in Seq(Pieces) /\ n \in Nat /\ when \in Nat
      BY <2>1, DayOfRecord, PiecesDiffer, FilesOfDay DEF FileInv, Types
    <2>3. /\ \/ dbpos = n + 1 /\ Before(db[d], when)
             \/ dbpos = n /\ dbpos > 0 /\ db[d][dbpos] = Torn(when)
          /\ current # None => Indexed(current)
      BY <2>1 DEF FileInv, SaveInv
    <2>4. db'[d] = Append(IF begun THEN Front(db[d]) ELSE db[d], w)
      BY <1>7, <2>2 DEF CloseDb
    <2>5. begun => /\ Front(db[d]) \in Seq(Pieces) /\ Len(Front(db[d])) = n - 1
                   /\ n > 0 /\ db[d][n] = Torn(when)
      BY <2>2, FrontOfFile
    <2>6. ~begun => dbpos = n + 1
      <3>1. ASSUME dbpos = n, dbpos > 0, db[d][dbpos] = Torn(when)
            PROVE  begun
        <4>1. db[d] # <<>>
          BY <2>2, <3>1
        <4> QED
          BY <3>1, <4>1 DEF Last
      <3> QED
        BY <2>3, <3>1
    <2>7. begun => dbpos = n
      <3>1. ASSUME begun, Before(db[d], when)
            PROVE  FALSE
        <4>1. n \in 1 .. Len(db[d]) /\ Torn(when).when = when
          BY <2>2, <2>5, <3>1, PiecesDiffer
        <4> QED
          BY <2>2, <2>5, <3>1, <4>1 DEF Before
      <3> QED
        BY <2>3, <3>1
    <2> HIDE DEF d, w, n, begun
    <2>8. dbpos \in 1 .. Len(db'[d]) /\ db'[d][dbpos] = w
      <3>1. CASE begun
        <4>1. /\ Len(db'[d]) = n - 1 + 1
              /\ db'[d][n - 1 + 1] = w
          BY <2>2, <2>4, <2>5, <3>1, AppendProperties
        <4> QED
          BY <2>2, <2>5, <2>7, <3>1, <4>1
      <3>2. CASE ~begun
        <4>1. Len(db'[d]) = n + 1 /\ db'[d][n + 1] = w
          BY <2>2, <2>4, <3>2, AppendProperties DEF n
        <4> QED
          BY <2>2, <2>6, <3>2, <4>1
      <3> QED
        BY <3>1, <3>2
    <2>9. Indexed(current)' <=> Indexed(current)
      BY <2>1 DEF Indexed
    <2> QED
      BY <2>1, <2>3, <2>8, <2>9 DEF SaveInv, d, w
  <1>8. CASE CloseIdx
    <2> DEFINE e == [when |-> when, pos |-> dbpos]
    <2>1. /\ when' = when /\ wpc = "closeIdx" /\ wpc' = "closeCurrent"
          /\ current' = current /\ when \in Nat
          /\ idx' = [idx EXCEPT ![Day] = Append(@, e)]
      BY <1>8, DayOfRecord DEF CloseIdx, FileInv
    <2>2. e \in Entries /\ e.when = when
      BY <2>1 DEF FileInv, Types, Entries
    <2> HIDE DEF e
    <2>3. Indexed(when)'
      BY <2>1, <2>2, IndexGrows DEF FileInv, Indexed, Day
    <2>4. current # None => Indexed(current)'
      <3>1. current # None => current \in Nat /\ Indexed(current)
        BY DEF FileInv, Types, SaveInv, None
      <3> QED
        BY <2>1, <2>2, <3>1, IndexGrows DEF FileInv, Indexed
    <2> QED
      BY <2>1, <2>3, <2>4 DEF SaveInv
  <1>9. CASE CloseCurrent
    BY <1>9
       DEF CloseCurrent, FileInv, SaveInv, Indexed, Day, files, writer, reader
  <1>10. CASE localdb_done_current
    BY <1>10
       DEF localdb_done_current, FileInv, SaveInv, Indexed, Day, files, writer,
           reader
  <1>11. CASE LockDb
    BY <1>11 DEF LockDb, FileInv, SaveInv, Indexed, Day, files, writer, reader
  <1>12. CASE GetRecord
    BY <1>12
       DEF GetRecord, FileInv, SaveInv, Indexed, Day, files, writer, reader
  <1>13. CASE \E t \in 0 .. EndTime : OpenDb(t)
    BY <1>13 DEF OpenDb, FileInv, SaveInv, Indexed, Day, files, writer, reader
  <1>14. CASE Crash
    BY <1>14 DEF Crash, FileInv, SaveInv, Indexed, Day, files, writer, reader
  <1>15. CASE Tick
    BY <1>15 DEF Tick, FileInv, SaveInv, Indexed, Day, files, writer, reader
  <1>16. CASE DeleteIdx
    BY <1>16
       DEF DeleteIdx, FileInv, SaveInv, Indexed, Day, files, writer, reader
  <1>17. CASE \E d \in Days : DeleteDb(d)
    BY <1>17
       DEF DeleteDb, FileInv, SaveInv, Indexed, Day, files, writer, reader
  <1>18. CASE UNCHANGED vars
    BY <1>18 DEF vars, FileInv, SaveInv, Indexed, Day, files, writer, reader
  <1> QED
    BY <1>1, <1>2, <1>3, <1>4, <1>5, <1>6, <1>7, <1>8, <1>9, <1>10, <1>11,
       <1>12, <1>13, <1>14, <1>15, <1>16, <1>17, <1>18
       DEF Next, Writer, Reader

-----------------------------------------------------------------------------
(* What follows. *)

(* How far the files are, in every state. *)
THEOREM FilesInvariant == Spec => []FileInv
  <1>1. FileInv /\ [Next]_vars => FileInv'
    BY TypesStep, TimeStep, SaveStep DEF FileInv
  <1> QED
    BY <1>1, FileInit, PTL DEF Spec

(* Every index entry leads to a whole record of its time, in the order of  *)
(* time, and current.db is never ahead of what can be read back.           *)
THEOREM IndexIsSound == Spec => []IndexSound
  <1>1. FileInv => IndexSound
    <2> SUFFICES ASSUME FileInv
                 PROVE  IndexSound
      OBVIOUS
    <2>1. ASSUME NEW d \in Days, NEW k \in DOMAIN idx[d]
          PROVE  /\ idx[d][k].pos \in DOMAIN db[d]
                 /\ db[d][idx[d][k].pos] = Whole(idx[d][k].when)
                 /\ k > 1 => idx[d][k - 1].when < idx[d][k].when
      <3>1. /\ DOMAIN idx[d] = 1 .. Len(idx[d]) /\ Len(idx[d]) \in Nat
            /\ DOMAIN db[d] = 1 .. Len(db[d])
        BY FilesOfDay, LenProperties DEF FileInv
      <3>2. InOrder(idx[d]) /\ Leads(idx[d], db[d])
        BY DEF FileInv, TimeInv
      <3>3. k \in Nat /\ (k > 1 => k - 1 \in 1 .. k - 1)
        BY <3>1
      <3> QED
        BY <3>1, <3>2, <3>3 DEF InOrder, Leads
    <2>2. current # None =>
             \E k \in DOMAIN idx[time2date(current)] :
                 idx[time2date(current)][k].when = current
      <3> SUFFICES ASSUME current # None
                   PROVE  \E k \in DOMAIN idx[time2date(current)] :
                             idx[time2date(current)][k].when = current
        OBVIOUS
      <3>1. current \in 0 .. EndTime
        BY LocalDBAssumption DEF FileInv, Types, None
      <3>2. DOMAIN idx[time2date(current)] = 1 .. Len(idx[time2date(current)])
        BY <3>1, DayIsThere, FilesOfDay, LenProperties DEF FileInv
      <3> QED
        BY <3>2 DEF FileInv, SaveInv, Indexed
    <2> QED
      BY <2>1, <2>2 DEF IndexSound
  <1> QED
    BY <1>1, FilesInvariant, PTL

(* current.db is only ever replaced by a newer record.                     *)
THEOREM CurrentIsReplaced == Spec => CurrentMovesOn
  <1>1. ASSUME FileInv, [Next]_vars
        PROVE  [current' # current => current' > current]_vars
    <2>1. CASE localdb_done_current
      BY <1>1, <2>1 DEF localdb_done_current, FileInv, SaveInv, Types
    <2>2. localdb_done_current \/ current' = current
      BY <1>1 DEF Next, Writer, Reader, OpenCurrent, GiveUp, OpenDbFile,
         LockFiles, WriteRecord, Unlock, CloseDb, CloseIdx, CloseCurrent,
         LockDb, GetRecord, OpenDb, Crash, Tick, DeleteIdx, DeleteDb, vars,
         files
    <2> QED
      BY <2>1, <2>2
  <1> QED
    BY <1>1, FilesInvariant, PTL DEF Spec, CurrentMovesOn

(* localdb_get_record reads the whole record that was saved last up to the *)
(* time asked for, wherever the guess of localdb_find_index leads.         *)
THEOREM WantedIsRead == Spec => []ReadsWanted
  <1>1. Init => ReadsWanted
    BY DEF Init, ReadsWanted, Nothing
  <1>2. ASSUME FileInv, ReadsWanted, [Next]_vars
        PROVE  ReadsWanted'
    <2>1. CASE GetRecord
      <3> DEFINE d == time2date(ts)
                 ix == idx[d]
                 pos == localdb_find_index(ix, ts)
      <3>1. d \in Days /\ ts \in Nat
        <4>1. ts \in 0 .. EndTime
          BY <1>2, LocalDBAssumption DEF FileInv, Types
        <4> QED
          BY <4>1, DayIsThere
      <3>2. ix \in Seq(Entries) /\ InOrder(ix) /\ Leads(ix, db[d])
        BY <1>2, <3>1, FilesOfDay DEF FileInv, TimeInv
      <3>3. \/ /\ pos # None
               /\ got' = [found |-> db[d][pos], wanted |-> Wanted(ix, ts),
                          count |-> Len(ix)]
            \/ got' = Nothing
        BY <2>1 DEF GetRecord
      <3>4. CASE got' = Nothing
        BY <3>4 DEF ReadsWanted, Nothing
      <3>5. CASE /\ pos # None
                 /\ got' = [found |-> db[d][pos], wanted |-> Wanted(ix, ts),
                            count |-> Len(ix)]
        <4>1. SUFFICES ASSUME Len(ix) > 1
                       PROVE  db[d][pos] = Whole(Wanted(ix, ts))
          BY <3>5 DEF ReadsWanted
        <4>2. PICK k \in 1 .. Len(ix) : pos = ix[k].pos /\ LastUpTo(ix, ts, k)
          BY <3>1, <3>2, <3>5, <4>1, FindIndexIsRight
        <4>3. Wanted(ix, ts) = ix[k].when
          BY <3>1, <3>2, <4>2, WantedIsLast
        <4> QED
          BY <3>2, <4>2, <4>3 DEF Leads
      <3> QED
        BY <3>3, <3>4, <3>5
    <2>2. GetRecord \/ got' = got
      BY <1>2 DEF Next, Writer, Reader, OpenCurrent, GiveUp, OpenDbFile,
         LockFiles, WriteRecord, Unlock, CloseDb, CloseIdx, CloseCurrent,
         localdb_done_current, LockDb, OpenDb, Crash, Tick, DeleteIdx,
         DeleteDb, vars, reader
    <2> QED
      BY <1>2, <2>1, <2>2 DEF ReadsWanted
  <1> QED
    BY <1>1, <1>2, FilesInvariant, PTL DEF Spec

(* Type correctness; a day's file is locked while it is written.           *)
THEOREM FileTypes == Spec => []TypeOK
  <1>1. FileInv => TypeOK
    <2> SUFFICES ASSUME FileInv
                 PROVE  TypeOK
      OBVIOUS
    <2>1. ASSUME NEW d \in Days
          PROVE  /\ \A k \in DOMAIN db[d] :
                      db[d][k] \in [when : 0 .. now, whole : BOOLEAN]
                 /\ \A k \in DOMAIN idx[d] :
                      idx[d][k] \in [when : 0 .. now, pos : Nat]
      <3>1. /\ DOMAIN idx[d] = 1 .. Len(idx[d])
            /\ DOMAIN db[d] = 1 .. Len(db[d])
            /\ db[d] \in Seq(Pieces) /\ idx[d] \in Seq(Entries)
        BY FilesOfDay, LenProperties DEF FileInv
      <3>2. /\ UpTo(db[d], when) /\ UpTo(idx[d], when)
            /\ when \in Int /\ now \in Nat /\ when <= now
        BY LocalDBAssumption DEF FileInv, TimeInv, Types, None
      <3>3. ASSUME NEW k \in DOMAIN db[d]
            PROVE  db[d][k] \in [when : 0 .. now, whole : BOOLEAN]
        <4>1. db[d][k] \in Pieces /\ db[d][k].when <= when
          BY <3>1, <3>2, ElementOfSeq DEF UpTo
        <4>2. db[d][k].when \in 0 .. now
          BY <3>2, <4>1 DEF Pieces
        <4> QED
          BY <4>1, <4>2 DEF Pieces
      <3>4. ASSUME NEW k \in DOMAIN idx[d]
            PROVE  idx[d][k] \in [when : 0 .. now, pos : Nat]
        <4>1. idx[d][k] \in Entries /\ idx[d][k].when <= when
          BY <3>1, <3>2, ElementOfSeq DEF UpTo
        <4>2. idx[d][k].when \in 0 .. now
          BY <3>2, <4>1 DEF Entries
        <4> QED
          BY <4>1, <4>2 DEF Entries
      <3> QED
        BY <3>3, <3>4
    <2> QED
      BY <2>1, LocalDBAssumption DEF TypeOK, FileInv, Types, None
  <1> QED
    BY <1>1, FilesInvariant, PTL
=============================================================================
