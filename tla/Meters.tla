------------------------------- MODULE Meters -------------------------------
(***************************************************************************)
(* The meters of a host in memory and the forms they travel in: what a     *)
(* probe reports (libopticon/host_import.c), the record of a packet and of *)
(* a database entry (codec_pkt.c), the JSON that opticon-api sends         *)
(* (codec_json.c), and the list of meters between them (host.c, meter.c).  *)
(*                                                                         *)
(* A name is <<"pcpu">> or, with a path, <<"who", "tty">>.  A report is a  *)
(* sequence of fields [id, kind, v] in which a scalar is a pair of its     *)
(* type and its value.  Times are in minutes and relative: a meter's lag   *)
(* is how long before the host's last update it was last written.          *)
(***************************************************************************)
EXTENDS Integers, Sequences, FiniteSets, SequencesExt

CONSTANTS
    MaxArray,       \* SZ_MAX_ARRAY, 29
    MaxMeters,      \* default_host_max_meters, 256
    MeterTimeout,   \* default_meter_timeout, 10 minutes
    TooLong,        \* names that do not fit in a meterid
    NoData,         \* a meter without a data block
    Outside         \* what is read beyond a data block

ASSUME MetersAssumption ==
    MaxArray \in Nat \ {0} /\ MaxMeters \in Nat /\ MeterTimeout \in Nat

EmptyVal == MaxArray + 1      \* SZ_EMPTY_VAL
EmptyArray == MaxArray + 2    \* SZ_EMPTY_ARRAY
Never == MeterTimeout + 1     \* any lag beyond the timeout
NoIndex == 0

Least(a, b) == IF a < b THEN a ELSE b
Later(lag, minutes) == Least(lag + minutes, Never)
Cells(count) == IF count = 0 THEN 1 ELSE count
HasPath(name) == Len(name) = 2
Zero(type) == IF type = "STR" THEN "" ELSE 0

(* How many bytes a value takes: numbers are 8, an fstring is 128. *)
Cell(type) == IF type = "STR" THEN "fstring" ELSE "number"

-----------------------------------------------------------------------------
(* meter.c *)

meter_alloc(name, type) ==
    [name |-> name, type |-> type, count |-> EmptyVal,
     d |-> NoData, cell |-> Cell(type), lag |-> Never]

(* Mutant: a block that is there is used again, whatever its size. *)
SetcountReuses(m, count) ==
    IF count >= EmptyVal
    THEN [m EXCEPT !.count = count, !.d = NoData, !.lag = 0]
    ELSE [m EXCEPT
            !.count = count, !.lag = 0, !.cell = Cell(m.type),
            !.d = IF m.d # NoData THEN m.d
                  ELSE [i \in 1 .. Cells(count) |-> Zero(m.type)]]

meter_setcount(m, count) ==
    IF count >= EmptyVal
    THEN [m EXCEPT !.count = count, !.d = NoData, !.lag = 0]
    ELSE [m EXCEPT
            !.count = count, !.lag = 0, !.cell = Cell(m.type),
            !.d = [i \in 1 .. Cells(count) |-> Zero(m.type)]]

(* meter_set_uint, _frac and _str: nothing happens to a meter of another   *)
(* type or beyond its count.                                               *)
meter_set(m, type, i, val) ==
    IF m.count < EmptyVal /\ m.type = type /\ i <= Cells(m.count)
    THEN [m EXCEPT !.d[i] = val, !.lag = 0]
    ELSE m

(* meter_get_uint, _frac and _str *)
meter_get(m, type, i) ==
    IF m.count < EmptyVal /\ m.type = type /\ i <= Cells(m.count)
    THEN m.d[i] ELSE Zero(type)

meter_set_all(m, type, vals) ==
    FoldLeft(LAMBDA n, i : meter_set(n, type, i, vals[i]),
             m, [i \in DOMAIN vals |-> i])

-----------------------------------------------------------------------------
(* host.c *)

host_alloc == [meters |-> <<>>, mcount |-> 0]

host_find_meter_name(h, name) ==
    SelectInSeq(h.meters, LAMBDA m : m.name = name)

host_find_meter(h, name, type) ==
    SelectInSeq(h.meters, LAMBDA m : m.name = name /\ m.type = type)

(* The meter itself, or one of its name that is an empty array. *)
Gettable(h, name, type) ==
    SelectInSeq(h.meters, LAMBDA m :
        m.name = name /\ (m.type = type \/ m.count = EmptyArray))

host_get_meter(h, name, type) ==
    IF Gettable(h, name, type) # NoIndex THEN h
    ELSE [h EXCEPT !.meters = Append(@, meter_alloc(name, type)),
                   !.mcount = @ + 1]

(* host_get_meter, meter_setcount and the setters. *)
SetMeter(h, name, type, count, vals) ==
    LET g == host_get_meter(h, name, type)
        i == Gettable(g, name, type)
    IN  [g EXCEPT !.meters[i] =
            meter_set_all(meter_setcount(@, count), type, vals)]

(* All that host_find_prefix finds one after the other: the walk starts    *)
(* behind the first meter.                                                 *)
host_find_prefix(h, prefix) ==
    {i \in 2 .. Len(h.meters) :
        HasPath(h.meters[i].name) /\ h.meters[i].name[1] = prefix}

(* The removed meter is never linked into the trash, which is empty.       *)
DeleteMeters(h, gone) ==
    LET kept == SelectSeq(h.meters, LAMBDA m : m \notin gone)
    IN  [meters |-> kept,
         mcount |-> h.mcount - (Len(h.meters) - Len(kept))]

host_begin_update(h, minutes) ==
    [h EXCEPT !.meters =
        [i \in DOMAIN @ |-> [@[i] EXCEPT !.lag = Later(@, minutes)]]]

StatusOf(h) ==
    LET i == host_find_meter(h, <<"status">>, "STR")
    IN  IF i = NoIndex THEN "" ELSE meter_get(h.meters[i], "STR", 1)

TimedOut(h) == {m \in Range(h.meters) : m.lag > MeterTimeout}

host_end_update(h) ==
    IF StatusOf(h) = "STALE"
    THEN [h EXCEPT !.meters =
            [i \in DOMAIN @ |-> [@[i] EXCEPT !.lag = 0]]]
    ELSE DeleteMeters(h, TimedOut(h))

-----------------------------------------------------------------------------
(* host_import.c: what the meters of a field are, as [name, type, count,   *)
(* vals].  A list is cut off at MaxArray, the type of a list is that of    *)
(* its first element, and a value of another type reads as zero.           *)

Entry(name, type, count, vals) ==
    [name |-> name, type |-> type, count |-> count, vals |-> vals]
As(type, x) == IF x[1] = type THEN x[2] ELSE Zero(type)
Size(list) == Least(Len(list), MaxArray)

dictarray_to_host(prefix, list) ==
    [k \in DOMAIN list[1].keys |->
        LET leaf == list[1].keys[k]
            type == list[1].val[leaf][1]
        IN  Entry(<<prefix, leaf>>, type, Size(list),
                  [i \in 1 .. Size(list) |->
                      IF leaf \in DOMAIN list[i].val
                      THEN As(type, list[i].val[leaf]) ELSE Zero(type)])]

FieldMeters(f) ==
    CASE f.kind = "value" ->
           <<Entry(<<f.id>>, f.v[1], 0, <<f.v[2]>>)>>
      [] f.kind = "empty" -> <<Entry(<<f.id>>, "INT", EmptyArray, <<>>)>>
      [] f.kind = "array" ->
           <<Entry(<<f.id>>, f.v[1][1], Size(f.v),
                   [i \in 1 .. Size(f.v) |-> As(f.v[1][1], f.v[i])])>>
      [] f.kind = "dict" ->
           [k \in DOMAIN f.v.keys |->
              LET x == f.v.val[f.v.keys[k]]
              IN  Entry(<<f.id, f.v.keys[k]>>, x[1], 0, <<x[2]>>)]
      [] f.kind = "dictarray" -> dictarray_to_host(f.id, f.v)

(* The import stops at the first label that is too long. *)
Importable(report) ==
    LET bad == SelectInSeq(report, LAMBDA f : f.id \in TooLong)
    IN  IF bad = NoIndex THEN report ELSE SubSeq(report, 1, bad - 1)

host_import(h, report) ==
    LET fields == Importable(report)
        entries ==
            FlattenSeq([i \in DOMAIN fields |-> FieldMeters(fields[i])])
    IN  FoldLeft(LAMBDA g, e : SetMeter(g, e.name, e.type, e.count, e.vals),
                 h, entries)

-----------------------------------------------------------------------------
(* codec_pkt.c *)

pktcodec_encode_host(h) ==
    [i \in DOMAIN h.meters |->
        LET m == h.meters[i]
        IN  Entry(m.name, m.type, m.count,
                  IF m.count < EmptyVal THEN m.d ELSE <<>>)]

(* meter_setcount goes by the type the meter had; then the packet's type   *)
(* is taken over and the values are written.                               *)
Fill(m, e) ==
    meter_set_all([meter_setcount(m, e.count) EXCEPT !.type = e.type],
                  e.type, e.vals)

(* Mutant: what has children is not given up for them. *)
DecodeBeside(h, e) ==
    LET i == host_find_meter_name(h, e.name)
        g == IF i = NoIndex /\ h.mcount <= MaxMeters
             THEN host_get_meter(h, e.name, e.type) ELSE h
        j == host_find_meter_name(g, e.name)
    IN  IF j = NoIndex THEN g
        ELSE [g EXCEPT !.meters[j] = Fill(@, e)]

(* An empty array empties the meters under its name, if there are any.     *)
(* Otherwise a meter with the name of the entry's path gives way (looked   *)
(* for once for entries of one path in a row), and the entry is written    *)
(* over the meter of its name or, unless the host has too many, becomes a  *)
(* new one.                                                                *)
DecodeEntry(h, e) ==
    LET children == host_find_prefix(h, e.name[1])
    IN  IF e.count = EmptyArray /\ ~HasPath(e.name) /\ children # {}
        THEN [h EXCEPT !.meters =
                [i \in DOMAIN @ |-> IF i \in children
                    THEN meter_setcount(@[i], EmptyArray) ELSE @[i]]]
        ELSE LET f == IF HasPath(e.name)
                      THEN DeleteMeters(h, {m \in Range(h.meters) :
                             m.name = <<e.name[1]>>})
                      ELSE h
                 i == host_find_meter_name(f, e.name)
                 g == IF i = NoIndex /\ f.mcount <= MaxMeters
                      THEN host_get_meter(f, e.name, e.type) ELSE f
                 j == host_find_meter_name(g, e.name)
             IN  IF j = NoIndex THEN g
                 ELSE [g EXCEPT !.meters[j] = Fill(@, e)]

pktcodec_decode_host(packet, h) == FoldLeft(DecodeEntry, h, packet)

-----------------------------------------------------------------------------
(* codec_json.c *)

(* A sibling with fewer elements is read one beyond its end, then left     *)
(* out, which is no JSON any more.                                         *)
jsoncodec_dump_val(m, i) ==
    IF m.count = EmptyArray THEN <<"null", 0>>
    ELSE IF m.count = EmptyVal THEN <<m.type, Zero(m.type)>>
    ELSE IF i > Len(m.d) THEN <<"null", Outside>> ELSE <<m.type, m.d[i]>>

(* meter_next_sibling: the meters of a path, from m on. *)
Siblings(h, prefix) ==
    SelectSeq(h.meters, LAMBDA m : HasPath(m.name) /\ m.name[1] = prefix)

jsoncodec_dump_pathval(group, i) ==
    [leaf \in {m.name[2] : m \in Range(group)} |->
        jsoncodec_dump_val(
            group[SelectInSeq(group, LAMBDA m : m.name[2] = leaf)], i)]

JsonOf(kind, v) == [kind |-> kind, v |-> v]

(* What the document has under id: a value or a group with that path. *)
jsoncodec_encode_host(h, id) ==
    LET n == SelectInSeq(h.meters, LAMBDA m : m.name[1] = id)
        m == h.meters[n]
        group == Siblings(h, id)
        Val(i) == IF HasPath(m.name) THEN jsoncodec_dump_pathval(group, i)
                  ELSE jsoncodec_dump_val(m, i)
    IN  IF n = NoIndex THEN JsonOf("absent", 0)
        ELSE IF m.count = EmptyVal THEN JsonOf("null", 0)
        ELSE IF m.count = EmptyArray THEN JsonOf("empty", 0)
        ELSE IF m.count = 0
        THEN JsonOf(IF HasPath(m.name) THEN "dict" ELSE "value", Val(1))
        ELSE JsonOf(IF HasPath(m.name) THEN "dictarray" ELSE "array",
                    [i \in 1 .. m.count |-> Val(i)])

(* What a field of a report looks like in such a document. *)
Reported(f) ==
    CASE f.kind = "value" -> JsonOf("value", f.v)
      [] f.kind = "empty" -> JsonOf("empty", 0)
      [] f.kind = "array" -> JsonOf("array", SubSeq(f.v, 1, Size(f.v)))
      [] f.kind = "dict" -> JsonOf("dict", f.v.val)
      [] f.kind = "dictarray" ->
           JsonOf("dictarray", [i \in 1 .. Size(f.v) |-> f.v[i].val])
=============================================================================
