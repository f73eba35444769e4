------------------------------- MODULE IOPort ------------------------------
(***************************************************************************)
(* The port that packets are written to and read from (ioport.c over       *)
(* ioport_buffer.c): raw big-endian numbers, integers in groups of seven   *)
(* bits, fractions in two bytes and strings of six bits a character.  A    *)
(* byte and an integer are the set of their bits that are one, a fraction  *)
(* a number of 65280ths, and a string the sequence of its characters.      *)
(***************************************************************************)
EXTENDS Integers, Sequences
LOCAL INSTANCE SequencesExt
LOCAL INSTANCE FiniteSetsExt

CONSTANTS
    PortSize,       \* bytes of the buffer
    IOItems,        \* what is written: <<type, value>>
    MaxIOItems      \* bound: values in a packet

VARIABLES
    port,           \* the port: the writer's, and then the reader's
    wrote,          \* ghost: the values that were written
    taken,          \* the values that were read
    reading

ioVars == <<port, wrote, taken, reading>>

------------------------------------------------------------------------------
(* Bits. *)
BitsOf(n) == {b \in 0 .. 7 : (n \div 2^b) % 2 = 1}
NumberOf(S) == FoldSet(LAMBDA b, sum : sum + 2^b, 0, S)
ShiftLeft(S, k) == {b + k : b \in S}
ShiftRight(S, k) == {b - k : b \in {c \in S : c >= k}}
BITMASKS(k) == 0 .. k - 1

------------------------------------------------------------------------------
(* Writing.  ok is what the calls have returned so far. *)

ioport_create_buffer ==
    [buf |-> <<>>, rpos |-> 0, bitpos |-> 0, bitbuffer |-> {}, ok |-> TRUE]

buffer_write(p, bytes) ==
    IF p.ok /\ Len(p.buf) + Len(bytes) <= PortSize
    THEN [p EXCEPT !.buf = @ \o bytes] ELSE [p EXCEPT !.ok = FALSE]

(* Mutant: the bits that were flushed stay in the bit buffer. *)
FlushKeepsBits(p) ==
    IF p.bitpos = 0 THEN p
    ELSE [buffer_write(p, <<p.bitbuffer>>) EXCEPT !.bitpos = 0]

ioport_flush_bits(p) ==
    IF p.bitpos = 0 THEN p
    ELSE [buffer_write(p, <<p.bitbuffer>>) EXCEPT
                !.bitpos = 0, !.bitbuffer = {}]

ioport_write(p, bytes) == buffer_write(ioport_flush_bits(p), bytes)

(* Bits fill a byte from the top; what does not fit begins the next one. *)
ioport_write_bits(p, d, bits) ==
    LET bits1 == IF p.bitpos + bits < 8 THEN bits ELSE 8 - p.bitpos
        bits2 == bits - bits1
        data1 == ShiftLeft(ShiftRight(d, bits2) \cap BITMASKS(bits1),
                           8 - p.bitpos - bits1)
        data2 == d \cap BITMASKS(bits2)
        p1 == [p EXCEPT !.bitbuffer = @ \cup data1, !.bitpos = @ + bits1]
    IN  IF p1.bitpos <= 7 THEN p1
        ELSE [buffer_write(p1, <<p1.bitbuffer>>) EXCEPT
                  !.bitpos = bits2, !.bitbuffer = ShiftLeft(data2, 8 - bits2)]

RawBytes(n, size) ==
    [k \in 1 .. size |->
        ShiftRight(n, 8 * (size - k)) \cap BITMASKS(8)]

(* The seven bits from bitpos on.  The mask 0x7f << bitpos is an int: at   *)
(* 28 the shift reaches its sign, which is extended over the wider value,  *)
(* and from 35 on the machine shifts by bitpos % 32, which leaves nothing  *)
(* of the value's lower bits once it is shifted back.                      *)
Group(n, bitpos) ==
    IF bitpos > 28 THEN {}
    ELSE ShiftRight(n, bitpos) \cap BITMASKS(IF bitpos = 28 THEN 8 ELSE 7)

(* From the first group that is not zero on; a value without one but zero  *)
(* itself gets no byte at all.                                             *)
ioport_write_encint(p, n) ==
    LET groups == {g \in 0 .. 8 : Group(n, 7 * g) # {}}
        first == Max(groups)
        byte(g) == Group(n, 7 * g) \cup (IF g > 0 THEN {7} ELSE {})
    IN  IF n = {} THEN ioport_write(p, <<{}>>)
        ELSE IF groups = {} THEN p
        ELSE ioport_write(p, [k \in 1 .. first + 1 |-> byte(first + 1 - k)])

(* Up to 192 the whole and 255ths, above that halved until it is a byte. *)
FracUnit == 65280
ioport_write_encfrac(p, d) ==
    LET fr == ((d % FracUnit) * 255) \div FracUnit
        halved(i) == d \div (FracUnit * 2^(i + 1))
        times == CHOOSE i \in 0 .. 13 : /\ halved(i) <= 255
                                        /\ i > 0 => halved(i - 1) > 255
    IN  IF d < 192 * FracUnit
        THEN ioport_write(p, <<BitsOf(d \div FracUnit), BitsOf(fr)>>)
        ELSE ioport_write(p, <<BitsOf(192 + times), BitsOf(halved(times))>>)

(* The characters that have a code of six bits, by the code. *)
ENCSET ==
    [i \in 0 .. 63 |->
        CASE i <= 25 -> 97 + i                      \* a-z
          [] i \in 26 .. 30 -> <<35, 47, 45, 95, 32>>[i - 25]
          [] i \in 31 .. 40 -> 48 + (i - 31)        \* 0-9
          [] i \in 41 .. 48 -> 65 + (i - 41)        \* A-H
          [] i \in 49 .. 53 -> 74 + (i - 49)        \* J-N
          [] i \in 54 .. 55 -> 80 + (i - 54)        \* P, Q
          [] i \in 56 .. 61 -> 83 + (i - 56)        \* S-X
          [] OTHER -> IF i = 62 THEN 90 ELSE 46]
(* The code of a character, 255 if it has none. *)
DECSET(c) ==
    CASE c \in 97 .. 122 -> c - 97
      [] c \in 48 .. 57 -> c - 17
      [] c \in 65 .. 72 -> c - 24
      [] c \in 74 .. 78 -> c - 25
      [] c \in 80 .. 81 -> c - 26
      [] c \in 83 .. 88 -> c - 27
      [] c = 90 -> 62 [] c = 35 -> 26 [] c = 47 -> 27 [] c = 45 -> 28
      [] c = 95 -> 29 [] c = 32 -> 30 [] c = 46 -> 63
      [] OTHER -> 255

ioport_write_encstring(p, str) ==
    LET len == BitsOf(Len(str))
    IN  IF \E i \in DOMAIN str : DECSET(str[i]) = 255
        THEN ioport_write(ioport_write(p, <<len>>),
                          [i \in DOMAIN str |-> BitsOf(str[i])])
        ELSE ioport_flush_bits(
                FoldLeft(LAMBDA q, c :
                            ioport_write_bits(q, BitsOf(DECSET(c)), 6),
                         ioport_write(p, <<len \cup {7}>>), str))

------------------------------------------------------------------------------
(* Reading: the port and the value; a read past the end gets zeros. *)

ioport_read(p, size) ==
    LET q == [p EXCEPT !.bitpos = 0, !.bitbuffer = {}]
    IN  IF p.rpos + size > Len(p.buf)
        THEN <<q, [k \in 1 .. size |-> {}]>>
        ELSE <<[q EXCEPT !.rpos = @ + size],
               SubSeq(p.buf, p.rpos + 1, p.rpos + size)>>

ReadRaw(p, size) ==
    LET r == ioport_read(p, size)
    IN  <<r[1], UNION {ShiftLeft(r[2][k], 8 * (size - k)) : k \in 1 .. size}>>

ioport_read_bits(p, numbits) ==
    LET first == ReadRaw(p, 1)
        q == IF p.bitpos > 0 THEN p
             ELSE [first[1] EXCEPT !.bitbuffer = first[2]]
        bits1 == IF numbits + q.bitpos > 8 THEN 8 - q.bitpos ELSE numbits
        shift == 8 - q.bitpos - bits1
        bits2 == numbits - bits1
        res == ShiftLeft(ShiftRight(q.bitbuffer, shift) \cap BITMASKS(bits1),
                         bits2)
        next == ReadRaw(q, 1)
    IN  IF bits2 = 0 THEN <<[q EXCEPT !.bitpos = @ + bits1], res>>
        ELSE <<[next[1] EXCEPT !.bitbuffer = next[2], !.bitpos = bits2],
               res \cup ShiftRight(next[2], 8 - bits2)>>

RECURSIVE ReadGroups(_, _)
ReadGroups(p, res) ==
    LET d == ReadRaw(p, 1)
        sum == (ShiftLeft(res, 7) \cap BITMASKS(64)) \cup (d[2] \ {7})
    IN  IF 7 \in d[2] THEN ReadGroups(d[1], sum) ELSE <<d[1], sum>>
ioport_read_encint(p) == ReadGroups(p, {})

ioport_read_encfrac(p) ==
    LET r1 == ReadRaw(p, 1)
        r2 == ReadRaw(r1[1], 1)
        intpart == NumberOf(r1[2])
        second == NumberOf(r2[2])
    IN  <<r2[1], IF intpart < 192 THEN intpart * FracUnit + second * 255
                 ELSE second * FracUnit * 2^(intpart - 191)>>

ioport_read_encstring(p) ==
    LET sz == ReadRaw(p, 1)
        len == NumberOf(sz[2] \ {7})
        raw == ioport_read(sz[1], len)
        Decode(r, i) ==
            LET c == ioport_read_bits(r[1], 6)
            IN  <<c[1], Append(r[2], ENCSET[NumberOf(c[2])])>>
    IN  IF 7 \notin sz[2]
        THEN <<raw[1], [i \in 1 .. len |-> NumberOf(raw[2][i])]>>
        ELSE FoldLeft(Decode, <<sz[1], <<>>>>, [i \in 1 .. len |-> i])

------------------------------------------------------------------------------
(* A packet: values are written, and read in the same order. *)

(* What an encoding can hold: ioport_write_encint, for 63 bits by its       *)
(* comment, holds 35.                                                       *)
Fits(x) == x[1] = "int" => x[2] \subseteq BITMASKS(35)

RawSize == [u32 |-> 4, u64 |-> 8, uuid |-> 16]

Written(p, x) ==
    CASE x[1] = "int" -> ioport_write_encint(p, x[2])
      [] x[1] = "frac" -> ioport_write_encfrac(p, x[2])
      [] x[1] = "str" -> ioport_write_encstring(p, x[2])
      [] OTHER -> ioport_write(p, RawBytes(x[2], RawSize[x[1]]))

ReadAs(p, type) ==
    CASE type = "int" -> ioport_read_encint(p)
      [] type = "frac" -> ioport_read_encfrac(p)
      [] type = "str" -> ioport_read_encstring(p)
      [] OTHER -> ReadRaw(p, RawSize[type])

WriteItem(x) ==
    /\ ~reading /\ port.ok /\ Len(wrote) < MaxIOItems
    /\ port' = Written(port, x)
    /\ wrote' = Append(wrote, x)
    /\ UNCHANGED <<taken, reading>>

(* A packet that did not fit is given up. *)
Send ==
    /\ ~reading /\ port.ok
    /\ reading' = TRUE
    /\ port' = [ioport_create_buffer EXCEPT !.buf = port.buf]
    /\ UNCHANGED <<wrote, taken>>

(* Bound: what a reader makes of the rest of a packet behind an integer     *)
(* that was too wide is not followed.                                       *)
ReadItem ==
    /\ reading /\ Len(taken) < Len(wrote)
    /\ \A j \in DOMAIN taken : Fits(wrote[j])
    /\ LET r == ReadAs(port, wrote[Len(taken) + 1][1])
       IN  port' = r[1] /\ taken' = Append(taken, r[2])
    /\ UNCHANGED <<wrote, reading>>

IOInit ==
    /\ port = ioport_create_buffer
    /\ wrote = <<>> /\ taken = <<>> /\ reading = FALSE

IONext == (\E x \in IOItems : WriteItem(x)) \/ Send \/ ReadItem

------------------------------------------------------------------------------
(* A fraction comes back at most two 256ths, and from 192 on a 96th, less. *)
Agrees(x, v) ==
    IF x[1] # "frac" THEN v = x[2]
    ELSE /\ v <= x[2]
         /\ x[2] - v < IF x[2] < 192 * FracUnit THEN 2 * 255
                       ELSE x[2] \div 96 + 1

(* A packet that was sent is read as it was written, whatever stands       *)
(* before a value: its end is found though no value but a raw one says how *)
(* long it is, the bits of a string that are left over in its last byte    *)
(* are nobody's, and zero, the full width and the largest character make   *)
(* no difference.  It ends with the first integer that is too wide.        *)
ReadsWhatWasWritten ==
    \A k \in DOMAIN taken : Fits(wrote[k]) => Agrees(wrote[k], taken[k])
=============================================================================
