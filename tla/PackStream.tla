---------------------------- MODULE PackStream ----------------------------
(***************************************************************************)
(* PackStream (libdevcore/stream.h): a byte vector written at the back by  *)
(* operator<< and read from the front by operator>>.  Two encodings are   *)
(* modelled:                                                               *)
(*   "varint": the StreamIntType overloads (a prefix byte 0xfd, 0xfe or   *)
(*             0xff followed by a little-endian uint16/32/64, or a single *)
(*             byte below 0xfd);                                           *)
(*   "raw":    the generic template overloads, which copy sizeof(T) bytes *)
(*             of the object representation.                              *)
(* An integer of C++ type T is kept as its object representation: a       *)
(* sequence of T.size bytes, little-endian, two's complement when         *)
(* T.signed.  All comparisons of the code are made on these bytes, so the *)
(* 64-bit widths are exact although TLC's integers are 32-bit.            *)
(*                                                                         *)
(* The model is a writer and a reader sharing one stream: the writer       *)
(* appends items, the reader takes items in the same order and with the   *)
(* same types, as the write/read pairs of transaction.h do.               *)
(***************************************************************************)
EXTENDS Integers, Sequences, SequencesExt

CONSTANTS
    Types,       \* C++ integer types used: records [size |-> 1|2|4|8, signed |-> BOOLEAN]
    Kinds,       \* subset of {"varint", "raw"}: which overloads are used
    ValuesOf(_), \* ValuesOf(T): the values of type T that are written (byte sequences)
    MaxItems     \* bound on the number of items in flight in the stream

Byte == 0..255
\* A decode that reads past the end of the vector.
Undefined == [ok |-> FALSE]
\* The invalid_argument exception of a varint write; no encoding is empty.
Throw == <<>>

\* Little-endian bytes of a non-negative integer n, in w bytes.
RECURSIVE LE(_, _)
LE(n, w) == IF w = 0 THEN <<>> ELSE <<n % 256>> \o LE(n \div 256, w - 1)

\* The first w bytes of bs, zero-extended: the conversion of an unsigned
\* value held in bs to a type of w bytes (truncation or zero extension).
Fit(bs, w) == [i \in 1..w |-> IF i <= Len(bs) THEN bs[i] ELSE 0]

\* The bytes of v taken as a 64-bit value (v is non-negative when used).
Wide(v) == Fit(v, 8)

\* val < 2^(8k) - 1 for a non-negative v: no byte above the k-th is set and
\* the low k bytes are not all 0xff.
BelowOnes(v, k) ==
    LET p == Wide(v) IN
    /\ \A i \in (k+1)..8 : p[i] = 0
    /\ \E i \in 1..k : p[i] # 255

IsNegative(T, v) == T.signed /\ v[T.size] >= 128

(***************************************************************************)
(* operator<<(StreamIntType T &val), stream.h:168-191.  A negative value  *)
(* compares below 0xfd and is written as (unsigned char)val, its low byte. *)
(***************************************************************************)
encode_varint(T, v) ==
    LET p == Wide(v) IN
    CASE IsNegative(T, v)                                   -> <<v[1]>>
      [] (\A i \in 2..8 : p[i] = 0) /\ p[1] < 253           -> <<p[1]>>
      [] BelowOnes(v, 2)                                    -> <<253>> \o Fit(p, 2)
      [] BelowOnes(v, 4)                                    -> <<254>> \o Fit(p, 4)
      [] BelowOnes(v, 8)                                    -> <<255>> \o p
      [] OTHER                                              -> Throw

\* operator<<(T &val), stream.h:133-141: sizeof(T) bytes of the object.
encode_raw(T, v) == v

encode(kind, T, v) ==
    IF kind = "varint" THEN encode_varint(T, v) ELSE encode_raw(T, v)

\* The payload width the reader expects after a prefix byte code >= 0xfd.
prefix_width_short(code) == CASE code = 253 -> 2 [] code = 254 -> 2 [] OTHER -> 8

prefix_width(code) == CASE code = 253 -> 2 [] code = 254 -> 4 [] OTHER -> 8

\* GET_INT without the conversion of num_type to T.
decode_varint_unconverted(T, d) ==
    IF d = <<>> THEN Undefined
    ELSE LET code == Head(d)
             rest == Tail(d)
         IN  IF code < 253 THEN [ok |-> TRUE, val |-> Fit(<<code>>, T.size), rest |-> rest]
             ELSE LET n == prefix_width(code) IN
                  IF Len(rest) < n THEN Undefined
                  ELSE [ok   |-> TRUE,
                        val  |-> SubSeq(rest, 1, n),
                        rest |-> SubSeq(rest, n + 1, Len(rest))]

(***************************************************************************)
(* operator>>(StreamIntType T &val), stream.h:223-260: front() and erase   *)
(* of the prefix byte, then GET_INT(num_type) copies sizeof(num_type)     *)
(* bytes, converts them to T and erases them.  front() of an empty vector *)
(* and data[i] past its end are undefined.  The result is [val, rest].    *)
(***************************************************************************)
decode_varint(T, d) ==
    IF d = <<>> THEN Undefined
    ELSE LET code == Head(d)
             rest == Tail(d)
         IN  IF code < 253 THEN [ok |-> TRUE, val |-> Fit(<<code>>, T.size), rest |-> rest]
             ELSE LET n == prefix_width(code) IN
                  IF Len(rest) < n THEN Undefined
                  ELSE [ok   |-> TRUE,
                        val  |-> Fit(SubSeq(rest, 1, n), T.size),
                        rest |-> SubSeq(rest, n + 1, Len(rest))]

(***************************************************************************)
(* operator>>(T &val), stream.h:202-214: packed[i] = data[i] and then one  *)
(* erase of the front byte, for i in 0..sizeof(T)-1.  After i erasures     *)
(* data[i] is byte 2i of the original stream, so the loop reads the bytes  *)
(* 0, 2, 4, ... and consumes sizeof(T); it reads past the end unless the   *)
(* stream holds at least 2*sizeof(T)-1 bytes.                             *)
(***************************************************************************)
decode_raw(T, d) ==
    IF Len(d) < 2 * T.size - 1 THEN Undefined
    ELSE [ok   |-> TRUE,
          val  |-> [i \in 1..T.size |-> d[2 * i - 1]],
          rest |-> SubSeq(d, T.size + 1, Len(d))]

decode(kind, T, d) ==
    IF kind = "varint" THEN decode_varint(T, d) ELSE decode_raw(T, d)

Item == [kind : Kinds, type : Types, value : Seq(Byte)]

VARIABLES
    data,     \* PackStream::data
    pending,  \* the items written and not yet read, in order
    last,     \* the outcome of the latest operation
    ub        \* an operation had undefined behaviour

vars == <<data, pending, last, ub>>

None == [op |-> "none", outcome |-> "ok"]

Init ==
    /\ data = <<>>
    /\ pending = <<>>
    /\ last = None
    /\ ub = FALSE

\* stream << val.  A throw leaves the stream unchanged.
write(kind, T, v) ==
    /\ ~ub
    /\ Len(pending) < MaxItems
    /\ LET e == encode(kind, T, v)
           it == [kind |-> kind, type |-> T, value |-> v]
       IN  IF e = Throw
           THEN /\ last' = [op |-> "write", item |-> it, outcome |-> "throw", val |-> <<>>]
                /\ UNCHANGED <<data, pending, ub>>
           ELSE /\ data' = data \o e
                /\ pending' = Append(pending, it)
                /\ last' = [op |-> "write", item |-> it, outcome |-> "ok", val |-> <<>>]
                /\ UNCHANGED ub

\* stream >> val, with val of the type of the oldest unread item.
read ==
    /\ ~ub
    /\ pending # <<>>
    /\ LET it == Head(pending)
           r  == decode(it.kind, it.type, data)
       IN  IF ~r.ok
           THEN /\ ub' = TRUE
                /\ last' = [op |-> "read", item |-> it, outcome |-> "undefined", val |-> <<>>]
                /\ UNCHANGED <<data, pending>>
           ELSE /\ data' = r.rest
                /\ pending' = Tail(pending)
                /\ last' = [op |-> "read", item |-> it, outcome |-> "ok", val |-> r.val]
                /\ UNCHANGED ub

Next ==
    \/ \E k \in Kinds, T \in Types : \E v \in ValuesOf(T) : write(k, T, v)
    \/ read

Spec == Init /\ [][Next]_vars

-----------------------------------------------------------------------------
(* Properties *)

TypeOK ==
    /\ data \in Seq(Byte)
    /\ pending \in Seq(Item)
    /\ Len(pending) <= MaxItems
    /\ ub \in BOOLEAN
    /\ last.op # "none" => last.outcome \in {"ok", "throw", "undefined"}
    /\ last.op = "read" /\ last.outcome = "ok"
         => last.val \in [1..last.item.type.size -> Byte]

\* Reading back what was written: every write of a value of its type succeeds,
\* and every read, in the order of the writes, returns exactly the value that
\* was written at that position, and once every item is read no byte is left
\* over, so the stream never loses its framing
\* (operator<< and operator>> of stream.h, as paired in transaction.h).
RoundTrip ==
    /\ ~ub
    /\ last.op # "none" => last.outcome = "ok"
    /\ last.op = "read"  => last.val = last.item.value
    /\ pending = <<>> => data = <<>>
=============================================================================
