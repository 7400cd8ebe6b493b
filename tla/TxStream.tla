----------------------------- MODULE TxStream -----------------------------
(***************************************************************************)
(* Transaction (de)serialization of src/libcoind/transaction.h: the write  *)
(* and read methods of PreviousOutput_stream, TxInType_stream,             *)
(* TxOutType_stream, WTXType and NTXType, and TransactionType_stream::read,*)
(* which tells a segwit transaction from a legacy one by the varint that   *)
(* follows the version.                                                    *)
(*                                                                         *)
(* The field types (IntType(n), VarIntType, StrType, ListType,             *)
(* PossibleNoneType) are declared in libdevcore/stream_types.h, which is   *)
(* not part of the repository.  A field is therefore one token [k, v] of   *)
(* the stream: k names its type, v its value.  Reading a field of type k   *)
(* from a token of another type is a misparse (on bytes, the reader would  *)
(* take garbage or read past the end); it is a failed read.  A ListType is *)
(* a varint count followed by that many elements, as in Bitcoin's wire     *)
(* format.                                                                 *)
(***************************************************************************)
EXTENDS Integers, Sequences, SequencesExt

CONSTANTS
    Txs,      \* the transactions a peer or the coin daemon may send
    MaxItems  \* bound on the transactions in flight in the stream

Tok(k, v) == [k |-> k, v |-> v]

\* A failed read.
Fail == [ok |-> FALSE]

Ok(val, rest) == [ok |-> TRUE, val |-> val, rest |-> rest]

(***************************************************************************)
(* Field layouts, from the write/read pairs.                               *)
(***************************************************************************)

\* PreviousOutput_stream: hash, index; TxInType_stream: previous_output,
\* script, sequence.
TxInKinds == <<"int256", "int32", "str", "int32">>

\* TxOutType_stream: value, script.
TxOutKinds == <<"int64", "str">>

\* A witness (ListType<StrType>) holds strings; an element is a 1-tuple.
WitKinds == <<"str">>

KindsOf(tag) == CASE tag = "txin" -> TxInKinds [] tag = "txout" -> TxOutKinds
                  [] OTHER -> WitKinds

(***************************************************************************)
(* Writing.                                                                *)
(***************************************************************************)

\* stream << f1 << f2 << ...: one token per field.
write_fields(ks, vs) == [i \in 1..Len(ks) |-> Tok(ks[i], vs[i])]

\* ListType::write: the count, then each element.
write_list(tag, es) ==
    <<Tok("varint", Len(es))>>
      \o FoldLeft(LAMBDA acc, e : acc \o write_fields(KindsOf(tag), e), <<>>, es)

\* WTXType::write: flag, tx_ins, tx_outs.
write_wtx(tx) ==
    <<Tok("int8", tx.flag)>> \o write_list("txin", tx.ins) \o write_list("txout", tx.outs)

\* NTXType::write: tx_outs, lock_time.
write_ntx(tx) == write_list("txout", tx.outs) \o <<Tok("int32", tx.lock_time)>>

(***************************************************************************)
(* TransactionType_stream::write is declared (line 323) but not defined in *)
(* the repository; the serialization the reader must accept is Bitcoin's   *)
(* (BIP 144): version, then either marker 0, flag, inputs, outputs, one    *)
(* witness per input and lock_time, or inputs, outputs and lock_time.      *)
(***************************************************************************)
serialize(tx) ==
    <<Tok("int32", tx.version)>> \o
    IF tx.segwit
    THEN <<Tok("varint", 0)>> \o write_wtx(tx)
           \o FoldLeft(LAMBDA acc, w : acc \o write_list("wit", [j \in DOMAIN w |-> <<w[j]>>]),
                       <<>>, tx.witness)
           \o <<Tok("int32", tx.lock_time)>>
    ELSE write_list("txin", tx.ins) \o write_ntx(tx)

(***************************************************************************)
(* Reading.                                                                *)
(***************************************************************************)

\* stream >> field of type k.
read_prim(d, k) ==
    IF d # <<>> /\ Head(d).k = k THEN Ok(Head(d).v, Tail(d)) ELSE Fail

\* stream >> f1 >> f2 >> ...: the fields of kinds ks, in order.
RECURSIVE read_fields(_, _)
read_fields(d, ks) ==
    IF ks = <<>> THEN Ok(<<>>, d)
    ELSE LET r == read_prim(d, Head(ks)) IN
         IF ~r.ok THEN Fail
         ELSE LET s == read_fields(r.rest, Tail(ks)) IN
              IF ~s.ok THEN Fail ELSE Ok(<<r.val>> \o s.val, s.rest)

\* c elements of the layout of tag, read one after the other.
RECURSIVE read_many(_, _, _)
read_many(d, tag, c) ==
    IF c = 0 THEN Ok(<<>>, d)
    ELSE LET r == read_fields(d, KindsOf(tag)) IN
         IF ~r.ok THEN Fail
         ELSE LET s == read_many(r.rest, tag, c - 1) IN
              IF ~s.ok THEN Fail ELSE Ok(<<r.val>> \o s.val, s.rest)

\* ListType::read: the count, then that many elements.
read_list(d, tag) ==
    LET n == read_prim(d, "varint") IN
    IF ~n.ok THEN Fail ELSE read_many(n.rest, tag, n.val)

\* Seeded fault: WTXType::read takes tx_outs before tx_ins.
read_wtx_swapped(d) ==
    LET f == read_prim(d, "int8") IN
    IF ~f.ok THEN Fail ELSE
    LET o == read_list(f.rest, "txout") IN
    IF ~o.ok THEN Fail ELSE
    LET i == read_list(o.rest, "txin") IN
    IF ~i.ok THEN Fail ELSE
    Ok([flag |-> f.val, ins |-> i.val, outs |-> o.val], i.rest)

\* WTXType::read: flag, tx_ins, tx_outs.
read_wtx(d) ==
    LET f == read_prim(d, "int8") IN
    IF ~f.ok THEN Fail ELSE
    LET i == read_list(f.rest, "txin") IN
    IF ~i.ok THEN Fail ELSE
    LET o == read_list(i.rest, "txout") IN
    IF ~o.ok THEN Fail ELSE
    Ok([flag |-> f.val, ins |-> i.val, outs |-> o.val], o.rest)

\* NTXType::read: tx_outs, lock_time.
read_ntx(d) ==
    LET o == read_list(d, "txout") IN
    IF ~o.ok THEN Fail ELSE
    LET l == read_prim(o.rest, "int32") IN
    IF ~l.ok THEN Fail ELSE
    Ok([outs |-> o.val, lock_time |-> l.val], l.rest)

\* The loop of line 338: one witness list per input.
RECURSIVE read_witnesses(_, _)
read_witnesses(d, c) ==
    IF c = 0 THEN Ok(<<>>, d)
    ELSE LET w == read_list(d, "wit") IN
         IF ~w.ok THEN Fail
         ELSE LET s == read_witnesses(w.rest, c - 1) IN
              IF ~s.ok THEN Fail ELSE Ok(<<w.val>> \o s.val, s.rest)

(***************************************************************************)
(* The coind::data transactions TransactionType_stream::read builds.  A    *)
(* legacy transaction is a TransactionType; a segwit one is a              *)
(* WitnessTransactionType, whose constructor copies the base fields and    *)
(* turns each witness ListType<StrType> into a vector<string>.  segwit     *)
(* tells the two dynamic types apart; the marker is 0 on the only path     *)
(* that builds a WitnessTransactionType and is not kept.                   *)
(***************************************************************************)
TransactionType(version, ins, outs, lock_time) ==
    [version |-> version, segwit |-> FALSE, flag |-> 0, ins |-> ins,
     outs |-> outs, witness |-> <<>>, lock_time |-> lock_time]

WitnessTransactionType(version, marker, flag, ins, outs, witness, lock_time) ==
    [TransactionType(version, ins, outs, lock_time) EXCEPT
        !.segwit = TRUE, !.flag = flag,
        !.witness = [i \in DOMAIN witness |->
                        [j \in DOMAIN witness[i] |-> witness[i][j][1]]]]

(***************************************************************************)
(* TransactionType_stream::read (lines 324-394).  A marker of 0 means      *)
(* segwit: WTXType, one witness per input, lock_time.  Any other marker is *)
(* the input count of a legacy transaction: that many inputs, then NTXType.*)
(***************************************************************************)
read_tx(d) ==
    LET v == read_prim(d, "int32") IN
    IF ~v.ok THEN Fail ELSE
    LET m == read_prim(v.rest, "varint") IN
    IF ~m.ok THEN Fail ELSE
    IF m.val = 0
    THEN LET w == read_wtx(m.rest) IN
         IF ~w.ok THEN Fail ELSE
         LET ws == read_witnesses(w.rest, Len(w.val.ins)) IN
         IF ~ws.ok THEN Fail ELSE
         LET l == read_prim(ws.rest, "int32") IN
         IF ~l.ok THEN Fail ELSE
         Ok(WitnessTransactionType(v.val, m.val, w.val.flag, w.val.ins,
                                   w.val.outs, ws.val, l.val), l.rest)
    ELSE LET i == read_many(m.rest, "txin", m.val) IN
         IF ~i.ok THEN Fail ELSE
         LET n == read_ntx(i.rest) IN
         IF ~n.ok THEN Fail ELSE
         Ok(TransactionType(v.val, i.val, n.val.outs, n.val.lock_time), n.rest)

VARIABLES
    data,     \* the PackStream the transactions travel in
    pending,  \* the transactions written and not yet read, in order
    last      \* the outcome of the latest read

vars == <<data, pending, last>>

None == [op |-> "none"]

Init ==
    /\ data = <<>>
    /\ pending = <<>>
    /\ last = None

\* The sender serializes a transaction into the stream.
send(tx) ==
    /\ Len(pending) < MaxItems
    /\ data' = data \o serialize(tx)
    /\ pending' = Append(pending, tx)
    /\ last' = None

\* TransactionType_stream::read of the next transaction.  A failed read
\* leaves the stream where it was; the caller gives it up.
receive ==
    /\ pending # <<>>
    /\ LET r == read_tx(data) IN
       IF r.ok
       THEN /\ data' = r.rest
            /\ pending' = Tail(pending)
            /\ last' = [op |-> "read", sent |-> Head(pending), ok |-> TRUE, got |-> r.val]
       ELSE /\ data' = <<>>
            /\ pending' = <<>>
            /\ last' = [op |-> "read", sent |-> Head(pending), ok |-> FALSE]

Next == (\E tx \in Txs : send(tx)) \/ receive

Spec == Init /\ [][Next]_vars

-----------------------------------------------------------------------------
(* Properties *)

\* Every transaction the sender serializes is read back by
\* TransactionType_stream::read as the same transaction, with its segwit
\* or legacy form, its inputs, outputs, witnesses and lock_time, and the
\* stream stays framed for the next one.  The code marks WTXType::read
\* and the segwit branch "bug here" (lines 267, 334); this holds at the
\* token level, so the defect they mark lies in the field types.
TxRoundTrip ==
    last.op = "read" => last.ok /\ last.got = last.sent
====
