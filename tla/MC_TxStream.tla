---------------------------- MODULE MC_TxStream ----------------------------
(* Model of TransactionType_stream::read for TLC: legacy and segwit         *)
(* transactions with zero, one and two inputs and outputs, and witnesses   *)
(* with zero, one and two items.                                           *)
EXTENDS TxStream

In1  == <<"h1", 0, "sig1", 1>>
In2  == <<"h2", 1, "sig2", 0>>
Out1 == <<50, "pk1">>
Out2 == <<7, "pk2">>

Legacy(ins, outs) ==
    [version |-> 1, segwit |-> FALSE, flag |-> 0, ins |-> ins, outs |-> outs,
     witness |-> <<>>, lock_time |-> 0]

Segwit(ins, outs, wit) ==
    [version |-> 2, segwit |-> TRUE, flag |-> 1, ins |-> ins, outs |-> outs,
     witness |-> wit, lock_time |-> 5]

\* Transactions with at least one input: the ones Bitcoin's format tells
\* apart without ambiguity.
MCTxs ==
    { Legacy(<<In1>>, <<Out1>>),
      Legacy(<<In1, In2>>, <<>>),
      Segwit(<<In1>>, <<Out1, Out2>>, <<<<"w1", "w2">>>>),
      Segwit(<<In1, In2>>, <<Out2>>, <<<<>>, <<"w3">>>>) }
====
