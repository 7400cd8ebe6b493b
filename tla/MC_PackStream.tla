--------------------------- MODULE MC_PackStream ---------------------------
(* Model of PackStream for TLC: the integer types of the code's streams    *)
(* and, for each, the values at the boundaries of the varint encoding.     *)
EXTENDS PackStream

U8  == [size |-> 1, signed |-> FALSE]
U16 == [size |-> 2, signed |-> FALSE]
U32 == [size |-> 4, signed |-> FALSE]
U64 == [size |-> 8, signed |-> FALSE]
I32 == [size |-> 4, signed |-> TRUE]

Ones(w) == [i \in 1..w |-> 255]

\* Non-negative values around 0xfd, 0xffff and 0xffffffff, as far as the
\* type holds them.
Boundaries(T) ==
    {LE(n, T.size) : n \in {0, 252, 253, 255}}
    \cup (IF T.size >= 2 THEN {LE(n, T.size) : n \in {65534, 65535, 65536}} ELSE {})
    \cup (IF T.size >= 4 /\ ~T.signed THEN {Fit(Ones(4), T.size)} ELSE {})
    \cup (IF T.size = 8 THEN {Fit(Ones(4) \o <<1>>, 8)} ELSE {})

MCTypes == {U8, U16, U32, U64, I32}
MCValuesOf(T) == Boundaries(T)

=============================================================================
