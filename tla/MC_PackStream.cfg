CONSTANTS
    Types <- MCTypes
    ValuesOf <- MCValuesOf
    Kinds = {"varint"}
    MaxItems = 2
SPECIFICATION Spec
INVARIANTS
    TypeOK
    RoundTrip
