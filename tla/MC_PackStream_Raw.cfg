CONSTANTS
    Types <- MCTypes
    ValuesOf <- MCValuesOf
    Kinds = {"raw"}
    MaxItems = 2
SPECIFICATION Spec
INVARIANT
    RoundTrip
