SPECIFICATION Spec
CONSTANTS
    Plain <- MCPlain
    Numerals <- MCNumerals
    MaxText = 2
    MaxFields = 3
INVARIANTS
    TypeOK
    RoundTrip
