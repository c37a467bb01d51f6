SPECIFICATION Spec
CONSTANTS
    IntBits = 5
    Nil = Nil
    NilObject = Nil
    Listings <- MCListings
    Claims <- MCClaims
    MaxLog = 2
INVARIANT ConsistencyReturns
