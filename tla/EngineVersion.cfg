SPECIFICATION VerifySpec
CONSTANTS
    Nil = Nil
    k1 = k1  k2 = k2  k3 = k3  k4 = k4
    Dim <- MCDim
    AlgorithmOf <- MCAlgorithmOf
    Call = {v1}
    Input <- MCInput
    Time <- MCTime
    MaxTime = 3
    Lossy = {9}
INVARIANT HighestVersionInEffect
CHECK_DEADLOCK FALSE
