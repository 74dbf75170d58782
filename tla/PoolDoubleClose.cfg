\* Two concurrent calls of Close.
CONSTANTS
    k1 = k1  k2 = k2  k3 = k3  A = A  B = B
    Key = {k1}
    Provider = {A, B}
    ProviderOf <- MCProviderOf1
    MaxEpoch = 0
    User = {u1}
    Updater = up
    Closer = {c1, c2}
    None = None
    Cap = 1
    MaxScan = 1
SPECIFICATION Spec
INVARIANT ClosedOnce
