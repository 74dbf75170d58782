\* One Replace during the work of two goroutines.
CONSTANTS
    k1 = k1  k2 = k2  k3 = k3  A = A  B = B
    Key = {k1, k2}
    Provider = {A, B}
    ProviderOf <- MCProviderOf2
    MaxEpoch = 1
    User = {u1, u2}
    Updater = up
    Closer = {}
    None = None
    Cap = 2
    MaxScan = 1
SPECIFICATION Spec
INVARIANTS QueueInv
PROPERTIES NeverLost ImplementsRotation ScanIsBounded
SYMMETRY UserProviderSymmetry
