\* Liveness of scans, of Take and of Replace, with a Close.
CONSTANTS
    k1 = k1  k2 = k2  k3 = k3  A = A  B = B
    Key = {k1}
    Provider = {A, B}
    ProviderOf <- MCProviderOf1
    MaxEpoch = 1
    User = {u1, u2}
    Updater = up
    Closer = {cl}
    None = None
    Cap = 1
    MaxScan = 1
SPECIFICATION FairSpec
PROPERTIES ScanTerminates TakeUnblocksOnClose ReplaceTerminates
