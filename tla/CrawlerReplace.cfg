\* Two round trips hold the fronts of a provider that an update removes.
CONSTANTS
    k1 = k1  k2 = k2  k3 = k3  A = A  B = B
    Key = {k1, k2, k3}
    Provider = {A, B}
    ProviderOf <- MCTwoProviders
    MaxEpoch = 1
    Worker = {w1}
    Requester = {r1, r2}
    None = None
    Cap = 3
    ReadyLow = 2
    ReadyEnough = 4
    Event = {}
SPECIFICATION FairSpec
PROPERTY KeepsSupplied
