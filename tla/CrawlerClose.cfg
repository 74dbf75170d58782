\* Close during a vet of a front the cache knew.
CONSTANTS
    k1 = k1  k2 = k2  k3 = k3  A = A  B = B
    Key = {k1, k2, k3}
    Provider = {A}
    ProviderOf <- MCOneProvider
    MaxEpoch = 0
    Worker = {w1}
    Requester = {}
    None = None
    Cap = 3
    ReadyLow = 2
    ReadyEnough = 4
    Event = {"close"}
SPECIFICATION Spec
PROPERTY CloseSavesWorking
CHECK_DEADLOCK FALSE
