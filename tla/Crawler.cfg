\* Two fronts of two providers, one round trip, one configuration update.
CONSTANTS
    k1 = k1  k2 = k2  k3 = k3  A = A  B = B
    Key = {k1, k3}
    Provider = {A, B}
    ProviderOf <- MCTwoProviders
    MaxEpoch = 1
    Worker = {w1}
    Requester = {r1}
    None = None
    Cap = 2
    ReadyLow = 1
    ReadyEnough = 2
    Event = {"pause", "close", "network"}
SPECIFICATION FairSpec
INVARIANTS TypeOK NoVetAfterStop
PROPERTIES SuppliedUnlessStale CloseStopsCrawler
