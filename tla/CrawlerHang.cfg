\* Close during a vet of a front that accepts the connection and never answers.
CONSTANTS
    k1 = k1  k2 = k2  k3 = k3  A = A  B = B
    Key = {k1, k2}
    Provider = {A}
    ProviderOf <- MCOneProvider
    MaxEpoch = 0
    Worker = {w1}
    Requester = {}
    None = None
    Cap = 3
    ReadyLow = 2
    ReadyEnough = 4
    Event = {"close"}
SPECIFICATION SilentSpec
PROPERTY CloseStopsCrawler
CHECK_DEADLOCK FALSE
