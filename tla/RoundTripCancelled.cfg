\* A call whose context ends during its dial.
CONSTANTS
    Label = {api, example, edge}
    c1 = c1  c2 = c2  A = A  B = B  f1 = f1  f2 = f2  f3 = f3
    api = api    example = example  edge = edge
    Call = {c1}
    Provider = {A, B}
    Front = {f1, f2}
    ProviderOf <- MCProviderOf
    Offered <- MCOffered
    Origin <- MCOrigin
    Warm <- MCWarmPair
    Gone = Gone
    SpeaksH2 = {f1}
    Upgrades = {c1}
    None = None
    Country = None
    IpHash = None
    Empty = Empty
    Nil = Nil
    MaxRetries = 2
    MaxScan = 1
    MaxChange = 1
SPECIFICATION Spec
PROPERTY CancelledCallKeepsFront
CHECK_DEADLOCK FALSE
