\* Two calls of two attempts, two fronts of one provider and one of another,
\* two changes around them.
CONSTANTS
    Label = {api, example, edge}
    c1 = c1  c2 = c2  A = A  B = B  f1 = f1  f2 = f2  f3 = f3
    api = api    example = example  edge = edge
    Call = {c1, c2}
    Provider = {A, B}
    Front = {f1, f2, f3}
    ProviderOf <- MCProviderOf
    Offered <- MCOffered
    Origin <- MCOrigin
    Warm <- MCWarm
    Gone = Gone
    SpeaksH2 = {f1}
    Upgrades = {c1}
    None = None
    Country = None
    IpHash = None
    Empty = Empty
    Nil = Nil
    MaxRetries = 2
    MaxScan = 1
    MaxChange = 2
SPECIFICATION FairSpec
INVARIANTS TypeOK ConnectionsAreClosed
PROPERTIES SentAsWritten NoFrontVanishes OnlyFailuresCount EscapesProvider CallsEnd
CHECK_DEADLOCK FALSE
