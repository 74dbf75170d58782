\* Two sources, the seed's payload, a newer one, one that does not apply and one
\* that does not parse, each from one of the sources; one event around the refreshes.
CONSTANTS
    u1 = u1  u2 = u2  g1 = g1  g2 = g2  bad = bad  garbage = garbage
    Url = {u1, u2}
    Careless = {u2}
    Payload = {g1, g2, bad, garbage}
    Publishes <- MCPublishes
    Unparsable = {garbage}
    Empty = {bad}
    Seed = g1
    None = None
    MaxEvent = 1
SPECIFICATION FairSpec
INVARIANTS TypeOK ValidatorsBelong UnchangedConfirmsApplied ChangeIsApplied RestartRestores
PROPERTIES RefreshEnds FetchersEnd
CHECK_DEADLOCK FALSE
