\* Two lanes, three fronts, one configuration update.
CONSTANTS
    A = A  B = B  f1 = f1  f2 = f2  f3 = f3
    Lane = {A, B}
    Front = {f1, f2, f3}
    LaneOf <- MCLaneOf
    None = None
    MaxTries = 2
    MaxChange = 1
SPECIFICATION FairSpec
INVARIANTS OpenConnectionsAreOwned ResultsAreAwaited FrontsAreAccounted GivenBackOnce
PROPERTIES UsesRotation CancelledDialKeepsFront CallReturns AllReleased
CHECK_DEADLOCK FALSE
