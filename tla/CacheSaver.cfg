\* Two fronts and room for one, a user, the saver and two pauses.
CONSTANTS
    saver = saver  f1 = f1  f2 = f2  u1 = u1
    Waiter = {saver}
    Saver = saver
    Front = {f1, f2}
    User = {u1}
    MaxSize = 1
    MaxTime = 3
    MaxPause = 2
SPECIFICATION FairSaverSpec
INVARIANTS SaverTypeOK MarksReachFile ClosedIsSaved GateInv
PROPERTIES ImplementsGate MarksAreSaved CloseReturns
CHECK_DEADLOCK FALSE
