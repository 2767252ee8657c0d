SPECIFICATION MCSpec
CONSTANTS
    Greeter = {a}
    Shell = {b}
    SpinnerSession = {sp1}
    Session <- MCSession
    NoSession = NoSession
    Name <- MCNames
    EmptyName = ""
    NameOf <- MCNameOf
    DMName <- MCDMNames
    Order <- MCOrder
    MaxConnected = 3
    Pid = {p1, p2}
    NoPid = 0
    ForkFailed <- MCForkFailed
    HasExecutable = TRUE
INVARIANT NothingShownWithoutOutputs
CHECK_DEADLOCK FALSE
