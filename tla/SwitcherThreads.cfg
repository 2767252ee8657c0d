SPECIFICATION MCSpec
CONSTANTS
    Greeter = {a1, a2}
    Shell = {b}
    SpinnerSession = {sp1}
    Session <- MCSession
    NoSession = NoSession
    Name <- MCNames
    EmptyName = ""
    NameOf <- MCNameOf
    DMName <- MCDMNames
    Order <- MCOrder
    MaxConnected = 3
    Pid = {p1, p2}
    NoPid = 0
    ForkFailed <- MCForkFailed
    HasExecutable = TRUE
SYMMETRY Interchangeable
 
PROPERTY CallsAreAtomic
CHECK_DEADLOCK FALSE
VIEW MCView
