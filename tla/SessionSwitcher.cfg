SPECIFICATION StatusSpec
CONSTANTS
    Greeter = {a, a2}
    Shell = {b}
    SpinnerSession = {sp1, sp2}
    Session <- MCSession
    NoSession = NoSession
    Name <- MCNames
    EmptyName = ""
    NameOf <- MCNameOf
    DMName <- MCDMNames
    Pid = {p1, p2}
    NoPid = 0
    ForkFailed <- MCForkFailed
    HasExecutable = TRUE
SYMMETRY Interchangeable
INVARIANTS
    TypeOK
    DisplayMatches
    FocusMatches
    BootShowsOnlySpinner
    SpinnerAccounting
    SuspendedOnlyIfLeft
PROPERTIES
    ActiveKeepsScreen
    BootEndsWithBoth
    EntriesKept
