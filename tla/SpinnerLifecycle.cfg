SPECIFICATION LifecycleSpec
CONSTANTS
    Session = {"a", "sp1", "sp2"}
    NoSession = NoSession
    Name <- MCNames
    EmptyName = ""
    NameOf <- MCNameOf
    DMName <- MCDMNames
    SpinnerSession = {"sp1", "sp2"}
    Pid = {1, 2}
    NoPid = 0
    ForkFailed <- MCForkFailed
    HasExecutable = TRUE
INVARIANTS
    NoSpinnerLeaks
    NoIdleSpinner
PROPERTY SpinnerAppears
