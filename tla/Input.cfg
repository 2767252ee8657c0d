SPECIFICATION MCSpec
CONSTANTS
    Device = {mouse, touchpad, keyboard}
    NoDevice = NoDevice
    HasTouchpad = {touchpad}
    HasPointer = {mouse, touchpad}
    Speed <- MCSpeeds
    Switch = {"tap_to_click"}
    Thread = {t1, t2}
    NoThread = NoThread
    event_period = 2
    MaxReport = 1
    MaxTime = 6
SYMMETRY Threads
INVARIANTS
    TypeOK
    DevicesConfigured
    MissedSoonAfterReport
PROPERTY Throttled
\* the clock of the screen event handler stops at its bound
CHECK_DEADLOCK FALSE
