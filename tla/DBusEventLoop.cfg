SPECIFICATION Spec
CONSTANTS
    Producer = {p1, p2}
    Action = {a1, a2}
    PipeCapacity = 6
    MaxPushes = 3
    MaxSelfWakeUps = 2
INVARIANTS
    NoLostWakeUp
    NoLostStop
PROPERTIES
    OwnerJoins
    IsActionQueue
CHECK_DEADLOCK FALSE
