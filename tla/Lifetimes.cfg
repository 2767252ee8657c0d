SPECIFICATION Spec
INVARIANTS
    NoDanglingCallback
    OneInstance
    NothingLeaks
