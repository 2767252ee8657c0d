SPECIFICATION Spec
CONSTANTS
    display = display
    input = input
    Connection = {display, input}
    Watch <- MCWatch
    Timeout = {t}
INVARIANTS
    EpollMatches
PROPERTY NoEventLost
