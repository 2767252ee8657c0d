SPECIFICATION Spec
CONSTANTS
    lvds = lvds
    hdmi = hdmi
    Output <- MCOutput
    InvalidOutput = InvalidOutput
    AbsentOutput = AbsentOutput
    CommandLine <- MCCommandLine
    SessionConf <- MCSessionConf
    Size <- MCSize
INVARIANTS
    ReleasedInOrder
    SurfaceOnEveryOutput
    FramesInStep
    DrawnUpright
PROPERTY EndsWhenAsked
CHECK_DEADLOCK FALSE
