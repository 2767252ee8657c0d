SPECIFICATION ServiceSpec
CONSTANTS
    Output = {lvds, hdmi}
    External = {hdmi}
    Owner = {switcher, service}
    Service = service
    DisplayConfig = {"sidebyside", "single"}
    MaxPending = 1
INVARIANTS
    HandlersAgree
    CallsOnlyRegistered
    ActiveOutputsComposited
    CountsMatchDisplay
    LastWord
PROPERTY Converges
CHECK_DEADLOCK FALSE
