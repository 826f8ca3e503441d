SPECIFICATION FairSpec
CONSTANTS
    p1 = p1
    p2 = p2
    Panels = {p1, p2}
    Mechanisms = {"ddc", "xset", "niri"}
    Threshold = 5
    Stale = 2
    MaxReadFailures = 2
    MaxWakeAttempts = 2
    Faults = {"write", "reader", "hang", "unplug", "clock", "kill", "stop"}
    MaxMishaps = 2
INVARIANT NoPanelForgotten
PROPERTIES FrozenNotBelieved FollowsPerson BlindLetsGo
