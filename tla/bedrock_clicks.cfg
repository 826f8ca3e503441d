SPECIFICATION FairSpec
CONSTANTS
    l1 = l1
    l2 = l2
    l3 = l3
    Launchers = {l1, l2}
    Gui = Gui
    Nobody = Nobody
    Faults = {"kill", "slay", "fail", "left"}
    MaxMishaps = 3
INVARIANT OneGame
PROPERTIES GuardSpec MarkerJudged SilenceMeansShown ClickSettles
CHECK_DEADLOCK FALSE
