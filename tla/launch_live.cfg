SPECIFICATION FairSpec
CONSTANTS
    l1 = l1
    l2 = l2
    l3 = l3
    battle = battle
    diablo = diablo
    Launchers = {l1, l2}
    Slug <- TwoGames
    Gamescope = {l2}
    Handoff = {l2}
    RuntimeDir = TRUE
    Xwininfo = FALSE
    Faults = {"lutris", "spawn", "crash"}
    User = User
    Nobody = Nobody
PROPERTY ClickSettles
CHECK_DEADLOCK FALSE
