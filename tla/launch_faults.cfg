SPECIFICATION Spec
CONSTANTS
    l1 = l1
    l2 = l2
    l3 = l3
    battle = battle
    diablo = diablo
    Launchers = {l1, l2}
    Slug <- TwoGames
    Gamescope = {l2}
    Handoff = {l2}
    RuntimeDir = TRUE
    Xwininfo = TRUE
    Faults = {"crash", "interrupt", "teardown", "spawn", "lutris", "blocked", "xwininfo", "twice"}
    User = User
    Nobody = Nobody
INVARIANT LaunchersWarnedFirst
PROPERTY GuardSpec
CHECK_DEADLOCK FALSE
