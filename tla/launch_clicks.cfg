SPECIFICATION Spec
CONSTANTS
    l1 = l1
    l2 = l2
    l3 = l3
    battle = battle
    diablo = diablo
    Launchers = {l1, l2, l3}
    Slug <- OneGame
    Gamescope = {l1, l2, l3}
    Handoff = {}
    RuntimeDir = TRUE
    Xwininfo = TRUE
    Faults = {"blocked", "xwininfo"}
    User = User
    Nobody = Nobody
SYMMETRY Alike
INVARIANTS NoUnwaitedInstance ReportsAgree
PROPERTY SurvivorsIgnored
CHECK_DEADLOCK FALSE
