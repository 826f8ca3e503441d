SPECIFICATION FairSpec
CONSTANTS
    driver = driver
    camera = camera
    dir = dir
    preset = preset
    nes = nes
    Owned = {driver}
    Dropped = {camera}
    Kept = {dir}
    DirKey = dir
    Files = {preset}
    Systems = {nes}
    Absent = Absent
    Closed = Closed
    Faults = {"download", "stop", "reopen", "read", "adb", "kill", "role", "user", "hand", "grant"}
    MaxMishaps = 3
INVARIANT LinesNotLost
PROPERTIES DoneRight HeaderlessSpared Converges
