SPECIFICATION FairSpec
CONSTANTS
    root = root
    saga = saga
    Saga = Saga
    a = a
    b = b
    info = info
    Trees = {"gb", "snes"}
    Roms = {"gb", "snes"}
    Pruned = {"gb", "snes"}
    Dirs = {root}
    Root = root
    Fold <- Spellings
    Files <- Flat
    Preserved = {info}
    MaxSize = 1
    Absent = Absent
    Faults = {"adb", "read", "rmdir", "crash", "edit", "editing", "view", "remount"}
    MaxMishaps = 2
PROPERTY Converges
