SPECIFICATION Spec
CONSTANTS
    root = root
    saga = saga
    Saga = Saga
    a = a
    b = b
    info = info
    Trees = {"bios", "snes"}
    Roms = {"snes"}
    Pruned = {"snes"}
    Dirs = {root, saga, Saga}
    Root = root
    Fold <- Spellings
    Files <- Nested
    Preserved = {info}
    MaxSize = 1
    Absent = Absent
    Faults = {"adb", "read", "crash", "edit", "view"}
    MaxMishaps = 3
PROPERTIES DoneMirrored NextRunIdle PruneSparesLibrary
