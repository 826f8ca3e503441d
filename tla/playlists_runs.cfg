SPECIFICATION FairSpec
CONSTANTS
    nes = nes
    snes = snes
    gba = gba
    Names = {nes, snes, gba}
    Faults = {"adb", "read", "crash", "table", "hand"}
    MaxMishaps = 4
PROPERTIES ListedUntilGone StaleGoes
