SPECIFICATION FairSpec
CONSTANTS
    claude = claude
    kilo = kilo
    env = env
    keys = keys
    Files = {claude}
    Rules = {env, keys}
    NoList = NoList
    Torn = Torn
    Nobody = Nobody
    Faults = {"kill", "denied", "error", "install"}
    MaxMishaps = 3
    MaxEdits = 2
INVARIANTS TypeOK NeverTorn
PROPERTIES SoundReplacement Exact
