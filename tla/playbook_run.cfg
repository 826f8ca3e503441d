SPECIFICATION FairSpec
CONSTANTS
    c = c
    h = h
    Hosts = {c, h}
    Controller = c
INVARIANTS CredentialedOrRefused SameRun AsksInTime NoOrphan
PROPERTIES TermPassedOn RunGetsThere
CHECK_DEADLOCK FALSE
