SPECIFICATION FairSpec
CONSTANTS
    Weeks = 2
    Retention = 2
    LastDate = 4
    Faults = {"fail", "kill", "busy", "only"}
    MaxMishaps = 3
INVARIANTS TypeOK OneSnapshot DoneAsAsked
PROPERTIES KeptUntilCopied NewestCopied
