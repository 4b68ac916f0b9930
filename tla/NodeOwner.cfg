SPECIFICATION FairSpec
CONSTANTS
    Instances = {1, 2, 3}
    Host <- TwoMachines
    Older = {}
    Static = {"base"}
    Probed = {"github-write"}
    Faults = {"ill", "silent", "probes"}
    MaxLosses = 1
    NoToken = 0
INVARIANTS
    TypeOK
    OneOwner
PROPERTIES
    CapsHonest
