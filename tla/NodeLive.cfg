SPECIFICATION FairSpec
CONSTANTS
    Instances = {1, 2}
    Host <- TwoMachines
    Older = {2}
    Static = {"base"}
    Probed = {"github-write"}
    Faults = {"sleep", "amnesia", "ill", "silent", "outage"}
    MaxLosses = 2
    NoToken = 0
PROPERTIES
    DeadFound
    AloneServed
    StaysOnline
    SickLeaves
