SPECIFICATION FairSpec
CONSTANTS
    dev = dev
    feature = feature
    none = none
    ann = ann
    bob = bob
    Stages = {dev, feature}
    Roots = {dev, none}
    NoStage = none
    Parent <- MCParent
    Ops = {ann, bob}
    Maintainer = ann
    Providers = {"neon", "tidb", "upstash"}
    MaxStarts = 2
    MaxCuts = 1
INVARIANT TypeOK
PROPERTIES
    OnlyOwnCommandsBreak
    NoSeenBranchLost
    PutConnects
    Recovers
CHECK_DEADLOCK FALSE
