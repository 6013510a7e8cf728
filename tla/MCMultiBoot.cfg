SPECIFICATION FairSpec
CONSTANTS
    BOOT_IMAGE_NUMBER = 2
    Versions <- MCVersions
    Needs <- MCNeeds
    SecCnt <- MCSecCnt
    Stored <- MCStored
    Builds <- MCBuilds
INVARIANTS
    NeverBricked
    DependenciesMet
    RevertPossible
PROPERTY
    EventuallyUp
