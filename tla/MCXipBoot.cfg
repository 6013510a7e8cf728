SPECIFICATION FairSpec
CONSTANTS
    BOOT_IMAGE_NUMBER = 2
    Versions <- MCVersions
    Needs <- MCNeeds
    SecCnt <- MCSecCnt
    Stored <- MCStored
    Builds <- MCBuilds
INVARIANTS
    NeverBricked
    RunsOnce
    RevertPossible
PROPERTY
    EventuallyUp
