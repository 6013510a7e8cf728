SPECIFICATION Spec
CONSTANTS
    BOOT_IMAGE_NUMBER = 2
    Versions <- MCVersions
    Needs <- MCNoNeeds
    SecCnt <- MCSecCnt
    Stored <- MCStored
    Builds <- MCDowngrade
INVARIANT
    RevertSpared
