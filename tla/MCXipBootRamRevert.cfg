SPECIFICATION Spec
CONSTANTS
    BOOT_IMAGE_NUMBER = 1
    Versions <- MCVersions
    Needs <- MCNeeds
    SecCnt <- MCSecCnt
    Stored <- MCStored
    Builds <- MCRamRevert
INVARIANT
    RevertPossible
