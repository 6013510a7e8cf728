SPECIFICATION Spec
CONSTANT Config <- AllBuilds
INVARIANTS
    RequestHonoured
    SessionEndsInApp
PROPERTIES
    FlagEntryWasAsked
    Settles
