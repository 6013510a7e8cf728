SPECIFICATION Spec
CONSTANT Config <- PinBoard
INVARIANT HeldSessionEndsInApp
