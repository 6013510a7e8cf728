SPECIFICATION Spec
CONSTANT Config <- Uf2Board
INVARIANT WindowSessionEndsInApp
