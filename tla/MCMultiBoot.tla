---------------------------- MODULE MCMultiBoot ----------------------------
EXTENDS MultiBoot

MCVersions == {1, 2}
(* Each image needs version 2 of the other as soon as it is version 2.      *)
MCNeeds == [m \in ImageIds |-> [v \in MCVersions |-> [o \in ImageIds |-> IF o = m THEN 0 ELSE v]]]
MCNoNeeds == [m \in ImageIds |-> [v \in MCVersions |-> [o \in ImageIds |-> 0]]]
(* The counter of the second image stays the same.                          *)
MCSecCnt == [m \in ImageIds |-> [v \in MCVersions |-> IF m = 0 THEN v ELSE 1]]
MCStored == {[v |-> 1, ok |-> TRUE], [v |-> 2, ok |-> TRUE], [v |-> 2, ok |-> FALSE]}
Build(o, d, b, c) == [overwrite |-> o, downgrade |-> d, bootstrap |-> b, careful |-> c]
MCBuilds ==
    {Build(FALSE, "hw", TRUE, TRUE), Build(FALSE, "counter", FALSE, TRUE),
     Build(TRUE, "version", TRUE, TRUE), Build(TRUE, "hw", FALSE, FALSE)}
MCDowngrade == {Build(FALSE, "version", FALSE, TRUE)}
=============================================================================
