----------------------------- MODULE MCXipBoot -----------------------------
EXTENDS XipBoot

MCVersions == {1, 2}
(* Each image needs version 2 of the other as soon as it is version 2.      *)
MCNeeds == [m \in ImageIds |-> [v \in MCVersions |-> [o \in ImageIds |-> IF o = m THEN 0 ELSE v]]]
MCSecCnt == [v \in MCVersions |-> v]
Image(v, ok, fits) == [v |-> v, ok |-> ok, fits |-> fits]
MCStored == {Image(2, TRUE, TRUE), Image(2, FALSE, TRUE), Image(2, TRUE, FALSE)}
Build(ram_load, revert, hw, deps) ==
    [ram |-> ram_load, revert |-> revert, hw |-> hw, deps |-> deps]
MCBuilds ==
    {Build(FALSE, TRUE, TRUE, FALSE), Build(TRUE, TRUE, FALSE, TRUE), Build(FALSE, FALSE, TRUE, TRUE)}
(* MCUBOOT_RAM_LOAD_REVERT with MCUBOOT_HW_ROLLBACK_PROT.                   *)
MCRamRevert == {Build(TRUE, TRUE, TRUE, FALSE)}
=============================================================================
