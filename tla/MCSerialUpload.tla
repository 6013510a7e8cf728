--------------------------- MODULE MCSerialUpload ---------------------------
(* Slots of four sectors of four bytes, the trailer in the last; a file of    *)
(* two chunks that crosses a sector and one of four that leaves no room for   *)
(* the trailer, or none at all in a secondary slot.  Both end inside a write  *)
(* unit.                                                                      *)
EXTENDS SerialUpload

MCFileSize == [f \in Files |-> IF f = "f" THEN 7 ELSE 13]
=============================================================================
