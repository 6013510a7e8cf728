---------------------------- MODULE MCUpdateMode ----------------------------
(* Builds of UpdateMode for TLC: every combination Kconfig allows for the    *)
(* general properties, and the builds the single questions are about.        *)
EXTENDS UpdateMode

AllBuilds == {c \in ConfigType : Buildable(c)}

Base == [uf2 |-> FALSE, serial |-> FALSE, gpio |-> FALSE, pinReset |-> FALSE,
         doubleTap |-> FALSE, bootMode |-> TRUE, waitDfu |-> FALSE,
         inactivity |-> FALSE]

(* A board with a USB device, a button and the usual adaboot entrances.     *)
Uf2Board == {[Base EXCEPT !.uf2 = TRUE, !.gpio = TRUE, !.doubleTap = TRUE]}

(* A serial board with a wait window and the inactivity timeout.            *)
IdleBoard == {[Base EXCEPT !.serial = TRUE, !.doubleTap = TRUE,
                           !.waitDfu = TRUE, !.inactivity = TRUE]}

(* A board with both transports, an entrance button and the reset pin.      *)
PinBoard == {[Base EXCEPT !.uf2 = TRUE, !.serial = TRUE, !.gpio = TRUE,
                          !.pinReset = TRUE]}

(* A board whose only entrance is the double tap.                           *)
TapBoard == {[Base EXCEPT !.uf2 = TRUE, !.doubleTap = TRUE, !.bootMode = FALSE]}
=============================================================================
