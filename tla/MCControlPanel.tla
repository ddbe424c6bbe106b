--------------------------- MODULE MCControlPanel ---------------------------
(* Instance of ControlPanel for TLC.                                       *)
EXTENDS ControlPanel

CONSTANTS forward, left, low, high

TwoDirections == {forward, left}
TwoPositions == {low, high}
=============================================================================
