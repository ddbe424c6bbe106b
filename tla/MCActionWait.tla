---------------------------- MODULE MCActionWait ----------------------------
(* Instances of ActionWait for TLC.                                        *)
EXTENDS ActionWait

CONSTANTS user

OneCaller == {user}
=============================================================================
