------------------------------ MODULE MCWsHost ------------------------------
(* Instance of WsHost for TLC.                                             *)
EXTENDS WsHost
=============================================================================
