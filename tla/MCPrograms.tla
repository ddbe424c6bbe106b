----------------------------- MODULE MCPrograms -----------------------------
(* Every program of src/examples but the audio host, with failing messages. *)
EXTENDS Programs

AllNames == DOMAIN Catalogue
=============================================================================
