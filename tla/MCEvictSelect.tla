--------------------------- MODULE MCEvictSelect ---------------------------
(* Small constants for the run of EvictSelect.                             *)
EXTENDS EvictSelect
=============================================================================
