------------------------------ MODULE MCGspRpc ------------------------------
(* A ring of four slots, two functions, messages of one and two slots.     *)
EXTENDS GspRpc
=============================================================================
