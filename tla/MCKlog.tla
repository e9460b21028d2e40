------------------------------ MODULE MCKlog ------------------------------
(* A buffer of six bytes, lines of one and three.                          *)
EXTENDS Klog
=============================================================================
