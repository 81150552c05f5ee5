------------------------------ MODULE MCStunTls ------------------------------
(***************************************************************************)
(* Instances of StunTls for TLC.  The lengths are those at which the       *)
(* length field of a frame changes its form, a read that fills the buffer, *)
(* and reads that bring one byte less than there is.                       *)
(***************************************************************************)
EXTENDS StunTls
===============================================================================
