---------------------------- MODULE MCDarwinDevice ----------------------------
(* Instance of DarwinDevice for TLC. *)
EXTENDS DarwinDevice
===============================================================================
