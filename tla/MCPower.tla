------------------------------ MODULE MCPower ------------------------------
(* One user and one connection to the system bus. *)
EXTENDS Power
=============================================================================
