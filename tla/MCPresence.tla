----------------------------- MODULE MCPresence -----------------------------
(* Two inhibitors, and delays that the user stays away beyond or not.      *)
EXTENDS Presence

CONSTANTS i1, i2
=============================================================================
