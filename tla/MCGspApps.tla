----------------------------- MODULE MCGspApps -----------------------------
(* Two directories of the system, in which files come, change and go, and two *)
(* commands.                                                                 *)
EXTENDS GspApps

CONSTANTS x, y
=============================================================================
