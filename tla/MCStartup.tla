----------------------------- MODULE MCStartup -----------------------------
(* Two applications that are waited for, one after the other, of which the   *)
(* bus starts the first, and one that depends on a file and is started late  *)
(* and anew.                                                                 *)
EXTENDS Startup

CONSTANTS panel, dock, applet

MCPhaseOf == [a \in Apps |-> IF a = applet THEN APPLICATION ELSE IF a = dock THEN 2 ELSE 3]
=============================================================================
