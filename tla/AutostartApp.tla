---------------------------- MODULE AutostartApp ----------------------------
(***************************************************************************)
(* CsmAutostartApp (cafe-session/csm-autostart-app.c): an application with *)
(* a desktop file, the processes that were started from it and the         *)
(* condition it depends on.                                                *)
(*                                                                         *)
(* An operator takes the record of an application to its next state.  What *)
(* the application reports - that it exited, that its condition changed -  *)
(* is for the manager (Startup).                                           *)
(***************************************************************************)
EXTENDS Naturals, XsmpServer

CONSTANT MaxStarts   \* bound: the processes one application may ever have

ASSUME StartsAssumption == MaxStarts \in Nat \ {0}

Numbers == 1..MaxStarts

\* pid is -1 in the code
NoPid == 0

Process ==
  [life : {"none",     \* not started
           "running",
           "exited",   \* ended, and its child watch has yet to tell
           "died",     \* the same, by a signal
           "reaped"},  \* its pid may belong to any other process now
   told : BOOLEAN,     \* to end, by SIGTERM or through the session protocol
   conn : Connection]

App ==
  [pid       : {NoPid} \cup Numbers,
   condition : BOOLEAN,   \* as last seen
   watched   : BOOLEAN,   \* the manager listens to condition-changed
   delayed   : BOOLEAN,   \* a delayed start is due
   procs     : [Numbers -> Process]]

NoProcess == [life |-> "none", told |-> FALSE, conn |-> NoConnection]

\* csm_autostart_app_init and load_desktop_file
NewApp ==
  [pid |-> NoPid, condition |-> FALSE, watched |-> FALSE, delayed |-> FALSE,
   procs |-> [n \in Numbers |-> NoProcess]]

\* A process of the application can be started: the bound on processes
CanStart(a) == \E n \in Numbers : a.procs[n].life = "none"

NextNumber(a) == CHOOSE n \in Numbers : a.procs[n].life = "none"

\* is_running: the pid only, "FIXME: check client"
IsRunning(a) == a.pid # NoPid

\* csm_autostart_app_start that succeeds.  Activation over D-Bus makes the bus
\* start a process, of which the application knows no pid.
Start(a, activate) ==
  [a EXCEPT !.procs = [@ EXCEPT ![NextNumber(a)].life = "running"],
            !.pid = IF activate THEN @ ELSE NextNumber(a)]

\* autostart_app_stop_spawn: the signal goes to the pid, if there is one
Stop(a) ==
  IF IsRunning(a) THEN [a EXCEPT !.procs = [@ EXCEPT ![a.pid].told = TRUE]] ELSE a

\* Variant: the pid of a process that was killed is kept
AppExitedKept(a, n) ==
  [a EXCEPT !.procs = [@ EXCEPT ![n].life = "reaped"],
            !.pid = IF a.procs[n].life = "died" THEN @ ELSE NoPid]

\* app_exited, the child watch of process n.  It clears the pid whichever process
\* that is of.
AppExited(a, n) ==
  [a EXCEPT !.procs = [@ EXCEPT ![n].life = "reaped"], !.pid = NoPid]

\* is_conditionally_disabled: it takes note of the condition as it is now, and a
\* change under way will not be one any more
LookAtCondition(a, value) == [a EXCEPT !.condition = value]

\* if_exists_condition_cb, unless_exists_condition_cb, gsettings_condition_cb:
\* condition-changed is emitted
ConditionChanges(a, value) == a.watched /\ a.condition # value
=============================================================================
