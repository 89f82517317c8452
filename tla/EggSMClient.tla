---------------------------- MODULE EggSMClient ----------------------------
(***************************************************************************)
(* EggSMClientXSMP (egg/eggsmclient-xsmp.c): the application's end of the  *)
(* connection.  It turns the messages of XSMP into the signals             *)
(* quit_requested, quit_cancelled and quit of an application that has      *)
(* connected to them, and puts off what the application cannot be told     *)
(* while it is asking the user.                                            *)
(*                                                                         *)
(* An operator takes the client e to its next state.  The signals it emits *)
(* meanwhile are given by the operators Asks, TellsCancelled and TellsQuit.*)
(***************************************************************************)
EXTENDS Naturals, Sequences

States == {"idle", "interact-request", "interact", "save-yourself-done",
           "shutdown-cancelled", "connection-closed"}

\* Messages to the manager
InteractRequest == [msg |-> "InteractRequest"]
InteractDone(cancel) == [msg |-> "InteractDone", cancel |-> cancel]
SaveYourselfDone == [msg |-> "SaveYourselfDone"]
SaveYourselfRequest(fast) == [msg |-> "SaveYourselfRequest", fast |-> fast]

ToManager == {InteractDone(b) : b \in BOOLEAN} \cup {SaveYourselfRequest(b) : b \in BOOLEAN}
               \cup {InteractRequest, SaveYourselfDone}

Client == [state         : States,
           connected     : BOOLEAN,  \* connection is not NULL
           initial       : BOOLEAN,  \* waiting_to_set_initial_properties
           expecting     : BOOLEAN,  \* expecting_initial_save_yourself
           needQuit      : BOOLEAN,  \* need_quit_requested
           shuttingDown  : BOOLEAN,  \* shutting_down
           quit          : BOOLEAN,  \* waiting_to_emit_quit
           quitCancelled : BOOLEAN,  \* waiting_to_emit_quit_cancelled
           saveMyself    : BOOLEAN,  \* waiting_to_save_myself
           idle          : BOOLEAN,  \* idle, the source, is installed
           ending        : {"no", "fast", "confirm"}, \* in end_session
           out           : Seq(ToManager),
           \* libSM (SmcConn): shutdown_in_progress, interact_waits
           shutdown      : BOOLEAN,
           waits         : Nat]

\* sm_client_xsmp_startup, once the manager has accepted the client
Started(isNew) ==
  [state |-> "idle", connected |-> TRUE, initial |-> TRUE, expecting |-> isNew,
   needQuit |-> FALSE, shuttingDown |-> FALSE, quit |-> FALSE,
   quitCancelled |-> FALSE, saveMyself |-> FALSE, idle |-> TRUE, ending |-> "no",
   out |-> <<>>, shutdown |-> FALSE, waits |-> 0]

Say(e, message) == [e EXCEPT !.out = Append(@, message)]

\* update_pending_events
UpdatePendingEvents(e) == [e EXCEPT !.idle = e.quit \/ e.quitCancelled \/ e.saveMyself]

\* sm_client_xsmp_set_initial_properties
SetInitialProperties(e) == UpdatePendingEvents([e EXCEPT !.initial = FALSE])

\* Sending SaveYourselfDone leaves the client waiting for the answer
Done(e) == [Say(e, SaveYourselfDone) EXCEPT !.state = "save-yourself-done"]

\* fix_broken_state
FixBrokenState(e, sendInteractDone, sendDone) ==
  LET t == UpdatePendingEvents([e EXCEPT !.saveMyself = FALSE])
      u == IF sendInteractDone THEN Say(t, InteractDone(FALSE)) ELSE t
  IN  IF sendDone THEN Done(u) ELSE [u EXCEPT !.state = "idle"]

\* do_save_yourself; saving the state leaves the client as it is
DoSaveMyself(e) ==
  CASE e.state = "shutdown-cancelled" ->
         UpdatePendingEvents([e EXCEPT !.saveMyself = TRUE])
    [] e.state # "shutdown-cancelled" /\ e.needQuit ->
         [Say(e, InteractRequest) EXCEPT !.state = "interact-request", !.waits = @ + 1]
    [] OTHER -> Done(e)

\* Variant: do_save_yourself looks at the flags of the SaveYourself before
OnSaveYourselfStale(e, type, ask) ==
  IF e.state \notin {"idle", "shutdown-cancelled"}
  THEN FixBrokenState(e, FALSE, TRUE)
  ELSE [DoSaveMyself([e EXCEPT !.expecting = FALSE, !.initial = FALSE]) EXCEPT
          !.needQuit = ask, !.shuttingDown = type # "local"]

\* xsmp_save_yourself, with a save of type "local" or one that announces a
\* shutdown, and asks or not; the application listens to quit_requested
OnSaveYourself(e, type, ask) ==
  LET t == IF e.initial THEN SetInitialProperties(e) ELSE e
  IN  CASE e.state \notin {"idle", "shutdown-cancelled"} ->
             FixBrokenState(e, FALSE, TRUE)
        [] e.state \in {"idle", "shutdown-cancelled"} /\ e.expecting /\ type = "local" ->
             Done([t EXCEPT !.expecting = FALSE])
        [] OTHER ->
             DoSaveMyself([t EXCEPT !.expecting = FALSE, !.needQuit = ask,
                                    !.shuttingDown = type # "local"])

\* xsmp_interact emits quit_requested, unless it is out of place
Asks(e) == e.state = "interact-request"
OnInteract(e) ==
  IF Asks(e) THEN [e EXCEPT !.state = "interact"] ELSE FixBrokenState(e, TRUE, TRUE)

\* xsmp_save_complete
OnSaveComplete(e) ==
  IF e.state = "save-yourself-done"
  THEN [e EXCEPT !.state = "idle"]
  ELSE FixBrokenState(e, FALSE, FALSE)

\* xsmp_shutdown_cancelled emits quit_cancelled at once if the application has
\* given its answer; while it still thinks about it, it is told later.
TellsCancelled(e) == e.state = "save-yourself-done"
OnShutdownCancelled(e) ==
  LET t == [e EXCEPT !.shuttingDown = FALSE]
  IN  CASE TellsCancelled(e) -> [t EXCEPT !.state = "idle"]
        [] e.state = "shutdown-cancelled" ->
             UpdatePendingEvents([t EXCEPT !.saveMyself = FALSE])
        [] e.state = "interact" ->
             [Say(t, SaveYourselfDone) EXCEPT !.state = "shutdown-cancelled"]
        [] OTHER -> [Say(t, SaveYourselfDone) EXCEPT !.state = "idle"]

\* sm_client_xsmp_disconnect, from xsmp_die or as the connection fails
Disconnect(e) ==
  IF e.connected
  THEN UpdatePendingEvents([e EXCEPT !.connected = FALSE, !.saveMyself = FALSE,
                                     !.state = "connection-closed"])
  ELSE e

\* sm_client_xsmp_will_quit; an answer nobody asked for is only warned about
WillQuit(e, answer) ==
  CASE e.state = "connection-closed"  -> UpdatePendingEvents([e EXCEPT !.quit = TRUE])
    [] e.state = "shutdown-cancelled" ->
         UpdatePendingEvents([e EXCEPT !.quitCancelled = TRUE])
    [] e.state = "interact"           -> Done(Say(e, InteractDone(~ answer)))
    [] OTHER                          -> e

\* The source e.idle is, while initial is set, sm_client_xsmp_set_initial_properties,
\* and otherwise idle_do_pending_events
TellsQuit(e) == e.idle /\ ~ e.initial /\ e.quit
TellsCancelledLate(e) == e.idle /\ ~ e.initial /\ ~ e.quit /\ e.quitCancelled

\* Variant: what was put off is forgotten
OnIdleForgetful(e) ==
  IF e.initial THEN SetInitialProperties(e)
  ELSE [e EXCEPT !.idle = FALSE, !.quit = FALSE, !.quitCancelled = FALSE]

OnIdle(e) ==
  LET t == [e EXCEPT !.idle = FALSE]
      u == IF e.quitCancelled THEN [t EXCEPT !.quitCancelled = FALSE, !.state = "idle"] ELSE t
  IN  CASE e.initial             -> SetInitialProperties(e)
        [] ~ e.initial /\ e.quit -> [t EXCEPT !.quit = FALSE]
        [] OTHER                 ->
             IF u.saveMyself THEN DoSaveMyself([u EXCEPT !.saveMyself = FALSE]) ELSE u

\* sm_client_xsmp_end_session: the loop, up to the point where it waits for a
\* message (ending stays) or is left.  Nothing is sent while another end is
\* under way.  (States in which a signal is being emitted do not occur: the
\* application calls it from its own main loop.)
EndSessionLoop(e) ==
  LET t == IF e.state = "idle" /\ e.initial THEN SetInitialProperties(e) ELSE e
  IN  CASE e.ending = "no" -> e
        [] e.ending # "no" /\ e.state = "idle" /\ ~ e.expecting ->
             [Say(e, SaveYourselfRequest(e.ending = "fast")) EXCEPT !.ending = "no"]
        [] /\ e.ending # "no"
           /\ e.state # "idle" \/ e.expecting
           /\ ~ e.shuttingDown
           /\ e.state \in {"idle", "save-yourself-done"} -> t
        [] OTHER -> [e EXCEPT !.ending = "no"]
=============================================================================
