--------------------------- MODULE CsmXSMPClient ---------------------------
(***************************************************************************)
(* CsmXSMPClient (cafe-session/csm-xsmp-client.c): the session manager's   *)
(* end of the connection to an XSMP client.  CsmManager asks, ends,        *)
(* cancels and stops a client; here this becomes SaveYourself,             *)
(* ShutdownCancelled and Die, one SaveYourself at a time, with at most one *)
(* more queued behind it.                                                  *)
(*                                                                         *)
(* The record of the connection also holds what libSM keeps of it (SmsConn)*)
(* to refuse messages that are out of place.  libSM is not part of the     *)
(* repository: its part is modelled from what the callbacks rely on.       *)
(***************************************************************************)
EXTENDS Sequences

\* The type of a SaveYourself: SmSaveGlobal, SmSaveLocal, SmSaveBoth, or -1
SaveTypes == {"none", "global", "local", "both"}

\* Messages to the client
SaveYourself(type, ask) == [msg |-> "SaveYourself", type |-> type, ask |-> ask]
Interact == [msg |-> "Interact"]
SaveComplete == [msg |-> "SaveComplete"]
ShutdownCancelled == [msg |-> "ShutdownCancelled"]
Die == [msg |-> "Die"]

ToClient == {SaveYourself(type, ask) : type \in SaveTypes \ {"none"}, ask \in BOOLEAN}
              \cup {Interact, SaveComplete, ShutdownCancelled, Die}

Connection == [current     : SaveTypes,  \* current_save_yourself
               next        : SaveTypes,  \* next_save_yourself
               allow       : BOOLEAN,    \* next_save_yourself_allow_interact
               out         : Seq(ToClient),
               \* libSM: save_yourself_in_progress, interaction_allowed,
               \* can_cancel_shutdown, interact_in_progress
               saving      : BOOLEAN,
               askable     : BOOLEAN,
               cancellable : BOOLEAN,
               interacting : BOOLEAN]

\* csm_xsmp_client_init, and register_client_callback: a client with a new id
\* is sent an initial SaveYourself, which does not pass through the queue.
Registered(isNew) ==
  [current |-> IF isNew THEN "local" ELSE "none", next |-> "none",
   allow |-> FALSE,
   out |-> IF isNew THEN <<SaveYourself("local", FALSE)>> ELSE <<>>,
   saving |-> isNew, askable |-> FALSE, cancellable |-> FALSE,
   interacting |-> FALSE]

Send(s, message) == [s EXCEPT !.out = Append(@, message)]

\* SmsSaveYourself; all but a local one announce a shutdown.  The libSM of the
\* client refuses a SaveYourself of type -1, which changes nothing there.
SendSaveYourself(s, type, ask) ==
  LET t == [s EXCEPT !.saving = TRUE, !.askable = ask,
                     !.cancellable = ask /\ type # "local"]
  IN  IF type = "none" THEN t ELSE Send(t, SaveYourself(type, ask))

\* Variant: nothing is queued
DoSaveYourselfUnqueued(s, type, ask) ==
  SendSaveYourself([s EXCEPT !.current = type], type, type # "local" /\ ask)

\* do_save_yourself: the first SaveYourself that is queued makes the following
\* ones redundant.
DoSaveYourself(s, type, ask) ==
  CASE s.next # "none"    -> s
    [] s.next = "none" /\ s.current # "none" ->
         [s EXCEPT !.next = type, !.allow = ask]
    [] OTHER              ->
         SendSaveYourself([s EXCEPT !.current = type, !.allow = FALSE],
                          type, type # "local" /\ ask)

\* xsmp_cancel_end_session
CancelEndSessionOfClient(s) ==
  [Send(s, ShutdownCancelled) EXCEPT !.current = "none", !.next = "none",
                                     !.allow = FALSE, !.cancellable = FALSE]

\* What the manager tells the client (SessionManager's told): xsmp_query_end_session,
\* xsmp_end_session, xsmp_cancel_end_session and xsmp_stop
Hear(s, msg, forced, save) ==
  CASE msg = "query"  -> DoSaveYourself(s, "global", ~ forced)
    [] msg = "end"    -> DoSaveYourself(s, IF save THEN "both" ELSE "global", FALSE)
    [] msg = "cancel" -> CancelEndSessionOfClient(s)
    [] msg = "stop"   -> Send(s, Die)
    [] OTHER          -> s

\* Variant: no SaveComplete
CompleteSaveYourselfSilent(s) == [s EXCEPT !.current = "none"]

\* The two halves of save_yourself_done_callback, around the response to the
\* manager.  The second one is about next_save_yourself being true in C, which
\* -1 is and SmSaveGlobal, 0, is not.
CompleteSaveYourself(s) ==
  IF s.current # "none" THEN [Send(s, SaveComplete) EXCEPT !.current = "none"] ELSE s

\* Variant: the queued SaveYourself is forgotten
StartQueuedForgotten(s) == [s EXCEPT !.next = "none", !.allow = TRUE]

StartQueued(s) ==
  IF s.next = "global"
  THEN s
  ELSE DoSaveYourself([s EXCEPT !.next = "none", !.allow = TRUE], s.next, s.allow)

\* xsmp_interact: the second half of interact_request_callback
SendInteract(s) == [Send(s, Interact) EXCEPT !.interacting = TRUE]

\* The libSM of the manager takes these messages only in their place
TakesSaveYourselfDone(s) == s.saving
TakesInteractRequest(s) == s.askable
TakesInteractDone(s, cancel) == s.interacting /\ (cancel => s.cancellable)

\* ... and takes note of what they end
SaveYourselfEnded(s) == [s EXCEPT !.saving = FALSE, !.askable = FALSE]
InteractEnded(s, cancel) ==
  [s EXCEPT !.interacting = FALSE, !.cancellable = @ /\ ~ cancel]
=============================================================================
