---------------------------- MODULE XSMPSession ----------------------------
(***************************************************************************)
(* A session with an application X that uses EggSMClient: SessionManager,  *)
(* the manager's end of the connection (CsmXSMPClient), the application's  *)
(* end (EggSMClient) and the messages under way in both directions, in     *)
(* order.  The manager's other clients, its users and its timers are those *)
(* of SessionManager; X answers only by what its library sends.            *)
(*                                                                         *)
(* The session is running and X has registered when the model starts: with *)
(* a new id, so that the pointless initial SaveYourself is under way, or   *)
(* with that of its last session, so that it is not.  The lockdown setting *)
(* stays off: what it does is in SessionManager.                           *)
(***************************************************************************)
EXTENDS SessionManager, Sequences

CONSTANTS X,          \* the application, one of the XSMP clients
          MaxCancels  \* bound: cancelled ends of the session

ASSUME XSMPAssumption == X \in XSMPClients /\ MaxCancels \in Nat

VARIABLES
  server,  \* the manager's end of the connection to X
  egg,     \* the application's end
  app,     \* the application: working, asked to quit, has agreed, has quit
  cancels  \* how often X was told that the end is cancelled

Csm == INSTANCE CsmXSMPClient
Egg == INSTANCE EggSMClient

xsmpVars == <<vars, server, egg, app, cancels>>

XSMPInit ==
  /\ m = [NewManager EXCEPT !.phase = RUNNING, !.clients = {X}, !.registered = {X},
                            !.handlers[X] = 1, !.seen = {X}]
  /\ leaving = {}
  /\ lockdown = FALSE
  /\ bus = BusNames
  /\ peers = {X}
  /\ \E isNew \in BOOLEAN :
       /\ server = Csm!Registered(isNew)
       /\ egg = Egg!Started(isNew)
  /\ app = "working"
  /\ cancels = 0

-----------------------------------------------------------------------------
(* The manager *)

\* What the manager tells X within a handler goes through X's connection
Told(s) == IF m'.told[X] = m.told[X]
           THEN s
           ELSE Csm!Hear(s, m'.told[X], m'.mode = "force", AutoSave)

CountCancels ==
  /\ cancels' = IF m'.told[X] = "cancel" /\ m.told[X] # "cancel"
                THEN cancels + 1 ELSE cancels
  /\ cancels' <= MaxCancels

\* Any handler of the manager that has nothing to do with a message of X
ManagerStep ==
  /\ \/ StartupStep \/ UserStep \/ QueryTimeout \/ FatalSignal
     \/ \E c \in XSMPClients \ {X} : AcceptXSMPConnection(c) \/ XSMPClientGone(c)
     \/ \E c \in Clients \ {X}, isOk, doLast, cancel \in BOOLEAN :
          EndSessionResponse(c, isOk, doLast, cancel)
     \/ \E n \in BusNames : NameOwnerLost(n)
     \/ BusDisconnected
     \/ \E c \in DBusClients : DisconnectNext(c)
     \/ \E i \in Inhibitors : Inhibit(i) \/ Uninhibit(i)
  /\ server' = Told(server)
  /\ CountCancels
  /\ UNCHANGED <<egg, app>>

\* The next message of X, which libSM hands to a callback or refuses
Receives(message) ==
  /\ Idle
  /\ X \in peers
  /\ egg.out # <<>>
  /\ Head(egg.out) = message
  /\ egg' = [egg EXCEPT !.out = Tail(@)]
  /\ UNCHANGED app

Refuses == UNCHANGED <<vars, server, cancels>>

\* save_yourself_done_callback
SaveYourselfDoneReceived ==
  /\ Receives(Egg!SaveYourselfDone)
  /\ IF Csm!TakesSaveYourselfDone(server)
     THEN /\ EndSessionResponse(X, TRUE, FALSE, FALSE)
          /\ server' = Csm!StartQueued(
                         Told(Csm!CompleteSaveYourself(Csm!SaveYourselfEnded(server))))
          /\ CountCancels
     ELSE Refuses

\* interact_request_callback
InteractRequestReceived ==
  /\ Receives(Egg!InteractRequest)
  /\ IF Csm!TakesInteractRequest(server)
     THEN /\ EndSessionResponse(X, FALSE, FALSE, FALSE)
          /\ server' = Csm!SendInteract(Told(server))
          /\ CountCancels
     ELSE Refuses

\* interact_done_callback
InteractDoneReceived(cancel) ==
  /\ Receives(Egg!InteractDone(cancel))
  /\ IF Csm!TakesInteractDone(server, cancel)
     THEN /\ EndSessionResponse(X, TRUE, FALSE, cancel)
          /\ server' = Told(Csm!InteractEnded(server, cancel))
          /\ CountCancels
     ELSE Refuses

\* save_yourself_request_callback and on_xsmp_client_logout_request
SaveYourselfRequestReceived(fast, prompt) ==
  /\ Receives(Egg!SaveYourselfRequest(fast))
  /\ IF m.phase = RUNNING /\ ~ lockdown
     THEN /\ Logout(IF fast THEN "no-confirmation" ELSE "normal", prompt)
          /\ server' = Told(server)
          /\ CountCancels
     ELSE Refuses

\* The end of X's connection, after everything X had sent
ConnectionClosed ==
  /\ ~ egg.connected
  /\ egg.out = <<>>
  /\ XSMPClientGone(X)
  /\ CountCancels
  /\ UNCHANGED <<server, egg, app>>

ManagerReceives ==
  \/ SaveYourselfDoneReceived
  \/ InteractRequestReceived
  \/ \E cancel \in BOOLEAN : InteractDoneReceived(cancel)
  \/ \E fast, prompt \in BOOLEAN : SaveYourselfRequestReceived(fast, prompt)

-----------------------------------------------------------------------------
(* The application *)

\* The next message of the manager.  A call of egg_sm_client_end_session that
\* waits for it goes on afterwards.
Hears(message) ==
  /\ egg.connected
  /\ server.out # <<>>
  /\ Head(server.out) = message
  /\ server' = [server EXCEPT !.out = Tail(@)]
  /\ UNCHANGED <<vars, cancels>>

Cancelled(a) == IF a = "agreed" THEN "working" ELSE a

\* xsmp_save_yourself; libSM notes that a shutdown is in progress
SaveYourselfHeard(type, ask) ==
  /\ Hears(Csm!SaveYourself(type, ask))
  /\ egg' = Egg!EndSessionLoop(
              Egg!OnSaveYourself([egg EXCEPT !.shutdown = @ \/ type # "local"], type, ask))
  /\ UNCHANGED app

\* xsmp_interact, once for each InteractRequest
InteractHeard ==
  /\ Hears(Csm!Interact)
  /\ egg' = IF egg.waits = 0 THEN egg
            ELSE Egg!EndSessionLoop(Egg!OnInteract([egg EXCEPT !.waits = @ - 1]))
  /\ app' = IF egg.waits > 0 /\ Egg!Asks(egg) THEN "asked" ELSE app

\* xsmp_save_complete
SaveCompleteHeard ==
  /\ Hears(Csm!SaveComplete)
  /\ egg' = Egg!EndSessionLoop(Egg!OnSaveComplete(egg))
  /\ UNCHANGED app

\* xsmp_shutdown_cancelled, if a shutdown is in progress
ShutdownCancelledHeard ==
  /\ Hears(Csm!ShutdownCancelled)
  /\ egg' = IF egg.shutdown
            THEN Egg!EndSessionLoop(Egg!OnShutdownCancelled([egg EXCEPT !.shutdown = FALSE]))
            ELSE egg
  /\ app' = IF egg.shutdown /\ Egg!TellsCancelled(egg) THEN Cancelled(app) ELSE app

\* xsmp_die
DieHeard ==
  /\ Hears(Csm!Die)
  /\ egg' = Egg!EndSessionLoop(Egg!Disconnect(egg))
  /\ app' = "quit"

\* process_ice_messages after the manager is gone
ManagerLost ==
  /\ egg.connected
  /\ m.outcome # "running"
  /\ server.out = <<>>
  /\ egg' = Egg!EndSessionLoop(Egg!Disconnect(egg))
  /\ UNCHANGED <<vars, server, app, cancels>>

ApplicationReceives ==
  \/ \E type \in Csm!SaveTypes, ask \in BOOLEAN : SaveYourselfHeard(type, ask)
  \/ InteractHeard \/ SaveCompleteHeard \/ ShutdownCancelledHeard \/ DieHeard
  \/ ManagerLost

\* The main loop of the application runs, and not one within end_session
Free == app # "quit" /\ egg.ending = "no"

\* The source xsmp->idle is dispatched
IdleDispatched ==
  /\ Free
  /\ egg.idle
  /\ egg' = Egg!OnIdle(egg)
  /\ app' = CASE Egg!TellsQuit(egg)          -> "quit"
              [] Egg!TellsCancelledLate(egg) -> Cancelled(app)
              [] OTHER                       -> app
  /\ UNCHANGED <<vars, server, cancels>>

\* egg_sm_client_will_quit, when the user has told the application
ApplicationAnswers(answer) ==
  /\ Free
  /\ app = "asked"
  /\ egg' = Egg!WillQuit(egg, answer)
  /\ app' = IF answer THEN "agreed" ELSE "working"
  /\ UNCHANGED <<vars, server, cancels>>

\* egg_sm_client_end_session; one request under way is the bound
ApplicationEndsSession(fast) ==
  /\ Free
  /\ app = "working"
  /\ egg.connected
  /\ \A b \in BOOLEAN, k \in 1..Len(egg.out) : egg.out[k] # Egg!SaveYourselfRequest(b)
  /\ egg' = Egg!EndSessionLoop([egg EXCEPT !.ending = IF fast THEN "fast" ELSE "confirm"])
  /\ UNCHANGED <<vars, server, app, cancels>>

\* The application exits or crashes
ApplicationDies ==
  /\ egg.connected
  /\ egg' = Egg!Disconnect([egg EXCEPT !.ending = "no"])
  /\ app' = "quit"
  /\ UNCHANGED <<vars, server, cancels>>

ApplicationStep ==
  \/ IdleDispatched
  \/ \E answer \in BOOLEAN : ApplicationAnswers(answer)
  \/ \E fast \in BOOLEAN : ApplicationEndsSession(fast)
  \/ ApplicationDies

-----------------------------------------------------------------------------

XSMPNext == ManagerStep \/ ManagerReceives \/ ConnectionClosed
            \/ ApplicationReceives \/ ApplicationStep

XSMPSpec == XSMPInit /\ [][XSMPNext]_xsmpVars

\* Both main loops dispatch what has arrived and what they have put off;
\* nothing is assumed of users, of the application's answer or of timers.
XSMPFairness ==
  /\ WF_xsmpVars(leaving # {} /\ ManagerStep)
  /\ WF_xsmpVars(ManagerReceives)
  /\ WF_xsmpVars(ApplicationReceives)
  /\ WF_xsmpVars(IdleDispatched)

XSMPFairSpec == XSMPSpec /\ XSMPFairness

-----------------------------------------------------------------------------
(* Properties *)

\* No end was cancelled, and no query was queued behind another SaveYourself
\* (where it stays: see ConsentIsReal).
Undisturbed == cancels = 0 /\ server.next # "global"

\* The manager takes a SaveYourselfDone of X as its consent to the end
TakesConsent == /\ SaveYourselfDoneReceived
                /\ Csm!TakesSaveYourselfDone(server)
                /\ m.phase = QUERY_END_SESSION /\ m.mode # "force"
                /\ egg.connected

\* The client has a chance to tell the user about his data: nobody but the
\* application itself agrees to the end of the session on its behalf.
ConsentIsReal == [][TakesConsent => app = "agreed"]_xsmpVars

\* ... which holds undisturbed.
ConsentIsRealUndisturbed ==
  [][TakesConsent /\ Undisturbed => app = "agreed"]_xsmpVars

\* As long as no end is cancelled the library finds every message in a state in
\* which it expects it ("client or server error" otherwise): the manager sends
\* one SaveYourself at a time, through every order of timers and answers.
InStep ==
  cancels = 0 /\ egg.connected /\ server.out # <<>> =>
    CASE Head(server.out).msg = "SaveYourself" -> egg.state = "idle"
      [] Head(server.out).msg = "SaveComplete" -> egg.state = "save-yourself-done"
      [] Head(server.out).msg = "Interact"     -> egg.state = "interact-request"
      [] OTHER                                 -> TRUE

\* The manager never waits in vain for X: while it waits for an answer, a
\* SaveYourself is queued or under way, or the application or its answer is.
NotWaitingInVain ==
  Undisturbed /\ egg.connected /\ m.phase >= QUERY_END_SESSION /\ m.query[X] > 0 =>
       \/ server.next # "none"
       \/ \E k \in 1..Len(server.out) : server.out[k].msg = "SaveYourself"
       \/ egg.state \in {"interact-request", "interact"}
       \/ \E k \in 1..Len(egg.out) : egg.out[k].msg = "SaveYourselfDone"

\* egg_sm_client_end_session never blocks the application for good ("it
\* probably won't actually block anyway"), unless an end was cancelled.
EndSessionReturns ==
  (egg.ending # "no" /\ cancels = 0) ~> (egg.ending = "no" \/ cancels > 0)

\* An application that was asking the user while the end was cancelled is told
\* so once it has answered, and takes part in the next end.
CancellationIsTold ==
  (egg.state = "shutdown-cancelled" /\ app # "asked")
    ~> (egg.state # "shutdown-cancelled" \/ app = "quit")
=============================================================================
