--------------------------- MODULE SessionManager ---------------------------
(***************************************************************************)
(* CsmManager (cafe-session/csm-manager.c): the phases of a session, from  *)
(* csm_manager_start to the end of the main loop, with the clients, the    *)
(* inhibitors and the dialogs that take part in ending it.                 *)
(*                                                                         *)
(* The program is one GLib main loop: a handler runs to its end before the *)
(* next one starts, so an action is a whole handler.  Handlers call each   *)
(* other (end_phase starts the next phase, removing the last inhibitor     *)
(* answers the dialog, the answer ends the phase), so each C function is   *)
(* an operator from the manager's state to its next state, and an action   *)
(* applies the outermost one.  The operators stand in the order in which   *)
(* they are called, innermost first: a phase is only ever ended into a     *)
(* later one, so nothing is recursive.                                     *)
(*                                                                         *)
(* A definition called a variant is the next one with a mistake in it:     *)
(* what a property has to notice.  Nothing in the model uses it.           *)
(***************************************************************************)
EXTENDS Naturals

CONSTANTS DBusClients,      \* clients that register over D-Bus
          XSMPClients,      \* clients that connect over XSMP
          BusNames,         \* unique names of the connections to the session bus
          ClientBus,        \* the connection of each D-Bus client
          Inhibitors,       \* what a caller of Inhibit() may take: the cookies
          InhibitorBus,     \* the connection that asks for each inhibitor
          Flags,            \* the actions each inhibitor is about
          Apps,             \* autostarted applications
          AppPhase,         \* the phase each application starts in
          AutoSave,         \* the auto-save-session setting
          MaxRegistrations, \* bound: RegisterClient messages of one XSMP client
          MaxLast           \* bound: pending requests of one client to be last

Clients == DBusClients \cup XSMPClients

\* CsmManagerPhase; the manager compares phases by their order
STARTUP == 0
INITIALIZATION == 1
APPLICATION == 5
RUNNING == 6
QUERY_END_SESSION == 7
END_SESSION == 8
EXIT == 9

InhibitorFlags == {"logout", "switch-user", "suspend", "idle"}
LogoutModes == {"normal", "no-confirmation", "force"}
\* How the session ends; the variants of a reboot or a shutdown (with logind,
\* asking for a password at the end, through CDM) end it in the same way.
LogoutTypes == {"none", "logout", "reboot", "shutdown"}
\* The action of the inhibit dialog, "logout" standing for the three that end
\* the session and "suspend" for sleep and hibernate
InhibitDialogs == {"none", "logout", "suspend", "switch-user"}
LogoutDialogs == {"none", "logout", "shutdown"}
\* The last message a client was sent about the end of the session
Messages == {"none", "query", "end", "last", "cancel", "stop"}
\* Why the main loop ended, if it has
Outcomes == {"running", "quit", "signal", "assertion", "dangling"}

ASSUME ConstantsAssumption ==
  /\ DBusClients \cap XSMPClients = {}
  /\ ClientBus \in [DBusClients -> BusNames]
  /\ InhibitorBus \in [Inhibitors -> BusNames]
  /\ Flags \in [Inhibitors -> SUBSET InhibitorFlags]
  /\ AppPhase \in [Apps -> INITIALIZATION..APPLICATION]
  /\ AutoSave \in BOOLEAN
  /\ MaxRegistrations \in 1..2
  /\ MaxLast \in Nat

VARIABLES
  m,        \* CsmManagerPrivate and the objects it owns, a record
  leaving,  \* D-Bus clients a running remove_clients_for_connection has still
            \* to disconnect
  lockdown, \* the disable-log-out setting
  bus,      \* the connections alive on the session bus
  peers     \* XSMP clients with a live ICE connection

vars == <<m, leaving, lockdown, bus, peers>>

\* query_clients and next_query_clients are lists in which a client may occur
\* more than once: the number of its occurrences.
ClientBag == [Clients -> Nat]
NoClients == [c \in Clients |-> 0]
IsEmpty(bag) == \A c \in Clients : bag[c] = 0

Manager == [phase         : STARTUP..EXIT,
            mode          : LogoutModes,       \* logout_mode
            type          : LogoutTypes,       \* logout_type
            pending       : SUBSET Apps,       \* pending_apps
            query         : ClientBag,         \* query_clients
            next          : ClientBag,         \* next_query_clients
            phaseTimer    : BOOLEAN,           \* phase_timeout_id > 0
            queryTimer    : BOOLEAN,           \* query_timeout_id > 0
            inhibitDialog : InhibitDialogs,    \* inhibit_dialog and its action
            logoutDialog  : LogoutDialogs,     \* current_dialog of csm-logout-dialog.c
            clients       : SUBSET Clients,    \* the client store
            inhibitors    : SUBSET Inhibitors, \* the inhibitor store: Inhibit() ...
            jit           : SUBSET Clients,    \* ... and just-in-time ones, per client
            registered    : SUBSET Clients,    \* clients that have a startup id
            handlers      : [Clients -> 0..2], \* "disconnected" handlers connected
            seen          : SUBSET Clients,    \* clients the store has ever held
            told          : [Clients -> Messages],
            saved         : BOOLEAN,           \* csm_session_save was called
            quits         : Nat,               \* calls of csm_manager_quit
            outcome       : Outcomes]

-----------------------------------------------------------------------------
(* The two stores *)

LogoutInhibited(s) ==
  s.jit # {} \/ \E i \in s.inhibitors : "logout" \in Flags[i]

Inhibited(s, flag) == \E i \in s.inhibitors : flag \in Flags[i]

Tell(s, who, msg) ==
  [s EXCEPT !.told = [c \in Clients |-> IF c \in who THEN msg ELSE s.told[c]]]

-----------------------------------------------------------------------------
(* Ending and starting the phases, last phase first *)

\* The part of end_phase and of start_phase common to all phases
ClearPhase(s) ==
  [s EXCEPT !.pending = {}, !.query = NoClients, !.next = NoClients,
            !.phaseTimer = FALSE]

\* Variant: the phase is incremented by end_phase and by start_phase
StartPhaseTwice(s, p) ==
  [ClearPhase(s) EXCEPT !.phase = p + 1, !.queryTimer = FALSE]

StartPhase(s, p) ==
  [ClearPhase(s) EXCEPT !.phase = p, !.queryTimer = FALSE]

\* csm_manager_quit: the main loop ends once the handler returns; without a
\* logout type the switch ends in g_assert_not_reached.
Quit(s) ==
  [s EXCEPT !.quits = @ + 1,
            !.outcome = IF s.type = "none" THEN "assertion" ELSE "quit"]

EndExit(s) == Quit(ClearPhase(s))

\* Variant: the clients are not told to stop
StartExitSilent(s) == EndExit(StartPhase(s, EXIT))

StartExit(s) == EndExit(Tell(StartPhase(s, EXIT), s.clients, "stop"))

\* Variant: the session is not saved
EndEndSessionUnsaved(s) == StartExit(ClearPhase(s))

EndEndSession(s) ==
  StartExit([ClearPhase(s) EXCEPT !.saved = s.saved \/ AutoSave])

\* Variant: without the timer
StartEndSessionUntimed(s) ==
  [Tell(StartPhase(s, END_SESSION), s.clients, "end") EXCEPT
     !.query = [c \in Clients |-> IF c \in s.clients THEN 1 ELSE 0]]

StartEndSession(s) ==
  LET t == StartPhase(s, END_SESSION)
  IN  IF s.clients = {}
      THEN EndEndSession(t)
      ELSE [Tell(t, s.clients, "end") EXCEPT
              !.query = [c \in Clients |-> IF c \in s.clients THEN 1 ELSE 0],
              !.phaseTimer = TRUE]

EndQuery(s) == StartEndSession(ClearPhase(s))

StartQuery(s) ==
  [Tell(StartPhase(s, QUERY_END_SESSION), s.clients, "query") EXCEPT
     !.query = [c \in Clients |-> IF c \in s.clients THEN 1 ELSE 0],
     !.queryTimer = TRUE]

StartRunning(s) == StartPhase(s, RUNNING)

\* Variant: the clients are not asked
EndRunningUnasked(s) ==
  IF lockdown THEN ClearPhase(s) ELSE StartEndSession(ClearPhase(s))

EndRunning(s) ==
  IF lockdown THEN ClearPhase(s) ELSE StartQuery(ClearPhase(s))

\* A startup phase ends at once when none of its applications is left to wait
\* for, so the manager stops at the first phase, from p on, in which an
\* application is started; starts are the applications csm_app_start will
\* start, being neither disabled nor delayed nor failing to launch.
StartStartup(s, p, starts) ==
  LET waits == {q \in p..(APPLICATION - 1) : \E a \in starts : AppPhase[a] = q}
      first == CHOOSE q \in waits : \A r \in waits : q <= r
  IN  IF waits = {}
      THEN StartRunning(s)
      ELSE [StartPhase(s, first) EXCEPT
              !.pending = {a \in starts : AppPhase[a] = first},
              !.phaseTimer = TRUE]

EndStartup(s, starts) == StartStartup(ClearPhase(s), s.phase + 1, starts)

\* end_phase, once the session has started
EndPhase(s) ==
  CASE s.phase = RUNNING           -> EndRunning(s)
    [] s.phase = QUERY_END_SESSION -> EndQuery(s)
    [] s.phase = END_SESSION       -> EndEndSession(s)
    [] OTHER                       -> EndExit(s)

-----------------------------------------------------------------------------
(* The inhibit dialog, and what the clients answer *)

\* inhibit_dialog_response with ACCEPT: going on with the end of the session,
\* or suspending or switching users, which leaves the manager as it is
AcceptInhibitDialog(s) ==
  LET t == [s EXCEPT !.inhibitDialog = "none"]
  IN  IF s.inhibitDialog = "logout"
      THEN EndPhase([t EXCEPT !.mode = "force"])
      ELSE t

\* Variant: the dialog does not notice
RemoveInhibitorsUnnoticed(s, taken, jit) ==
  [s EXCEPT !.inhibitors = @ \ taken, !.jit = @ \ jit]

\* csm_store_remove and csm_store_foreach_remove on the inhibitors.  The open
\* dialog lists every inhibitor and accepts by itself, from the store's
\* "removed" signal, when its list gets empty.
RemoveInhibitors(s, taken, jit) ==
  LET t == [s EXCEPT !.inhibitors = @ \ taken, !.jit = @ \ jit]
  IN  IF /\ taken # {} \/ jit # {}
         /\ t.inhibitors = {} /\ t.jit = {}
         /\ t.inhibitDialog # "none"
      THEN AcceptInhibitDialog(t)
      ELSE t

\* Variant: a cancelled end only goes back to the phase before
CancelEndSessionForgetful(s) ==
  IF s.phase < QUERY_END_SESSION THEN s ELSE StartRunning(s)

\* cancel_end_session
CancelEndSession(s) ==
  IF s.phase < QUERY_END_SESSION
  THEN s
  ELSE StartRunning(Tell([s EXCEPT !.inhibitDialog = "none", !.jit = {},
                                   !.mode = "normal", !.type = "none"],
                         s.clients, "cancel"))

\* Variant: the inhibitors are not looked at
QueryCompleteUninhibited(s) == EndQuery([s EXCEPT !.queryTimer = FALSE])

\* query_end_session_complete: an inhibited logout asks the user, unless an
\* inhibit dialog is up already
QueryComplete(s) ==
  LET t == [s EXCEPT !.queryTimer = FALSE]
  IN  IF LogoutInhibited(s)
      THEN IF s.inhibitDialog = "none" THEN [t EXCEPT !.inhibitDialog = "logout"] ELSE t
      ELSE EndQuery(t)

\* do_phase_end_session_part_2.  The list holds pointers: one to a client that
\* has left the store is a pointer to freed memory, and using it ends what the
\* model says about the program.
EndSessionPart2(s) ==
  LET last == {c \in Clients : s.next[c] > 0}
  IN  IF last \subseteq s.clients
      THEN [Tell(s, last, "last") EXCEPT !.query = s.next, !.next = NoClients]
      ELSE [s EXCEPT !.outcome = "dangling"]

\* The end of _handle_client_end_session_response
AfterResponse(s, c, doLast) ==
  CASE s.phase = QUERY_END_SESSION ->
         IF IsEmpty(s.query) THEN QueryComplete(s) ELSE s
    [] s.phase = END_SESSION ->
         LET t == IF doLast THEN [s EXCEPT !.next[c] = @ + 1] ELSE s
         IN  IF ~ IsEmpty(t.query) \/ LogoutInhibited(t)
             THEN t
             ELSE IF IsEmpty(t.next) THEN EndEndSession(t) ELSE EndSessionPart2(t)
    [] OTHER -> s

\* _handle_client_end_session_response
HandleEndSessionResponse(s, c, isOk, doLast, cancel) ==
  LET answered == [s EXCEPT !.query[c] = IF @ > 0 THEN @ - 1 ELSE 0]
  IN  CASE s.phase < QUERY_END_SESSION -> s
        [] s.phase >= QUERY_END_SESSION /\ cancel -> CancelEndSession(s)
        [] OTHER ->
             AfterResponse(IF ~ isOk /\ s.mode # "force"
                           THEN [answered EXCEPT !.jit = @ \cup {c}]
                           ELSE RemoveInhibitors(answered, {}, s.jit \cap {c}),
                           c, doLast)

\* Variants: leaving is not an answer; the inhibitors stay
DisconnectClientUnanswered(s, c) == RemoveInhibitors(s, {}, s.jit \cap {c})

DisconnectClientInhibiting(s, c) ==
  IF s.phase = QUERY_END_SESSION
  THEN HandleEndSessionResponse(s, c, TRUE, FALSE, FALSE)
  ELSE s

\* _disconnect_client: in the query phase leaving is an answer.  (Restarting
\* the client's application is up to the application: see the README.)
DisconnectClient(s, c) ==
  LET t == RemoveInhibitors(s, {}, s.jit \cap {c})
  IN  IF t.phase = QUERY_END_SESSION
      THEN HandleEndSessionResponse(t, c, TRUE, FALSE, FALSE)
      ELSE t

\* The end of on_client_disconnected and of remove_clients_for_connection:
\* without clients there is nobody to wait for
EndIfLastClientLeft(s) ==
  IF s.phase >= QUERY_END_SESSION /\ s.clients = {} THEN EndPhase(s) ELSE s

RemoveClient(s, c) == [s EXCEPT !.clients = @ \ {c}]

\* on_client_disconnected, called once per handler connected
OnClientDisconnected(s, c) ==
  EndIfLastClientLeft(RemoveClient(DisconnectClient(s, c), c))

\* app_registered
AppRegistered(s, a, starts) ==
  LET t == [s EXCEPT !.pending = @ \ {a}]
  IN  CASE a \notin s.pending -> s      \* its handler is not connected
        [] a \in s.pending /\ t.pending # {} -> t
        [] OTHER -> EndStartup([t EXCEPT !.phaseTimer = FALSE], starts)

\* Variant: the type of the logout is not set
RequestEndUntyped(s, type) == EndPhase(s)

\* request_logout, and request_shutdown and request_reboot once the
\* privileges are settled, which takes no return to the main loop
RequestEnd(s, type) == EndPhase([s EXCEPT !.type = type])
RequestLogout(s, mode) == RequestEnd([s EXCEPT !.mode = mode], "logout")

\* request_suspend, request_hibernate and request_switch_user
RequestInhibitable(s, action) ==
  IF Inhibited(s, action) /\ s.inhibitDialog = "none"
  THEN [s EXCEPT !.inhibitDialog = action]
  ELSE s

\* show_logout_dialog and show_shutdown_dialog
ShowLogoutDialog(s, dialog) ==
  IF s.phase >= QUERY_END_SESSION
  THEN s
  ELSE [s EXCEPT !.mode = "normal", !.logoutDialog = dialog]

-----------------------------------------------------------------------------
(* The initial state: the manager is constructed, the main loop not entered *)

NewManager ==
  [phase |-> STARTUP, mode |-> "normal", type |-> "none",
   pending |-> {}, query |-> NoClients, next |-> NoClients,
   phaseTimer |-> FALSE, queryTimer |-> FALSE,
   inhibitDialog |-> "none", logoutDialog |-> "none",
   clients |-> {}, inhibitors |-> {}, jit |-> {}, registered |-> {},
   handlers |-> NoClients, seen |-> {},
   told |-> [c \in Clients |-> "none"],
   saved |-> FALSE, quits |-> 0, outcome |-> "running"]

Init ==
  /\ m = NewManager
  /\ leaving = {}
  /\ lockdown \in BOOLEAN
  /\ bus = BusNames
  /\ peers = {}

-----------------------------------------------------------------------------
(* The handlers *)

\* The main loop runs, and no handler is halfway
Idle == m.phase # STARTUP /\ m.outcome = "running" /\ leaving = {}

\* csm_manager_start, called by main before it enters the main loop
Start(starts) ==
  /\ m.phase = STARTUP
  /\ m' = StartStartup(m, INITIALIZATION, starts)
  /\ UNCHANGED <<leaving, lockdown, bus, peers>>

\* An application the phase waits for exits before it registered
AppExited(a, starts) ==
  /\ Idle
  /\ a \in m.pending
  /\ m' = AppRegistered(m, a, starts)
  /\ UNCHANGED <<leaving, lockdown, bus, peers>>

\* Variant: the timer runs out, and that is all
PhaseTimeoutIgnored(starts) ==
  /\ Idle
  /\ m.phaseTimer
  /\ m' = [m EXCEPT !.phaseTimer = FALSE]
  /\ UNCHANGED <<leaving, lockdown, bus, peers>>

\* on_phase_timeout
PhaseTimeout(starts) ==
  /\ Idle
  /\ m.phaseTimer
  /\ LET s == [m EXCEPT !.phaseTimer = FALSE]
     IN  m' = IF s.phase < RUNNING THEN EndStartup(s, starts) ELSE EndPhase(s)
  /\ UNCHANGED <<leaving, lockdown, bus, peers>>

\* Variant: likewise
QueryTimeoutIgnored ==
  /\ Idle
  /\ m.queryTimer
  /\ m' = [m EXCEPT !.queryTimer = FALSE]
  /\ UNCHANGED <<leaving, lockdown, bus, peers>>

\* _on_query_end_session_timeout
QueryTimeout ==
  /\ Idle
  /\ m.queryTimer
  /\ LET silent == {c \in Clients : m.query[c] > 0}
     IN  m' = QueryComplete(
                [m EXCEPT !.queryTimer = FALSE, !.query = NoClients,
                          !.jit = IF m.mode = "force" THEN @ ELSE @ \cup silent])
  /\ UNCHANGED <<leaving, lockdown, bus, peers>>

\* RegisterClient(): a new client, perhaps of application a, for which the
\* manager may be waiting; its startup id is nobody else's
RegisterClient(c, owner, starts) ==
  /\ Idle
  /\ m.phase < QUERY_END_SESSION
  /\ c \in DBusClients \ m.seen
  /\ ClientBus[c] \in bus
  /\ LET s == [m EXCEPT !.clients = @ \cup {c}, !.registered = @ \cup {c},
                        !.seen = @ \cup {c}]
     IN  m' = IF owner \in Apps THEN AppRegistered(s, owner, starts) ELSE s
  /\ UNCHANGED <<leaving, lockdown, bus, peers>>

\* accept_xsmp_connection: the client enters the store before it registers
AcceptXSMPConnection(c) ==
  /\ Idle
  /\ c \in XSMPClients \ m.seen
  /\ m' = [m EXCEPT !.clients = @ \cup {c}, !.seen = @ \cup {c}]
  /\ peers' = peers \cup {c}
  /\ UNCHANGED <<leaving, lockdown, bus>>

\* register_client_callback and on_xsmp_client_register_request, before the
\* shutdown.  The id the client gives is that of its application (owner), none
\* ("new"), or one no application has ("unknown"): then it is turned down, with
\* the "disconnected" handler connected, and may register again.
\* (An id in use, and any in shutdown, is turned down before that.)
RegisterXSMPClient(c, owner, starts) ==
  /\ Idle
  /\ m.phase < QUERY_END_SESSION
  /\ c \in (XSMPClients \cap m.clients \cap peers) \ m.registered
  /\ m.handlers[c] < MaxRegistrations
  /\ owner \in Apps /\ m.phase < APPLICATION => owner \in m.pending
  /\ LET s == [m EXCEPT !.handlers[c] = @ + 1]
         r == [s EXCEPT !.registered = @ \cup {c}]
     IN  m' = CASE owner \in Apps -> AppRegistered(r, owner, starts)
                [] owner = "new"  -> r
                [] OTHER          -> s
  /\ UNCHANGED <<leaving, lockdown, bus, peers>>

\* "end-session-response" of a client: EndSessionResponse() over D-Bus;
\* SaveYourselfDone, SaveYourselfPhase2Request, InteractRequest and
\* InteractDone over XSMP, of which only the last two can be turned down.
EndSessionResponse(c, isOk, doLast, cancel) ==
  /\ Idle
  /\ c \in m.registered \cap m.clients
  /\ \/ c \in DBusClients /\ ClientBus[c] \in bus /\ ~ doLast /\ ~ cancel
     \/ c \in XSMPClients /\ c \in peers
        /\ <<isOk, doLast, cancel>> \in {<<TRUE, FALSE, FALSE>>,
              <<TRUE, TRUE, FALSE>>, <<FALSE, FALSE, FALSE>>, <<TRUE, FALSE, TRUE>>}
  /\ doLast => m.next[c] < MaxLast
  /\ m' = HandleEndSessionResponse(m, c, isOk, doLast, cancel)
  /\ UNCHANGED <<leaving, lockdown, bus, peers>>

\* An XSMP client closes its connection or dies: close_connection_callback and
\* client_iochannel_watch emit "disconnected", on_client_disconnected runs once
\* per handler.  A client that never asked to register has none, and stays in
\* the store.
XSMPClientGone(c) ==
  /\ Idle
  /\ c \in peers
  /\ peers' = peers \ {c}
  /\ m' = CASE m.handlers[c] = 0 -> m
            [] m.handlers[c] = 1 -> OnClientDisconnected(m, c)
            [] OTHER -> OnClientDisconnected(OnClientDisconnected(m, c), c)
  /\ UNCHANGED <<leaving, lockdown, bus>>

\* bus_name_owner_changed for a connection that leaves the bus: first its
\* inhibitors, the just-in-time ones of its clients with them, then its clients
NameOwnerLost(n) ==
  /\ Idle
  /\ n \in bus
  /\ bus' = bus \ {n}
  /\ LET gone == {c \in DBusClients \cap m.clients : ClientBus[c] = n}
         s == RemoveInhibitors(m, {i \in m.inhibitors : InhibitorBus[i] = n},
                {c \in m.jit \cap DBusClients : ClientBus[c] = n})
     IN  /\ leaving' = gone
         /\ m' = IF gone = {} THEN EndIfLastClientLeft(s) ELSE s
  /\ UNCHANGED <<lockdown, peers>>

\* csm_manager_bus_filter: the session bus itself is gone, with all D-Bus clients
BusDisconnected ==
  /\ Idle
  /\ bus # {}
  /\ bus' = {}
  /\ leaving' = DBusClients \cap m.clients
  /\ m' = IF leaving' = {} THEN EndIfLastClientLeft(m) ELSE m
  /\ UNCHANGED <<lockdown, peers>>

\* One turn of the loop of remove_clients_for_connection, in the order of a
\* hash table; no other handler runs before the last turn.
DisconnectNext(c) ==
  /\ c \in leaving
  /\ leaving' = leaving \ {c}
  /\ LET s == RemoveClient(DisconnectClient(m, c), c)
     IN  m' = IF leaving' = {} THEN EndIfLastClientLeft(s) ELSE s
  /\ UNCHANGED <<lockdown, bus, peers>>

\* Inhibit() and Uninhibit()
Inhibit(i) ==
  /\ Idle
  /\ m.mode # "force"
  /\ i \in Inhibitors \ m.inhibitors
  /\ InhibitorBus[i] \in bus
  /\ Flags[i] # {}
  /\ m' = [m EXCEPT !.inhibitors = @ \cup {i}]
  /\ UNCHANGED <<leaving, lockdown, bus, peers>>

Uninhibit(i) ==
  /\ Idle
  /\ i \in m.inhibitors
  /\ InhibitorBus[i] \in bus
  /\ m' = RemoveInhibitors(m, {i}, {})
  /\ UNCHANGED <<leaving, lockdown, bus, peers>>

\* csm_manager_logout and user_logout: Logout() over D-Bus, a client's
\* SaveYourselfRequest over XSMP, SIGTERM and SIGINT ("force"); prompt is the
\* logout-prompt setting
Logout(mode, prompt) ==
  /\ Idle
  /\ m.phase = RUNNING
  /\ ~ lockdown
  /\ m' = IF mode = "normal" /\ prompt
          THEN ShowLogoutDialog(m, "logout")
          ELSE RequestLogout(m, mode)
  /\ UNCHANGED <<leaving, lockdown, bus, peers>>

\* csm_manager_shutdown
Shutdown ==
  /\ Idle
  /\ m.phase = RUNNING
  /\ ~ lockdown
  /\ m' = ShowLogoutDialog(m, "shutdown")
  /\ UNCHANGED <<leaving, lockdown, bus, peers>>

\* csm_manager_request_shutdown and csm_manager_request_reboot, which do not
\* look at the lockdown themselves
RequestShutdownOrReboot(type) ==
  /\ Idle
  /\ m.phase = RUNNING
  /\ bus # {}
  /\ m' = RequestEnd(m, type)
  /\ UNCHANGED <<leaving, lockdown, bus, peers>>

\* logout_dialog_response, from the user or when the countdown of the dialog
\* runs out ("logout" and "shutdown").  It asserts the mode it was shown in.
LogoutDialogResponse(answer) ==
  /\ Idle
  /\ answer \in CASE m.logoutDialog = "logout" -> {"cancel", "switch-user", "logout"}
                  [] m.logoutDialog = "shutdown" ->
                       {"cancel", "suspend", "reboot", "shutdown"}
                  [] OTHER -> {}
  /\ LET s == [m EXCEPT !.logoutDialog = "none"]
     IN  m' = CASE m.mode # "normal" -> [m EXCEPT !.outcome = "assertion"]
                [] m.mode = "normal" /\ answer = "cancel" -> s
                [] m.mode = "normal" /\ answer \in {"suspend", "switch-user"} ->
                     RequestInhibitable(s, answer)
                [] m.mode = "normal" /\ answer = "logout" ->
                     RequestLogout(s, "no-confirmation")
                [] OTHER -> RequestEnd(s, answer)
  /\ UNCHANGED <<leaving, lockdown, bus, peers>>

\* inhibit_dialog_response, from the user
InhibitDialogResponse(accept) ==
  /\ Idle
  /\ m.inhibitDialog # "none"
  /\ m' = LET s == [m EXCEPT !.inhibitDialog = "none"]
          IN  CASE accept -> AcceptInhibitDialog(m)
                [] ~ accept /\ m.inhibitDialog = "logout" -> CancelEndSession(s)
                [] OTHER -> s
  /\ UNCHANGED <<leaving, lockdown, bus, peers>>

\* shutdown_cb of main.c, after a fatal signal
FatalSignal ==
  /\ Idle
  /\ m' = [m EXCEPT !.phase = EXIT, !.outcome = "signal"]
  /\ UNCHANGED <<leaving, lockdown, bus, peers>>

\* The administrator changes the setting
SetLockdown ==
  /\ m.outcome = "running"
  /\ leaving = {}
  /\ lockdown' = ~ lockdown
  /\ UNCHANGED <<m, leaving, bus, peers>>

-----------------------------------------------------------------------------

\* The steps that look for applications to start
StartupStep ==
  \E starts \in SUBSET Apps :
    \/ Start(starts)
    \/ PhaseTimeout(starts)
    \/ \E a \in Apps : AppExited(a, starts)
    \/ \E c \in DBusClients, owner \in Apps \cup {"none"} :
         RegisterClient(c, owner, starts)
    \/ \E c \in XSMPClients, owner \in Apps \cup {"new", "unknown"} :
         RegisterXSMPClient(c, owner, starts)

ClientStep ==
  \/ \E c \in XSMPClients : AcceptXSMPConnection(c) \/ XSMPClientGone(c)
  \/ \E c \in Clients, isOk, doLast, cancel \in BOOLEAN :
       EndSessionResponse(c, isOk, doLast, cancel)
  \/ \E n \in BusNames : NameOwnerLost(n)
  \/ BusDisconnected
  \/ \E c \in DBusClients : DisconnectNext(c)
  \/ \E i \in Inhibitors : Inhibit(i) \/ Uninhibit(i)

UserStep ==
  \/ \E mode \in LogoutModes, prompt \in BOOLEAN : Logout(mode, prompt)
  \/ Shutdown
  \/ \E type \in {"reboot", "shutdown"} : RequestShutdownOrReboot(type)
  \/ \E answer \in {"cancel", "switch-user", "logout", "suspend", "reboot",
                    "shutdown"} : LogoutDialogResponse(answer)
  \/ \E accept \in BOOLEAN : InhibitDialogResponse(accept)

Next == StartupStep \/ ClientStep \/ UserStep \/ QueryTimeout \/ FatalSignal
        \/ SetLockdown

Spec == Init /\ [][Next]_vars

\* A GLib timer whose time has come is dispatched, and a loop of a handler runs
\* on; nothing is assumed of clients, applications and users.
Fairness ==
  /\ WF_vars(\E starts \in SUBSET Apps : Start(starts) \/ PhaseTimeout(starts))
  /\ WF_vars(QueryTimeout)
  /\ WF_vars(\E c \in DBusClients : DisconnectNext(c))

FairSpec == Spec /\ Fairness

=============================================================================
