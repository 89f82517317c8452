---------------------- MODULE SessionManagerProperties ----------------------
(***************************************************************************)
(* What CsmManager promises, and, at the end, what its documentation says  *)
(* of it that its code does not do.                                        *)
(***************************************************************************)
EXTENDS SessionManager

\* The type invariant: the fields of CsmManagerPrivate and the environment hold
\* values of their types.
TypeOK ==
  /\ m \in Manager
  /\ leaving \subseteq DBusClients
  /\ lockdown \in BOOLEAN
  /\ bus \subseteq BusNames
  /\ peers \subseteq XSMPClients

-----------------------------------------------------------------------------
(* Safety *)

\* A startup phase is open only while an application is awaited and the timer
\* that gives up on it runs, so that the startup can never hang: the timer and
\* the list are set and cleared by app_registered, on_phase_timeout, end_phase
\* and start_phase in turn.
StartupWaits ==
  m.phase \in INITIALIZATION..APPLICATION =>
    /\ m.phaseTimer
    /\ m.pending # {}
    /\ \A a \in m.pending : AppPhase[a] = m.phase

\* A running session carries nothing over from a startup or from a logout that
\* was cancelled: no timer that would end a phase, no list of clients to wait
\* for, no just-in-time inhibitor, no dialog about an end of the session.
RunningIsQuiet ==
  m.phase \in INITIALIZATION..RUNNING =>
    /\ m.phase = RUNNING => ~ m.phaseTimer /\ m.pending = {}
    /\ ~ m.queryTimer
    /\ IsEmpty(m.query) /\ IsEmpty(m.next)
    /\ m.jit = {}
    /\ m.inhibitDialog # "logout"

\* No client of a running session is left in the state it took for the end of
\* the session ("limit operations"): whoever was asked or told to end and is
\* still there was told that the end is cancelled.
CancelReachesEveryClient ==
  m.phase <= RUNNING =>
    \A c \in m.clients : m.told[c] \in {"none", "cancel"}

\* The forced mode, in which Inhibit() is refused, never outlives the shutdown
\* it belongs to.
ForceEndsWithShutdown == m.mode = "force" => m.phase >= QUERY_END_SESSION

\* When the session is ending it is known how: csm_manager_quit never falls
\* through to its g_assert_not_reached.
EndIsChosen ==
  m.phase >= QUERY_END_SESSION /\ m.outcome # "signal" => m.type # "none"

\* The clients the query waits for are in the store, however they leave: the
\* query timeout uses the pointers to the silent ones.
QueriedClientsExist ==
  m.phase = QUERY_END_SESSION =>
    \A c \in Clients : m.query[c] > 0 => c \in m.clients

\* A just-in-time inhibitor belongs to a client still in the store: a client
\* that is gone does not block the logout.
JitInhibitorsOwned == m.jit \subseteq m.clients

\* The inhibit dialog is never up with nothing to list: it answers by itself
\* when the last inhibitor goes, whichever handler removes it.
DialogHasInhibitors ==
  m.inhibitDialog # "none" => m.inhibitors \cup m.jit # {}

\* The last phase but one always ends: while clients are told to end, the phase
\* timer runs, through both of its parts.
EndSessionIsTimed ==
  m.phase = END_SESSION /\ m.outcome = "running" => m.phaseTimer

\* The session is saved when it ends and not before: with auto-save the session
\* is saved in every end but a crash, and a cancelled end leaves nothing saved.
SavedWhenEnded == m.saved <=> AutoSave /\ m.quits > 0

\* When the manager quits, every client it still has was told to stop.
StoppedAtQuit ==
  m.outcome = "quit" => \A c \in m.clients : m.told[c] = "stop"

\* A D-Bus client is told to end the session only after it was asked, told to
\* be last only after it was told to end, and told of a cancellation only when
\* there is something to cancel.  (An XSMP client may connect in the middle.)
MessagesInOrder ==
  [][\A c \in DBusClients : m'.told[c] # m.told[c] =>
       m.told[c] \in CASE m'.told[c] = "query"  -> {"none", "cancel"}
                       [] m'.told[c] = "end"    -> {"query"}
                       [] m'.told[c] = "last"   -> {"end"}
                       [] m'.told[c] = "cancel" -> {"query", "end", "last"}
                       [] OTHER                 -> {"end", "last"}]_vars

\* With clients to ask, and no logout dialog open, the query ends against an
\* inhibitor of the logout only in the forced mode, which the user chose in the
\* inhibit dialog or the caller asked for.
InhibitedLogoutWaits ==
  [][/\ m.phase = QUERY_END_SESSION
     /\ m'.phase > QUERY_END_SESSION
     /\ m'.outcome # "signal"
     /\ LogoutInhibited(m')
     /\ m'.clients # {}
     /\ m.logoutDialog = "none"
     => m'.mode = "force"]_vars

-----------------------------------------------------------------------------
(* Liveness, under FairSpec *)

\* The session comes up, whatever its applications do.
StartupCompletes == m.phase < RUNNING ~> m.phase >= RUNNING

\* Once clients are told to end, the session ends or the end is cancelled,
\* whatever the clients do.
EndSessionCompletes ==
  m.phase = END_SESSION ~> m.phase # END_SESSION \/ m.outcome # "running"

\* A client that is asked is told in the end, or else a dialog waits for the user:
\* "The client should limit operations until either a EndSession CancelEndSession
\* signal is received" (org.gnome.SessionManager.ClientPrivate.xml:77-80).  It is
\* more than the code does (query_end_session_complete, csm-manager.c:1398): a
\* query that completes while the dialog of a suspend or a user switch is up has
\* neither a timer nor a client to end it, and that dialog's answer does not.
QueryResolves ==
  m.phase = QUERY_END_SESSION ~>
    \/ m.phase # QUERY_END_SESSION
    \/ m.outcome # "running"
    \/ m.inhibitDialog # "none"

\* What is left of it: the query ends, by its timer, an answer or a departure, in
\* every session in which no dialog of a suspend or a user switch is up during a
\* query (do_phase_query_end_session, query_end_session_complete).
QueryResolvesUndisturbed ==
  [](m.phase = QUERY_END_SESSION => m.inhibitDialog \notin {"suspend", "switch-user"})
    => QueryResolves

-----------------------------------------------------------------------------
(* What the repository says, and the code does not do *)

\* csm_client_end_session checks g_return_val_if_fail (CSM_IS_CLIENT (client))
\* (csm-client.c:544): it is called for clients that exist.
EndSessionForClients == m.outcome # "dangling"
=============================================================================
