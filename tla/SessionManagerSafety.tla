------------------------ MODULE SessionManagerSafety ------------------------
(***************************************************************************)
(* The type correctness of SessionManager, and the safety invariants of    *)
(* SessionManagerProperties, proved for any number of clients,             *)
(* connections, inhibitors and applications.                               *)
(*                                                                         *)
(* For the types there is a lemma for each operator that takes the manager *)
(* from state to state within a handler, in the order of their             *)
(* definitions, and a step for each action.                                *)
(*                                                                         *)
(* The invariants are not inductive one by one.  That just-in-time         *)
(* inhibitors have owners rests on whom the query waits for; that the      *)
(* startup timer runs on the quiet of the startup phases; that an end of   *)
(* the session has a type on the phases in which the dialogs are up.       *)
(* Consistent is their common strengthening, a predicate on the record m.  *)
(* There is a lemma for each operator that m passes through within a       *)
(* handler; most need only parts of Consistent, for a handler breaks the   *)
(* others on its way.                                                      *)
(***************************************************************************)
EXTENDS SessionManagerProperties, TLAPS

-----------------------------------------------------------------------------
(* The types *)

\* Forgetting whom a phase waits for gives a state.
LEMMA ClearPhaseType ==
  ASSUME NEW s \in Manager
  PROVE  ClearPhase(s) \in Manager
BY DEF ClearPhase, Manager, NoClients, ClientBag

\* start_phase gives a state, for any phase there is.
LEMMA StartPhaseType ==
  ASSUME NEW s \in Manager, NEW p \in STARTUP..EXIT
  PROVE  StartPhase(s, p) \in Manager
BY ClearPhaseType DEF StartPhase, Manager

\* A message to any clients leaves the rest of the state alone.
LEMMA TellType ==
  ASSUME NEW s \in Manager, NEW who, NEW msg \in Messages
  PROVE  Tell(s, who, msg) \in Manager
BY DEF Tell, Manager

\* csm_manager_quit counts on, and ends the main loop in one way or the other.
LEMMA QuitType ==
  ASSUME NEW s \in Manager
  PROVE  Quit(s) \in Manager
<1> DEFINE o == IF s.type = "none" THEN "assertion" ELSE "quit"
<1>1. o \in Outcomes
  BY DEF Outcomes
<1>2. s.quits + 1 \in Nat
  BY DEF Manager
<1>3. [s EXCEPT !.quits = s.quits + 1, !.outcome = o] \in Manager
  <2> HIDE DEF o
  <2> QED BY <1>1, <1>2 DEF Manager
<1> QED BY <1>3 DEF Quit

\* The last phase ends in a state ...
LEMMA EndExitType ==
  ASSUME NEW s \in Manager
  PROVE  EndExit(s) \in Manager
BY ClearPhaseType, QuitType DEF EndExit

\* ... and so does do_phase_exit, which ends it at once, ...
LEMMA StartExitType ==
  ASSUME NEW s \in Manager
  PROVE  StartExit(s) \in Manager
<1>1. Tell(StartPhase(s, EXIT), s.clients, "stop") \in Manager
  BY StartPhaseType, TellType DEF STARTUP, EXIT, Messages
<1> QED BY <1>1, EndExitType DEF StartExit

\* ... the end of the phase before, which saves the session, ...
LEMMA EndEndSessionType ==
  ASSUME NEW s \in Manager
  PROVE  EndEndSession(s) \in Manager
<1> DEFINE v == s.saved \/ AutoSave
<1>1. v \in BOOLEAN
  OBVIOUS
<1>2. [ClearPhase(s) EXCEPT !.saved = v] \in Manager
  <2> HIDE DEF v
  <2> QED BY <1>1, ClearPhaseType DEF Manager
<1> QED BY <1>2, StartExitType DEF EndEndSession

\* ... do_phase_end_session, with and without clients, ...
LEMMA StartEndSessionType ==
  ASSUME NEW s \in Manager
  PROVE  StartEndSession(s) \in Manager
<1> DEFINE t == StartPhase(s, END_SESSION)
           q == [c \in Clients |-> IF c \in s.clients THEN 1 ELSE 0]
<1>1. t \in Manager
  BY StartPhaseType DEF STARTUP, EXIT, END_SESSION
<1>2. CASE s.clients = {}
  BY <1>1, <1>2, EndEndSessionType DEF StartEndSession
<1>3. CASE s.clients # {}
  <2>1. q \in ClientBag
    BY DEF ClientBag
  <2>2. Tell(t, s.clients, "end") \in Manager
    BY <1>1, TellType DEF Messages
  <2>3. [Tell(t, s.clients, "end") EXCEPT !.query = q, !.phaseTimer = TRUE] \in Manager
    <3> HIDE DEF q
    <3> QED BY <2>1, <2>2 DEF Manager
  <2> QED BY <1>3, <2>3 DEF StartEndSession
<1> QED BY <1>2, <1>3

\* ... and the end of the query.
LEMMA EndQueryType ==
  ASSUME NEW s \in Manager
  PROVE  EndQuery(s) \in Manager
BY ClearPhaseType, StartEndSessionType DEF EndQuery

\* do_phase_query_end_session gives a state: each client is listed once.
LEMMA StartQueryType ==
  ASSUME NEW s \in Manager
  PROVE  StartQuery(s) \in Manager
<1> DEFINE t == Tell(StartPhase(s, QUERY_END_SESSION), s.clients, "query")
           q == [c \in Clients |-> IF c \in s.clients THEN 1 ELSE 0]
<1>1. q \in ClientBag
  BY DEF ClientBag
<1>2. t \in Manager
  BY StartPhaseType, TellType DEF STARTUP, EXIT, QUERY_END_SESSION, Messages
<1>3. [t EXCEPT !.query = q, !.queryTimer = TRUE] \in Manager
  <2> HIDE DEF q, t
  <2> QED BY <1>1, <1>2 DEF Manager
<1> QED BY <1>3 DEF StartQuery

\* The session may run from any state.
LEMMA StartRunningType ==
  ASSUME NEW s \in Manager
  PROVE  StartRunning(s) \in Manager
BY StartPhaseType DEF StartRunning, STARTUP, EXIT, RUNNING

\* The end of a running session is a query, or nothing under lockdown.
LEMMA EndRunningType ==
  ASSUME NEW s \in Manager
  PROVE  EndRunning(s) \in Manager
BY ClearPhaseType, StartQueryType DEF EndRunning

\* The first of the startup phases in which an application is awaited
LEMMA FirstPhase ==
  ASSUME NEW waits \in SUBSET (1..4), waits # {},
         NEW first, first = CHOOSE q \in waits : \A r \in waits : q <= r
  PROVE  first \in waits
<1>1. \E q \in waits : \A r \in waits : q <= r
  <2>1. CASE 1 \in waits
    BY <2>1
  <2>2. CASE 1 \notin waits /\ 2 \in waits
    BY <2>2
  <2>3. CASE 1 \notin waits /\ 2 \notin waits /\ 3 \in waits
    BY <2>3
  <2>4. CASE 1 \notin waits /\ 2 \notin waits /\ 3 \notin waits
    <3>1. PICK q \in waits : TRUE
      OBVIOUS
    <3>2. \A r \in waits : r = 4
      BY <2>4
    <3> QED BY <3>1, <3>2
  <2> QED BY <2>1, <2>2, <2>3, <2>4
<1> QED BY <1>1

\* The startup stops at a phase of its own, or goes on to the running session.
LEMMA StartStartupType ==
  ASSUME NEW s \in Manager, NEW p \in Nat \ {0}, NEW starts \in SUBSET Apps
  PROVE  StartStartup(s, p, starts) \in Manager
<1> DEFINE waits == {q \in p..(APPLICATION - 1) : \E a \in starts : AppPhase[a] = q}
           first == CHOOSE q \in waits : \A r \in waits : q <= r
           awaited == {a \in starts : AppPhase[a] = first}
<1>1. CASE waits = {}
  BY <1>1, StartRunningType DEF StartStartup
<1>2. CASE waits # {}
  <2>1. waits \in SUBSET (1..4)
    BY DEF APPLICATION
  <2>2. first \in waits
    BY <1>2, <2>1, FirstPhase
  <2>3. first \in STARTUP..EXIT
    BY <2>1, <2>2 DEF STARTUP, EXIT
  <2>4. awaited \in SUBSET Apps
    OBVIOUS
  <2>5. StartPhase(s, first) \in Manager
    BY <2>3, StartPhaseType
  <2>6. [StartPhase(s, first) EXCEPT !.pending = awaited, !.phaseTimer = TRUE] \in Manager
    <3> HIDE DEF waits, first, awaited
    <3> QED BY <2>4, <2>5 DEF Manager
  <2> QED BY <1>2, <2>6 DEF StartStartup
<1> QED BY <1>1, <1>2

\* Ending a startup phase gives a state.
LEMMA EndStartupType ==
  ASSUME NEW s \in Manager, NEW starts \in SUBSET Apps
  PROVE  EndStartup(s, starts) \in Manager
<1>1. s.phase + 1 \in Nat \ {0}
  BY DEF Manager, STARTUP, EXIT
<1> QED BY <1>1, ClearPhaseType, StartStartupType DEF EndStartup

\* end_phase gives a state, in whichever phase it is called.
LEMMA EndPhaseType ==
  ASSUME NEW s \in Manager
  PROVE  EndPhase(s) \in Manager
BY EndRunningType, EndQueryType, EndEndSessionType, EndExitType
   DEF EndPhase, RUNNING, QUERY_END_SESSION, END_SESSION

\* Accepting the inhibit dialog gives a state.
LEMMA AcceptInhibitDialogType ==
  ASSUME NEW s \in Manager
  PROVE  AcceptInhibitDialog(s) \in Manager
<1> DEFINE t == [s EXCEPT !.inhibitDialog = "none"]
<1>1. t \in Manager /\ [t EXCEPT !.mode = "force"] \in Manager
  BY DEF Manager, InhibitDialogs, LogoutModes
<1> QED BY <1>1, EndPhaseType DEF AcceptInhibitDialog

\* Removing inhibitors gives a state, with or without a dialog that answers.
LEMMA RemoveInhibitorsType ==
  ASSUME NEW s \in Manager, NEW taken, NEW jit
  PROVE  RemoveInhibitors(s, taken, jit) \in Manager
<1> DEFINE t == [s EXCEPT !.inhibitors = s.inhibitors \ taken, !.jit = s.jit \ jit]
<1>1. t \in Manager
  BY DEF Manager
<1>2. AcceptInhibitDialog(t) \in Manager
  BY <1>1, AcceptInhibitDialogType
<1> QED
  <2> HIDE DEF t
  <2>1. RemoveInhibitors(s, taken, jit) \in {t, AcceptInhibitDialog(t)}
    BY DEF RemoveInhibitors, t
  <2> QED BY <1>1, <1>2, <2>1

\* cancel_end_session gives a state.
LEMMA CancelEndSessionType ==
  ASSUME NEW s \in Manager
  PROVE  CancelEndSession(s) \in Manager
<1> DEFINE t == [s EXCEPT !.inhibitDialog = "none", !.jit = {},
                          !.mode = "normal", !.type = "none"]
<1>1. t \in Manager
  BY DEF Manager, InhibitDialogs, LogoutModes, LogoutTypes
<1>2. StartRunning(Tell(t, s.clients, "cancel")) \in Manager
  BY <1>1, TellType, StartRunningType DEF Messages
<1> QED BY <1>2 DEF CancelEndSession

\* query_end_session_complete gives a state.
LEMMA QueryCompleteType ==
  ASSUME NEW s \in Manager
  PROVE  QueryComplete(s) \in Manager
<1> DEFINE t == [s EXCEPT !.queryTimer = FALSE]
<1>1. t \in Manager /\ [t EXCEPT !.inhibitDialog = "logout"] \in Manager
  BY DEF Manager, InhibitDialogs
<1> QED BY <1>1, EndQueryType DEF QueryComplete

\* do_phase_end_session_part_2 gives a state, the pointers being good or not.
LEMMA EndSessionPart2Type ==
  ASSUME NEW s \in Manager
  PROVE  EndSessionPart2(s) \in Manager
<1> DEFINE last == {c \in Clients : s.next[c] > 0}
           t == Tell(s, last, "last")
<1>1. t \in Manager
  BY TellType DEF Messages
<1>2. s.next \in ClientBag /\ NoClients \in ClientBag
  BY DEF Manager, ClientBag, NoClients
<1>3. [t EXCEPT !.query = s.next, !.next = NoClients] \in Manager
  <2> HIDE DEF t
  <2> QED BY <1>1, <1>2 DEF Manager
<1>4. [s EXCEPT !.outcome = "dangling"] \in Manager
  BY DEF Manager, Outcomes
<1> QED BY <1>3, <1>4 DEF EndSessionPart2

\* A count of a bag of clients may be changed to any natural number
LEMMA BagUpdate ==
  ASSUME NEW bag \in ClientBag, NEW c \in Clients, NEW n \in Nat
  PROVE  [bag EXCEPT ![c] = n] \in ClientBag
BY DEF ClientBag

\* The end of an answer gives a state.
LEMMA AfterResponseType ==
  ASSUME NEW s \in Manager, NEW c \in Clients, NEW doLast \in BOOLEAN
  PROVE  AfterResponse(s, c, doLast) \in Manager
<1> DEFINE added == [s.next EXCEPT ![c] = s.next[c] + 1]
           t == IF doLast THEN [s EXCEPT !.next = added] ELSE s
<1>1. s.next \in ClientBag /\ s.next[c] \in Nat
  BY DEF Manager, ClientBag
<1>2. added \in ClientBag
  BY <1>1, BagUpdate
<1>3. [s EXCEPT !.next = added] \in Manager
  <2> HIDE DEF added
  <2> QED BY <1>2 DEF Manager
<1>4. t \in Manager
  BY <1>3
<1>5. AfterResponse(s, c, doLast) \in {s, QueryComplete(s), t, EndSessionPart2(t), EndEndSession(t)}
  BY DEF AfterResponse, QUERY_END_SESSION, END_SESSION
<1> QED
  <2> HIDE DEF t
  <2> QED BY <1>4, <1>5, QueryCompleteType, EndSessionPart2Type, EndEndSessionType

\* _handle_client_end_session_response gives a state for every answer.
LEMMA HandleEndSessionResponseType ==
  ASSUME NEW s \in Manager, NEW c \in Clients, NEW isOk \in BOOLEAN,
         NEW doLast \in BOOLEAN, NEW cancel \in BOOLEAN
  PROVE  HandleEndSessionResponse(s, c, isOk, doLast, cancel) \in Manager
<1> DEFINE n == IF s.query[c] > 0 THEN s.query[c] - 1 ELSE 0
           q == [s.query EXCEPT ![c] = n]
           answered == [s EXCEPT !.query = q]
           refused == [answered EXCEPT !.jit = answered.jit \cup {c}]
           removed == RemoveInhibitors(answered, {}, s.jit \cap {c})
<1>1. s.query \in ClientBag /\ n \in Nat
  BY DEF Manager, ClientBag
<1>2. q \in ClientBag
  BY <1>1, BagUpdate
<1>3. answered \in Manager
  <2> HIDE DEF q
  <2> QED BY <1>2 DEF Manager
<1>4. refused \in Manager
  <2> HIDE DEF answered
  <2> QED BY <1>3 DEF Manager
<1>5. removed \in Manager
  BY <1>3, RemoveInhibitorsType
<1>6. HandleEndSessionResponse(s, c, isOk, doLast, cancel)
        \in {s, CancelEndSession(s), AfterResponse(refused, c, doLast),
             AfterResponse(removed, c, doLast)}
  BY DEF HandleEndSessionResponse
<1> QED
  <2> HIDE DEF refused, removed
  <2> QED BY <1>4, <1>5, <1>6, CancelEndSessionType, AfterResponseType

\* _disconnect_client gives a state.
LEMMA DisconnectClientType ==
  ASSUME NEW s \in Manager, NEW c \in Clients
  PROVE  DisconnectClient(s, c) \in Manager
BY RemoveInhibitorsType, HandleEndSessionResponseType DEF DisconnectClient

\* Removing a client from the store gives a state.
LEMMA RemoveClientType ==
  ASSUME NEW s \in Manager, NEW c \in Clients
  PROVE  RemoveClient(s, c) \in Manager
BY DEF RemoveClient, Manager

\* Ending the phase for want of clients gives a state.
LEMMA EndIfLastClientLeftType ==
  ASSUME NEW s \in Manager
  PROVE  EndIfLastClientLeft(s) \in Manager
BY EndPhaseType DEF EndIfLastClientLeft

\* on_client_disconnected gives a state, however often it is called.
LEMMA OnClientDisconnectedType ==
  ASSUME NEW s \in Manager, NEW c \in Clients
  PROVE  OnClientDisconnected(s, c) \in Manager
BY DisconnectClientType, RemoveClientType, EndIfLastClientLeftType
   DEF OnClientDisconnected

\* app_registered gives a state.
LEMMA AppRegisteredType ==
  ASSUME NEW s \in Manager, NEW a \in Apps, NEW starts \in SUBSET Apps
  PROVE  AppRegistered(s, a, starts) \in Manager
<1> DEFINE t == [s EXCEPT !.pending = s.pending \ {a}]
           u == [t EXCEPT !.phaseTimer = FALSE]
<1>1. t \in Manager /\ u \in Manager
  BY DEF Manager
<1>2. AppRegistered(s, a, starts) \in {s, t, EndStartup(u, starts)}
  BY DEF AppRegistered
<1> QED
  <2> HIDE DEF t, u
  <2> QED BY <1>1, <1>2, EndStartupType

\* Asking for an end of the session gives a state.
LEMMA RequestEndType ==
  ASSUME NEW s \in Manager, NEW type \in LogoutTypes
  PROVE  RequestEnd(s, type) \in Manager
<1>1. [s EXCEPT !.type = type] \in Manager
  BY DEF Manager
<1> QED BY <1>1, EndPhaseType DEF RequestEnd

\* request_logout gives a state, in every mode.
LEMMA RequestLogoutType ==
  ASSUME NEW s \in Manager, NEW mode \in LogoutModes
  PROVE  RequestLogout(s, mode) \in Manager
<1>1. [s EXCEPT !.mode = mode] \in Manager
  BY DEF Manager
<1> QED BY <1>1, RequestEndType DEF RequestLogout, LogoutTypes

\* Asking for a suspend or a switch of the user gives a state.
LEMMA RequestInhibitableType ==
  ASSUME NEW s \in Manager, NEW action \in InhibitDialogs
  PROVE  RequestInhibitable(s, action) \in Manager
BY DEF RequestInhibitable, Manager

\* Showing a logout dialog gives a state.
LEMMA ShowLogoutDialogType ==
  ASSUME NEW s \in Manager, NEW dialog \in LogoutDialogs
  PROVE  ShowLogoutDialog(s, dialog) \in Manager
BY DEF ShowLogoutDialog, Manager, LogoutModes
-----------------------------------------------------------------------------
(* Type correctness *)

\* The constructed manager is a state.
LEMMA InitType == Init => TypeOK
<1> SUFFICES ASSUME Init PROVE TypeOK
  OBVIOUS
<1>1. NoClients \in ClientBag /\ NoClients \in [Clients -> 0..2]
      /\ [c \in Clients |-> "none"] \in [Clients -> Messages]
  BY DEF NoClients, ClientBag, Messages
<1>2. m \in Manager
  <2> DEFINE none == [c \in Clients |-> "none"]
  <2>1. none \in [Clients -> Messages]
    BY <1>1
  <2> HIDE DEF none
  <2> QED BY <1>1, <2>1 DEF Init, NewManager, none, Manager, STARTUP, EXIT, LogoutModes, LogoutTypes,
             InhibitDialogs, LogoutDialogs, Outcomes
<1> QED BY <1>2 DEF Init, TypeOK

\* Every action leaves the manager's state in its type.
LEMMA NextType == TypeOK /\ [Next]_vars => TypeOK'
<1> SUFFICES ASSUME TypeOK, [Next]_vars PROVE TypeOK'
  OBVIOUS
<1>m. m \in Manager
  BY DEF TypeOK
<1>1. ASSUME NEW starts \in SUBSET Apps, Start(starts) PROVE TypeOK'
  <2>1. m' \in Manager
    BY <1>1, <1>m, StartStartupType DEF Start, INITIALIZATION
  <2> QED BY <1>1, <2>1 DEF Start, TypeOK
<1>2. ASSUME NEW starts \in SUBSET Apps, NEW a \in Apps, AppExited(a, starts) PROVE TypeOK'
  <2>1. m' \in Manager
    BY <1>2, <1>m, AppRegisteredType DEF AppExited
  <2> QED BY <1>2, <2>1 DEF AppExited, TypeOK
<1>3. ASSUME NEW starts \in SUBSET Apps, PhaseTimeout(starts) PROVE TypeOK'
  <2> DEFINE s == [m EXCEPT !.phaseTimer = FALSE]
  <2>1. s \in Manager
    BY <1>m DEF Manager
  <2>2. m' \in {EndStartup(s, starts), EndPhase(s)}
    BY <1>3 DEF PhaseTimeout
  <2>3. m' \in Manager
    <3> HIDE DEF s
    <3> QED BY <2>1, <2>2, EndStartupType, EndPhaseType
  <2> QED BY <1>3, <2>3 DEF PhaseTimeout, TypeOK
<1>4. ASSUME NEW starts \in SUBSET Apps, NEW c \in DBusClients,
             NEW owner \in Apps \cup {"none"}, RegisterClient(c, owner, starts)
      PROVE  TypeOK'
  <2> DEFINE s == [m EXCEPT !.clients = m.clients \cup {c},
                            !.registered = m.registered \cup {c},
                            !.seen = m.seen \cup {c}]
  <2>1. s \in Manager
    BY <1>m DEF Manager, Clients
  <2>2. m' = IF owner \in Apps THEN AppRegistered(s, owner, starts) ELSE s
    BY <1>4 DEF RegisterClient
  <2>3. m' \in Manager
    <3> HIDE DEF s
    <3> QED BY <2>1, <2>2, AppRegisteredType
  <2> QED BY <1>4, <2>3 DEF RegisterClient, TypeOK
<1>5. ASSUME NEW starts \in SUBSET Apps, NEW c \in XSMPClients,
             NEW owner \in Apps \cup {"new", "unknown"}, RegisterXSMPClient(c, owner, starts)
      PROVE  TypeOK'
  <2> DEFINE h == [m.handlers EXCEPT ![c] = m.handlers[c] + 1]
             s == [m EXCEPT !.handlers = h]
             r == [s EXCEPT !.registered = s.registered \cup {c}]
  <2>1. m.handlers[c] + 1 \in 0..2
    BY <1>5, <1>m, ConstantsAssumption DEF RegisterXSMPClient, Manager, Clients
  <2>2. h \in [Clients -> 0..2]
    BY <2>1, <1>m DEF Manager, Clients
  <2>3. s \in Manager
    <3> HIDE DEF h
    <3> QED BY <2>2, <1>m DEF Manager
  <2>4. r \in Manager
    <3> HIDE DEF s
    <3> QED BY <2>3 DEF Manager, Clients
  <2>5. \/ m' \in {r, s}
        \/ owner \in Apps /\ m' = AppRegistered(r, owner, starts)
    BY <1>5 DEF RegisterXSMPClient
  <2>6. m' \in Manager
    <3> HIDE DEF r, s
    <3> QED BY <2>3, <2>4, <2>5, AppRegisteredType
  <2> QED BY <1>5, <2>6 DEF RegisterXSMPClient, TypeOK
<1>6. ASSUME NEW c \in XSMPClients, AcceptXSMPConnection(c) PROVE TypeOK'
  <2>1. m' \in Manager
    BY <1>6, <1>m DEF AcceptXSMPConnection, Manager, Clients
  <2> QED BY <1>6, <2>1 DEF AcceptXSMPConnection, TypeOK
<1>7. ASSUME NEW c \in XSMPClients, XSMPClientGone(c) PROVE TypeOK'
  <2>1. m' \in {m, OnClientDisconnected(m, c), OnClientDisconnected(OnClientDisconnected(m, c), c)}
    BY <1>7 DEF XSMPClientGone
  <2>2. m' \in Manager
    BY <2>1, <1>m, OnClientDisconnectedType DEF Clients
  <2> QED BY <1>7, <2>2 DEF XSMPClientGone, TypeOK
<1>8. ASSUME NEW c \in Clients, NEW isOk \in BOOLEAN, NEW doLast \in BOOLEAN,
             NEW cancel \in BOOLEAN, EndSessionResponse(c, isOk, doLast, cancel)
      PROVE  TypeOK'
  <2>1. m' \in Manager
    BY <1>8, <1>m, HandleEndSessionResponseType DEF EndSessionResponse
  <2> QED BY <1>8, <2>1 DEF EndSessionResponse, TypeOK
<1>9. ASSUME NEW n \in BusNames, NameOwnerLost(n) PROVE TypeOK'
  <2> DEFINE gone == {c \in DBusClients \cap m.clients : ClientBus[c] = n}
             s == RemoveInhibitors(m, {i \in m.inhibitors : InhibitorBus[i] = n},
                    {c \in m.jit \cap DBusClients : ClientBus[c] = n})
  <2>1. s \in Manager
    BY <1>m, RemoveInhibitorsType
  <2>2. m' \in {s, EndIfLastClientLeft(s)} /\ leaving' = gone
    BY <1>9 DEF NameOwnerLost
  <2>3. m' \in Manager
    <3> HIDE DEF s
    <3> QED BY <2>1, <2>2, EndIfLastClientLeftType
  <2> QED BY <1>9, <2>2, <2>3 DEF NameOwnerLost, TypeOK
<1>10. ASSUME BusDisconnected PROVE TypeOK'
  <2>1. m' \in {m, EndIfLastClientLeft(m)}
    BY <1>10 DEF BusDisconnected
  <2>2. m' \in Manager
    BY <2>1, <1>m, EndIfLastClientLeftType
  <2> QED BY <1>10, <2>2 DEF BusDisconnected, TypeOK
<1>11. ASSUME NEW c \in DBusClients, DisconnectNext(c) PROVE TypeOK'
  <2> DEFINE s == RemoveClient(DisconnectClient(m, c), c)
  <2>1. s \in Manager
    BY <1>m, DisconnectClientType, RemoveClientType DEF Clients
  <2>2. m' \in {s, EndIfLastClientLeft(s)}
    BY <1>11 DEF DisconnectNext
  <2>3. m' \in Manager
    <3> HIDE DEF s
    <3> QED BY <2>1, <2>2, EndIfLastClientLeftType
  <2> QED BY <1>11, <2>3 DEF DisconnectNext, TypeOK
<1>12. ASSUME NEW i \in Inhibitors, Inhibit(i) PROVE TypeOK'
  <2>1. m' \in Manager
    BY <1>12, <1>m DEF Inhibit, Manager
  <2> QED BY <1>12, <2>1 DEF Inhibit, TypeOK
<1>13. ASSUME NEW i \in Inhibitors, Uninhibit(i) PROVE TypeOK'
  <2>1. m' \in Manager
    BY <1>13, <1>m, RemoveInhibitorsType DEF Uninhibit
  <2> QED BY <1>13, <2>1 DEF Uninhibit, TypeOK
<1>14. ASSUME NEW mode \in LogoutModes, NEW prompt \in BOOLEAN, Logout(mode, prompt)
       PROVE  TypeOK'
  <2>1. m' \in Manager
    BY <1>14, <1>m, ShowLogoutDialogType, RequestLogoutType DEF Logout, LogoutDialogs
  <2> QED BY <1>14, <2>1 DEF Logout, TypeOK
<1>15. ASSUME Shutdown PROVE TypeOK'
  <2>1. m' \in Manager
    BY <1>15, <1>m, ShowLogoutDialogType DEF Shutdown, LogoutDialogs
  <2> QED BY <1>15, <2>1 DEF Shutdown, TypeOK
<1>16. ASSUME NEW type \in {"reboot", "shutdown"}, RequestShutdownOrReboot(type)
       PROVE  TypeOK'
  <2>1. m' \in Manager
    BY <1>16, <1>m, RequestEndType DEF RequestShutdownOrReboot, LogoutTypes
  <2> QED BY <1>16, <2>1 DEF RequestShutdownOrReboot, TypeOK
<1>17. ASSUME NEW answer \in {"cancel", "switch-user", "logout", "suspend", "reboot",
                              "shutdown"}, LogoutDialogResponse(answer)
       PROVE  TypeOK'
  <2> DEFINE s == [m EXCEPT !.logoutDialog = "none"]
             f == [m EXCEPT !.outcome = "assertion"]
  <2>1. s \in Manager /\ f \in Manager
    BY <1>m DEF Manager, LogoutDialogs, Outcomes
  <2>2. \/ m' \in {s, f}
        \/ answer \in {"suspend", "switch-user"} /\ m' = RequestInhibitable(s, answer)
        \/ m' = RequestLogout(s, "no-confirmation")
        \/ answer \in {"reboot", "shutdown"} /\ m' = RequestEnd(s, answer)
    BY <1>17 DEF LogoutDialogResponse
  <2>3. m' \in Manager
    <3> HIDE DEF s, f
    <3> QED BY <2>1, <2>2, RequestInhibitableType, RequestLogoutType, RequestEndType
            DEF InhibitDialogs, LogoutModes, LogoutTypes
  <2> QED BY <1>17, <2>3 DEF LogoutDialogResponse, TypeOK
<1>18. ASSUME NEW accept \in BOOLEAN, InhibitDialogResponse(accept) PROVE TypeOK'
  <2> DEFINE s == [m EXCEPT !.inhibitDialog = "none"]
  <2>1. s \in Manager
    BY <1>m DEF Manager, InhibitDialogs
  <2>2. m' \in {s, AcceptInhibitDialog(m), CancelEndSession(s)}
    BY <1>18 DEF InhibitDialogResponse
  <2>3. m' \in Manager
    <3> HIDE DEF s
    <3> QED BY <1>m, <2>1, <2>2, AcceptInhibitDialogType, CancelEndSessionType
  <2> QED BY <1>18, <2>3 DEF InhibitDialogResponse, TypeOK
<1>19. ASSUME QueryTimeout PROVE TypeOK'
  <2> DEFINE silent == {c \in Clients : m.query[c] > 0}
             j == IF m.mode = "force" THEN m.jit ELSE m.jit \cup silent
             s == [m EXCEPT !.queryTimer = FALSE, !.query = NoClients, !.jit = j]
  <2>1. j \in SUBSET Clients /\ NoClients \in ClientBag
    BY <1>m DEF Manager, NoClients, ClientBag
  <2>2. s \in Manager
    <3> HIDE DEF j
    <3> QED BY <1>m, <2>1 DEF Manager
  <2>3. m' \in Manager
    BY <1>19, <2>2, QueryCompleteType DEF QueryTimeout
  <2> QED BY <1>19, <2>3 DEF QueryTimeout, TypeOK
<1>20. ASSUME FatalSignal PROVE TypeOK'
  <2>1. EXIT \in STARTUP..EXIT /\ "signal" \in Outcomes
    BY DEF STARTUP, EXIT, Outcomes
  <2>2. [m EXCEPT !.phase = EXIT, !.outcome = "signal"] \in Manager
    BY <1>m, <2>1 DEF Manager
  <2>3. m' \in Manager
    BY <1>20, <2>2 DEF FatalSignal
  <2> QED BY <1>20, <2>3 DEF FatalSignal, TypeOK
<1>21. ASSUME SetLockdown PROVE TypeOK'
  BY <1>21, <1>m DEF SetLockdown, TypeOK
<1>22. ASSUME UNCHANGED vars PROVE TypeOK'
  BY <1>22 DEF vars, TypeOK
<1> QED
  BY <1>1, <1>2, <1>3, <1>4, <1>5, <1>6, <1>7, <1>8, <1>9, <1>10, <1>11, <1>12, <1>13,
     <1>14, <1>15, <1>16, <1>17, <1>18, <1>19, <1>20, <1>21, <1>22
  DEF Next, StartupStep, ClientStep, UserStep

\* The manager and its environment only ever hold values of their types,
\* whichever clients, applications and inhibitors there are.
THEOREM TypeCorrect == Spec => []TypeOK
<1> QED BY InitType, NextType, PTL DEF Spec

-----------------------------------------------------------------------------
(* The invariants *)

\* What holds at every point of a handler
Core(s) ==
  /\ s.clients \subseteq s.seen
  /\ \A c \in Clients \ s.seen : s.told[c] = "none"
  /\ s.jit \subseteq s.clients
  /\ s.inhibitDialog # "none" => s.inhibitors \cup s.jit # {}

\* Nothing is left of an end of the session
Quiet(s) ==
  /\ ~ s.queryTimer
  /\ s.query = NoClients /\ s.next = NoClients
  /\ s.jit = {}
  /\ s.inhibitDialog # "logout"
  /\ s.mode # "force"
  /\ \A c \in s.clients : s.told[c] \in {"none", "cancel"}

\* A startup phase has something to wait for.
Waits(s) ==
  /\ s.phaseTimer
  /\ s.pending # {}
  /\ \A a \in s.pending : AppPhase[a] = s.phase

\* What depends on the phase
Phased(s) ==
  /\ s.phase # STARTUP /\ s.phase < RUNNING => Waits(s)
  /\ s.phase < RUNNING => s.logoutDialog = "none"
  /\ s.phase <= RUNNING => Quiet(s)
  /\ s.phase >= RUNNING => s.pending = {}
  /\ s.phase = RUNNING => ~ s.phaseTimer
  /\ s.phase >= QUERY_END_SESSION => s.type # "none"
  /\ s.phase = QUERY_END_SESSION =>
       \A c \in Clients : s.query[c] \in {0, 1} /\ (s.query[c] = 1 => c \in s.clients)
  /\ s.phase = END_SESSION => ~ s.queryTimer /\ (s.phaseTimer \/ s.outcome # "running")
  /\ s.phase = EXIT => s.outcome # "running"

Consistent(s) == Core(s) /\ Phased(s)

\* After a fatal signal nothing more is asked of the phase the manager was in.
SafetyInvariant ==
  \/ Consistent(m)
  \/ Core(m) /\ m.phase = EXIT /\ m.outcome = "signal" /\ leaving = {}

-----------------------------------------------------------------------------
(* The phases *)

\* What the phases leave alone of the parts of Core
LEMMA StartPhaseKeeps ==
  ASSUME NEW s \in Manager, NEW p \in STARTUP..EXIT
  PROVE  LET t == StartPhase(s, p)
         IN  /\ t \in Manager
             /\ t.phase = p /\ t.pending = {} /\ t.query = NoClients /\ t.next = NoClients
             /\ ~ t.phaseTimer /\ ~ t.queryTimer
             /\ t.clients = s.clients /\ t.seen = s.seen /\ t.told = s.told
             /\ t.jit = s.jit /\ t.inhibitors = s.inhibitors
             /\ t.inhibitDialog = s.inhibitDialog /\ t.mode = s.mode /\ t.type = s.type
             /\ t.logoutDialog = s.logoutDialog
BY StartPhaseType DEF StartPhase, ClearPhase, Manager

\* What forgetting whom a phase waits for leaves alone
LEMMA ClearPhaseKeeps ==
  ASSUME NEW s \in Manager
  PROVE  LET t == ClearPhase(s)
         IN  /\ t \in Manager
             /\ t.phase = s.phase /\ t.pending = {} /\ t.query = NoClients
             /\ t.next = NoClients /\ ~ t.phaseTimer /\ t.queryTimer = s.queryTimer
             /\ t.clients = s.clients /\ t.seen = s.seen /\ t.told = s.told
             /\ t.jit = s.jit /\ t.inhibitors = s.inhibitors
             /\ t.inhibitDialog = s.inhibitDialog /\ t.mode = s.mode /\ t.type = s.type
             /\ t.logoutDialog = s.logoutDialog
BY ClearPhaseType DEF ClearPhase, Manager

\* What a message leaves alone
LEMMA TellKeeps ==
  ASSUME NEW s \in Manager, NEW who \in SUBSET Clients, NEW msg \in Messages
  PROVE  LET t == Tell(s, who, msg)
         IN  /\ t \in Manager
             /\ t.phase = s.phase /\ t.pending = s.pending /\ t.query = s.query
             /\ t.next = s.next /\ t.phaseTimer = s.phaseTimer
             /\ t.queryTimer = s.queryTimer
             /\ t.clients = s.clients /\ t.seen = s.seen
             /\ t.jit = s.jit /\ t.inhibitors = s.inhibitors
             /\ t.inhibitDialog = s.inhibitDialog /\ t.mode = s.mode /\ t.type = s.type
             /\ t.outcome = s.outcome
BY TellType DEF Tell, Manager

\* Whom it tells
LEMMA TellTold ==
  ASSUME NEW s \in Manager, NEW who \in SUBSET Clients, NEW msg \in Messages,
         NEW c \in Clients
  PROVE  Tell(s, who, msg).told[c] = IF c \in who THEN msg ELSE s.told[c]
BY DEF Tell, Manager

\* Telling the clients in the store something is harmless.
LEMMA TellCore ==
  ASSUME NEW s \in Manager, Core(s), NEW who \in SUBSET s.clients, NEW msg \in Messages
  PROVE  Core(Tell(s, who, msg))
<1>1. who \in SUBSET Clients
  BY DEF Manager
<1>2. \A c \in Clients \ s.seen : Tell(s, who, msg).told[c] = s.told[c]
  BY <1>1, TellTold DEF Core
<1> QED BY <1>1, <1>2, TellKeeps DEF Core

\* The session runs on when nothing is left of its end.
LEMMA StartRunningSafe ==
  ASSUME NEW s \in Manager, Core(s), s.jit = {}, s.inhibitDialog # "logout",
         s.mode # "force", \A c \in s.clients : s.told[c] \in {"none", "cancel"}
  PROVE  Consistent(StartRunning(s))
<1> DEFINE t == StartPhase(s, RUNNING)
<1>1. RUNNING \in STARTUP..EXIT
  BY DEF RUNNING, STARTUP, EXIT
<1>2. Core(t)
  BY <1>1, StartPhaseKeeps DEF Core
<1>3. Phased(t)
  BY <1>1, StartPhaseKeeps
     DEF Phased, Quiet, Waits, RUNNING, QUERY_END_SESSION, END_SESSION, EXIT
<1> QED BY <1>2, <1>3 DEF StartRunning, Consistent

\* The last phase ends the main loop.
LEMMA EndExitSafe ==
  ASSUME NEW s \in Manager, Core(s), s.phase = EXIT, s.type # "none"
  PROVE  Consistent(EndExit(s))
<1> DEFINE t == ClearPhase(s)
           o == IF t.type = "none" THEN "assertion" ELSE "quit"
           u == [t EXCEPT !.quits = t.quits + 1, !.outcome = o]
<1>1. EndExit(s) = u
  BY DEF EndExit, Quit
<1>2. /\ u.phase = EXIT /\ u.pending = {} /\ u.type # "none" /\ u.outcome # "running"
      /\ u.clients = s.clients /\ u.seen = s.seen /\ u.told = s.told /\ u.jit = s.jit
      /\ u.inhibitors = s.inhibitors /\ u.inhibitDialog = s.inhibitDialog
  BY ClearPhaseKeeps DEF Manager
<1>3. Core(u)
  BY <1>2 DEF Core
<1>4. Phased(u)
  BY <1>2 DEF Phased, EXIT, RUNNING, QUERY_END_SESSION, END_SESSION
<1> QED BY <1>1, <1>3, <1>4 DEF Consistent

\* The clients are told to stop and the main loop ends.
LEMMA StartExitSafe ==
  ASSUME NEW s \in Manager, Core(s), s.type # "none"
  PROVE  Consistent(StartExit(s))
<1> DEFINE t == StartPhase(s, EXIT)
           u == Tell(t, s.clients, "stop")
<1>1. EXIT \in STARTUP..EXIT /\ "stop" \in Messages
  BY DEF STARTUP, EXIT, Messages
<1>2. t \in Manager /\ Core(t)
  BY <1>1, StartPhaseKeeps DEF Core
<1>3. t.clients = s.clients /\ t.clients \in SUBSET Clients /\ t.type = s.type /\ t.phase = EXIT
  BY <1>1, StartPhaseKeeps DEF Manager
<1>4. s.clients \in SUBSET t.clients /\ s.clients \in SUBSET Clients
  BY <1>3
<1>5. u \in Manager /\ u.phase = EXIT /\ u.type # "none"
  <2> HIDE DEF t
  <2> QED BY <1>1, <1>2, <1>3, <1>4, TellKeeps
<1>6. Core(u)
  <2> HIDE DEF t
  <2> QED BY <1>1, <1>2, <1>4, TellCore
<1> QED BY <1>5, <1>6, EndExitSafe DEF StartExit

\* The session is saved and exits.
LEMMA EndEndSessionSafe ==
  ASSUME NEW s \in Manager, Core(s), s.type # "none"
  PROVE  Consistent(EndEndSession(s))
<1> DEFINE v == s.saved \/ AutoSave
           t == ClearPhase(s)
           u == [t EXCEPT !.saved = v]
<1>1. t \in Manager /\ Core(t) /\ t.type # "none"
  BY ClearPhaseKeeps DEF Core
<1>2. u \in Manager /\ Core(u) /\ u.type # "none"
  <2>1. v \in BOOLEAN
    OBVIOUS
  <2> HIDE DEF v, t
  <2> QED BY <1>1, <2>1 DEF Manager, Core
<1> QED BY <1>2, StartExitSafe DEF EndEndSession

\* The clients are told to end, with the timer running.
LEMMA StartEndSessionSafe ==
  ASSUME NEW s \in Manager, Core(s), s.type # "none"
  PROVE  Consistent(StartEndSession(s))
<1> DEFINE t == StartPhase(s, END_SESSION)
           u == Tell(t, s.clients, "end")
           q == [c \in Clients |-> IF c \in s.clients THEN 1 ELSE 0]
           v == [u EXCEPT !.query = q, !.phaseTimer = TRUE]
<1>1. END_SESSION \in STARTUP..EXIT /\ "end" \in Messages
  BY DEF STARTUP, EXIT, END_SESSION, Messages
<1>2. t \in Manager /\ Core(t) /\ t.type # "none" /\ t.phase = END_SESSION
      /\ t.pending = {} /\ t.clients = s.clients /\ ~ t.queryTimer
  BY <1>1, StartPhaseKeeps DEF Core
<1>3. CASE s.clients = {}
  BY <1>2, <1>3, EndEndSessionSafe DEF StartEndSession
<1>4. CASE s.clients # {}
  <2>1. s.clients \in SUBSET t.clients /\ s.clients \in SUBSET Clients
    BY <1>2 DEF Manager
  <2>2. u \in Manager /\ u.phase = END_SESSION /\ u.type # "none" /\ u.pending = {}
      /\ ~ u.queryTimer
    <3> HIDE DEF t
    <3> QED BY <1>1, <1>2, <2>1, TellKeeps
  <2>3. Core(u)
    <3> HIDE DEF t
    <3> QED BY <1>1, <1>2, <2>1, TellCore
  <2>4. Core(v) /\ v.phaseTimer /\ v.phase = END_SESSION /\ v.type # "none" /\ v.pending = {}
      /\ ~ v.queryTimer
    <3> HIDE DEF u, q
    <3> QED BY <2>2, <2>3 DEF Core, Manager
  <2>5. Phased(v)
    <3> HIDE DEF v
    <3> QED BY <2>4 DEF Phased, END_SESSION, RUNNING, QUERY_END_SESSION, EXIT
  <2>6. StartEndSession(s) = v
    BY <1>4 DEF StartEndSession
  <2> QED BY <2>4, <2>5, <2>6 DEF Consistent
<1> QED BY <1>3, <1>4

\* The query goes on to the end of the session.
LEMMA EndQuerySafe ==
  ASSUME NEW s \in Manager, Core(s), s.type # "none"
  PROVE  Consistent(EndQuery(s))
<1> DEFINE t == ClearPhase(s)
<1>1. t \in Manager /\ Core(t) /\ t.type # "none"
  BY ClearPhaseKeeps DEF Core
<1> QED BY <1>1, StartEndSessionSafe DEF EndQuery

\* The query waits for the clients in the store, once for each.
LEMMA StartQuerySafe ==
  ASSUME NEW s \in Manager, Core(s), s.type # "none"
  PROVE  Consistent(StartQuery(s))
<1> DEFINE t == StartPhase(s, QUERY_END_SESSION)
           u == Tell(t, s.clients, "query")
           q == [c \in Clients |-> IF c \in s.clients THEN 1 ELSE 0]
           v == [u EXCEPT !.query = q, !.queryTimer = TRUE]
<1>1. QUERY_END_SESSION \in STARTUP..EXIT /\ "query" \in Messages
  BY DEF STARTUP, EXIT, QUERY_END_SESSION, Messages
<1>2. t \in Manager /\ Core(t) /\ t.type # "none" /\ t.phase = QUERY_END_SESSION
      /\ t.pending = {} /\ t.clients = s.clients
  BY <1>1, StartPhaseKeeps DEF Core
<1>3. s.clients \in SUBSET t.clients /\ s.clients \in SUBSET Clients
  BY <1>2 DEF Manager
<1>4. u \in Manager /\ u.phase = QUERY_END_SESSION /\ u.type # "none" /\ u.pending = {}
      /\ u.clients = s.clients
  <2> HIDE DEF t
  <2> QED BY <1>1, <1>2, <1>3, TellKeeps
<1>5. Core(u)
  <2> HIDE DEF t
  <2> QED BY <1>1, <1>2, <1>3, TellCore
<1>6. Core(v) /\ v.phase = QUERY_END_SESSION /\ v.type # "none" /\ v.pending = {}
      /\ v.query = q /\ v.clients = s.clients
  <2> HIDE DEF u, q
  <2> QED BY <1>4, <1>5 DEF Core, Manager
<1>7. \A c \in Clients : v.query[c] \in {0, 1} /\ (v.query[c] = 1 => c \in v.clients)
  <2> HIDE DEF v
  <2> QED BY <1>6
<1>8. Phased(v)
  <2> HIDE DEF v, q
  <2> QED BY <1>6, <1>7 DEF Phased, END_SESSION, RUNNING, QUERY_END_SESSION, EXIT
<1>9. StartQuery(s) = v
  BY DEF StartQuery
<1> QED BY <1>6, <1>8, <1>9 DEF Consistent

\* A running session is asked to end, or stays as it is under lockdown.
LEMMA EndRunningSafe ==
  ASSUME NEW s \in Manager, Core(s), s.phase = RUNNING, Quiet(s), s.type # "none"
  PROVE  Consistent(EndRunning(s))
<1> DEFINE t == ClearPhase(s)
<1>1. t \in Manager /\ Core(t) /\ t.type # "none"
  BY ClearPhaseKeeps DEF Core
<1>2. Phased(t)
  BY ClearPhaseKeeps DEF Phased, Quiet, Waits, RUNNING, QUERY_END_SESSION, END_SESSION, EXIT
<1>3. Consistent(StartQuery(t))
  BY <1>1, StartQuerySafe
<1> QED BY <1>1, <1>2, <1>3 DEF EndRunning, Consistent

\* A phase ends well, whichever it is and whoever ends it, provided that the
\* type of the logout is chosen.
LEMMA EndPhaseSafe ==
  ASSUME NEW s \in Manager, Core(s), s.phase >= RUNNING, s.type # "none",
         s.phase = RUNNING => Quiet(s)
  PROVE  Consistent(EndPhase(s))
<1>1. s.phase \in {RUNNING, QUERY_END_SESSION, END_SESSION, EXIT}
  BY DEF Manager, STARTUP, RUNNING, QUERY_END_SESSION, END_SESSION, EXIT
<1>2. EndPhase(s) = CASE s.phase = RUNNING           -> EndRunning(s)
                      [] s.phase = QUERY_END_SESSION -> EndQuery(s)
                      [] s.phase = END_SESSION       -> EndEndSession(s)
                      [] OTHER                       -> EndExit(s)
  BY DEF EndPhase
<1> QED
  BY <1>1, <1>2, EndRunningSafe, EndQuerySafe, EndEndSessionSafe, EndExitSafe
  DEF RUNNING, QUERY_END_SESSION, END_SESSION, EXIT

\* From the query on, the phases that follow leave the clients and the
\* just-in-time inhibitors alone, and none of them is a query.
Onward(s, t) ==
  /\ t.phase >= END_SESSION
  /\ t.jit = s.jit /\ t.clients = s.clients

\* The end of the last phase is no query.
LEMMA EndExitOnward ==
  ASSUME NEW s \in Manager, s.phase = EXIT
  PROVE  Onward(s, EndExit(s))
<1> DEFINE t == ClearPhase(s)
           o == IF t.type = "none" THEN "assertion" ELSE "quit"
           u == [t EXCEPT !.quits = t.quits + 1, !.outcome = o]
<1>1. EndExit(s) = u
  BY DEF EndExit, Quit
<1>2. u.phase = EXIT /\ u.clients = s.clients /\ u.jit = s.jit
  BY ClearPhaseKeeps DEF Manager
<1> QED BY <1>1, <1>2 DEF Onward, EXIT, END_SESSION

\* Nor is the last phase, ...
LEMMA StartExitOnward ==
  ASSUME NEW s \in Manager
  PROVE  Onward(s, StartExit(s))
<1> DEFINE t == StartPhase(s, EXIT)
           u == Tell(t, s.clients, "stop")
<1>1. EXIT \in STARTUP..EXIT /\ "stop" \in Messages
  BY DEF STARTUP, EXIT, Messages
<1>2. t \in Manager /\ t.phase = EXIT /\ t.clients = s.clients /\ t.jit = s.jit
  BY <1>1, StartPhaseKeeps
<1>3. s.clients \in SUBSET Clients
  BY DEF Manager
<1>4. u \in Manager /\ u.phase = EXIT /\ u.clients = s.clients /\ u.jit = s.jit
  <2> HIDE DEF t
  <2> QED BY <1>1, <1>2, <1>3, TellKeeps
<1>5. Onward(u, EndExit(u))
  BY <1>4, EndExitOnward
<1> QED
  <2> HIDE DEF u
  <2> QED BY <1>4, <1>5 DEF Onward, StartExit, u

\* ... the end of the one before, ...
LEMMA EndEndSessionOnward ==
  ASSUME NEW s \in Manager
  PROVE  Onward(s, EndEndSession(s))
<1> DEFINE v == s.saved \/ AutoSave
           t == ClearPhase(s)
           u == [t EXCEPT !.saved = v]
<1>1. t \in Manager /\ t.clients = s.clients /\ t.jit = s.jit
  BY ClearPhaseKeeps
<1>2. u \in Manager /\ u.clients = s.clients /\ u.jit = s.jit
  <2>1. v \in BOOLEAN
    OBVIOUS
  <2> HIDE DEF v, t
  <2> QED BY <1>1, <2>1 DEF Manager
<1>3. Onward(u, StartExit(u))
  BY <1>2, StartExitOnward
<1> QED
  <2> HIDE DEF u
  <2> QED BY <1>2, <1>3 DEF Onward, EndEndSession, u

\* ... its start, ...
LEMMA StartEndSessionOnward ==
  ASSUME NEW s \in Manager
  PROVE  Onward(s, StartEndSession(s))
<1> DEFINE t == StartPhase(s, END_SESSION)
           u == Tell(t, s.clients, "end")
           q == [c \in Clients |-> IF c \in s.clients THEN 1 ELSE 0]
           v == [u EXCEPT !.query = q, !.phaseTimer = TRUE]
<1>1. END_SESSION \in STARTUP..EXIT /\ "end" \in Messages
  BY DEF STARTUP, EXIT, END_SESSION, Messages
<1>2. t \in Manager /\ t.phase = END_SESSION /\ t.clients = s.clients /\ t.jit = s.jit
  BY <1>1, StartPhaseKeeps
<1>3. Onward(t, EndEndSession(t))
  BY <1>2, EndEndSessionOnward
<1>4. s.clients \in SUBSET Clients
  BY DEF Manager
<1>5. u \in Manager /\ u.phase = END_SESSION /\ u.clients = s.clients /\ u.jit = s.jit
  <2> HIDE DEF t
  <2> QED BY <1>1, <1>2, <1>4, TellKeeps
<1>6. v.phase = END_SESSION /\ v.clients = s.clients /\ v.jit = s.jit
  <2> HIDE DEF u, q
  <2> QED BY <1>5 DEF Manager
<1>7. Onward(s, v)
  <2> HIDE DEF v
  <2> QED BY <1>6 DEF Onward, END_SESSION
<1>8. Onward(s, EndEndSession(t))
  <2> HIDE DEF t
  <2> QED BY <1>2, <1>3 DEF Onward
<1>9. StartEndSession(s) = IF s.clients = {} THEN EndEndSession(t) ELSE v
  BY DEF StartEndSession
<1> QED BY <1>7, <1>8, <1>9

\* ... and the end of the query.
LEMMA EndQueryOnward ==
  ASSUME NEW s \in Manager
  PROVE  Onward(s, EndQuery(s))
<1> DEFINE t == ClearPhase(s)
<1>1. t \in Manager /\ t.clients = s.clients /\ t.jit = s.jit
  BY ClearPhaseKeeps
<1>2. Onward(t, StartEndSession(t))
  BY <1>1, StartEndSessionOnward
<1> QED BY <1>1, <1>2 DEF Onward, EndQuery

\* So end_phase never leads from a query to a query.
LEMMA EndPhaseOnward ==
  ASSUME NEW s \in Manager, s.phase >= QUERY_END_SESSION
  PROVE  Onward(s, EndPhase(s))
<1>1. s.phase \in {QUERY_END_SESSION, END_SESSION, EXIT}
  BY DEF Manager, STARTUP, QUERY_END_SESSION, END_SESSION, EXIT
<1>2. EndPhase(s) = CASE s.phase = RUNNING           -> EndRunning(s)
                      [] s.phase = QUERY_END_SESSION -> EndQuery(s)
                      [] s.phase = END_SESSION       -> EndEndSession(s)
                      [] OTHER                       -> EndExit(s)
  BY DEF EndPhase
<1> QED
  BY <1>1, <1>2, EndQueryOnward, EndEndSessionOnward, EndExitOnward
  DEF RUNNING, QUERY_END_SESSION, END_SESSION, EXIT

-----------------------------------------------------------------------------
(* The startup *)

\* The startup stops where there is an application to wait for.
LEMMA StartStartupSafe ==
  ASSUME NEW s \in Manager, Core(s), Quiet(s), s.logoutDialog = "none",
         NEW p \in Nat \ {0}, NEW starts \in SUBSET Apps
  PROVE  Consistent(StartStartup(s, p, starts))
<1> DEFINE waits == {q \in p..(APPLICATION - 1) : \E a \in starts : AppPhase[a] = q}
           first == CHOOSE q \in waits : \A r \in waits : q <= r
           awaited == {a \in starts : AppPhase[a] = first}
           t == StartPhase(s, first)
           u == [t EXCEPT !.pending = awaited, !.phaseTimer = TRUE]
<1>1. CASE waits = {}
  BY <1>1, StartRunningSafe DEF StartStartup, Quiet
<1>2. CASE waits # {}
  <2>1. waits \in SUBSET (1..4)
    BY DEF APPLICATION
  <2>2. first \in waits
    BY <1>2, <2>1, FirstPhase
  <2>3. first \in STARTUP..EXIT /\ first < RUNNING
    <3> HIDE DEF waits, first
    <3> QED BY <2>1, <2>2 DEF STARTUP, EXIT, RUNNING
  <2>4. t \in Manager /\ Core(t) /\ Quiet(t) /\ t.phase < RUNNING
      /\ t.logoutDialog = "none"
    <3> HIDE DEF first
    <3> QED BY <2>3, StartPhaseKeeps DEF Core, Quiet
  <2>5. u.phase < RUNNING /\ Core(u) /\ Quiet(u) /\ u.phase \in Nat
      /\ u.logoutDialog = "none" /\ u.phase = t.phase /\ u.pending = awaited
      /\ u.phaseTimer
    <3> HIDE DEF t, awaited
    <3> QED BY <2>4 DEF Core, Quiet, Manager, STARTUP, EXIT
  <2>8. awaited # {} /\ \A a \in awaited : AppPhase[a] = first
    BY <2>2
  <2>9. t.phase = first
    <3> HIDE DEF first
    <3> QED BY <2>3, StartPhaseKeeps
  <2>10. Waits(u)
    <3> HIDE DEF u, t, awaited, first
    <3> QED BY <2>5, <2>8, <2>9 DEF Waits
  <2>6. Phased(u)
    <3> HIDE DEF u
    <3> QED BY <2>5, <2>10 DEF Phased, RUNNING, QUERY_END_SESSION, END_SESSION, EXIT
  <2>7. StartStartup(s, p, starts) = u
    BY <1>2 DEF StartStartup
  <2> QED BY <2>5, <2>6, <2>7 DEF Consistent
<1> QED BY <1>1, <1>2

\* So it does when one of its phases ends.
LEMMA EndStartupSafe ==
  ASSUME NEW s \in Manager, Core(s), Quiet(s), s.logoutDialog = "none",
         NEW starts \in SUBSET Apps
  PROVE  Consistent(EndStartup(s, starts))
<1> DEFINE t == ClearPhase(s)
<1>1. t \in Manager /\ Core(t) /\ Quiet(t) /\ t.logoutDialog = "none"
  BY ClearPhaseKeeps DEF Core, Quiet
<1>2. s.phase + 1 \in Nat \ {0}
  BY DEF Manager, STARTUP, EXIT
<1> QED BY <1>1, <1>2, StartStartupSafe DEF EndStartup

\* And when an application registers, which may be the last one awaited.
LEMMA AppRegisteredSafe ==
  ASSUME NEW s \in Manager, Consistent(s), NEW a \in Apps, NEW starts \in SUBSET Apps
  PROVE  Consistent(AppRegistered(s, a, starts))
<1> DEFINE t == [s EXCEPT !.pending = s.pending \ {a}]
           u == [t EXCEPT !.phaseTimer = FALSE]
<1>1. CASE a \notin s.pending
  BY <1>1 DEF AppRegistered
<1>2. CASE a \in s.pending
  <2>1. s.phase < RUNNING
    BY <1>2 DEF Consistent, Phased, Manager, STARTUP, EXIT, RUNNING
  <2>2. Core(s) /\ Quiet(s) /\ s.phase \in Nat /\ s.logoutDialog = "none"
    BY <2>1 DEF Consistent, Phased, Manager, STARTUP, EXIT, RUNNING
  <2>3. t \in Manager /\ Core(t) /\ Quiet(t) /\ t.phase = s.phase
        /\ t.logoutDialog = "none"
    BY <2>2 DEF Manager, Core, Quiet
  <2>4. u \in Manager /\ Core(u) /\ Quiet(u) /\ u.logoutDialog = "none"
    <3> HIDE DEF t
    <3> QED BY <2>3 DEF Manager, Core, Quiet
  <2>5. t.pending # {} => Consistent(t)
    <3>1. Waits(s) \/ s.phase = STARTUP
      BY <2>1 DEF Consistent, Phased
    <3>2. /\ t.pending = s.pending \ {a} /\ t.phaseTimer = s.phaseTimer
          /\ t.phase = s.phase
      BY DEF Manager
    <3>3. t.pending # {} => Waits(t) \/ t.phase = STARTUP
      <4> HIDE DEF t
      <4> QED BY <3>1, <3>2 DEF Waits
    <3> HIDE DEF t
    <3> QED BY <2>1, <2>2, <2>3, <3>3 DEF Consistent, Phased, RUNNING, QUERY_END_SESSION, END_SESSION, EXIT
  <2>6. AppRegistered(s, a, starts) = IF t.pending # {} THEN t ELSE EndStartup(u, starts)
    BY <1>2 DEF AppRegistered
  <2> QED
    <3> HIDE DEF t, u
    <3> QED BY <2>4, <2>5, <2>6, EndStartupSafe
<1> QED BY <1>1, <1>2

-----------------------------------------------------------------------------
(* The inhibit dialog, and what the clients answer *)

\* The dialog accepted: the one about the end of the session is only up in it.
LEMMA AcceptInhibitDialogSafe ==
  ASSUME NEW s \in Manager, Core([s EXCEPT !.inhibitDialog = "none"]), Phased(s)
  PROVE  /\ Consistent(AcceptInhibitDialog(s))
         /\ AcceptInhibitDialog(s).jit = s.jit
         /\ AcceptInhibitDialog(s).clients = s.clients
         /\ \/ AcceptInhibitDialog(s).phase # QUERY_END_SESSION
            \/ AcceptInhibitDialog(s).query = s.query
<1> DEFINE t == [s EXCEPT !.inhibitDialog = "none"]
           u == [t EXCEPT !.mode = "force"]
<1>1. t \in Manager /\ u \in Manager
  BY DEF Manager, InhibitDialogs, LogoutModes
<1>2. CASE s.inhibitDialog = "logout"
  <2>1. s.phase \in Nat /\ s.phase >= QUERY_END_SESSION /\ s.type # "none"
    BY <1>2 DEF Phased, Quiet, Waits, Manager, STARTUP, EXIT, RUNNING, QUERY_END_SESSION
  <2>2. /\ Core(u) /\ u.phase = s.phase /\ u.type = s.type /\ u.jit = s.jit
        /\ u.clients = s.clients
    BY DEF Core, Manager
  <2>3. AcceptInhibitDialog(s) = EndPhase(u)
    BY <1>2 DEF AcceptInhibitDialog
  <2>4. Consistent(EndPhase(u)) /\ Onward(u, EndPhase(u))
    <3> HIDE DEF u
    <3> QED BY <1>1, <2>1, <2>2, EndPhaseSafe, EndPhaseOnward DEF RUNNING, QUERY_END_SESSION
  <2> QED
    <3> HIDE DEF u
    <3> QED BY <2>2, <2>3, <2>4 DEF Onward, QUERY_END_SESSION, END_SESSION
<1>3. CASE s.inhibitDialog # "logout"
  <2>1. AcceptInhibitDialog(s) = t
    BY <1>3 DEF AcceptInhibitDialog
  <2>2. /\ t.phase = s.phase /\ t.type = s.type /\ t.jit = s.jit /\ t.mode = s.mode
        /\ t.clients = s.clients /\ t.query = s.query /\ t.next = s.next
        /\ t.pending = s.pending /\ t.phaseTimer = s.phaseTimer
        /\ t.queryTimer = s.queryTimer /\ t.told = s.told /\ t.outcome = s.outcome
        /\ t.inhibitDialog = "none" /\ t.logoutDialog = s.logoutDialog
    BY DEF Manager
  <2>3. Phased(t)
    <3> HIDE DEF t
    <3> QED BY <2>2 DEF Phased, Quiet, Waits
  <2> QED BY <2>1, <2>2, <2>3 DEF Consistent
<1> QED BY <1>2, <1>3

\* Inhibitors go, and with the last one the dialog.
LEMMA RemoveInhibitorsSafe ==
  ASSUME NEW s \in Manager, Consistent(s), NEW taken \in SUBSET s.inhibitors,
         NEW jit \in SUBSET s.jit
  PROVE  LET t == RemoveInhibitors(s, taken, jit)
         IN  /\ Consistent(t) /\ t.jit = s.jit \ jit /\ t.clients = s.clients
             /\ t.phase # QUERY_END_SESSION \/ t.query = s.query
<1> DEFINE t == [s EXCEPT !.inhibitors = s.inhibitors \ taken, !.jit = s.jit \ jit]
           b == (taken # {} \/ jit # {}) /\ t.inhibitors = {} /\ t.jit = {}
                /\ t.inhibitDialog # "none"
<1>1. /\ t \in Manager
      /\ t.inhibitors = s.inhibitors \ taken /\ t.jit = s.jit \ jit
      /\ t.phase = s.phase /\ t.type = s.type /\ t.mode = s.mode
      /\ t.clients = s.clients /\ t.query = s.query /\ t.next = s.next
      /\ t.pending = s.pending /\ t.phaseTimer = s.phaseTimer
      /\ t.queryTimer = s.queryTimer /\ t.told = s.told /\ t.outcome = s.outcome
      /\ t.inhibitDialog = s.inhibitDialog /\ t.seen = s.seen
      /\ t.logoutDialog = s.logoutDialog
  BY DEF Manager
<1>2. Phased(t)
  <2> HIDE DEF t
  <2> QED BY <1>1 DEF Consistent, Phased, Quiet, Waits
<1>3. RemoveInhibitors(s, taken, jit) = IF b THEN AcceptInhibitDialog(t) ELSE t
  BY DEF RemoveInhibitors
<1>4. CASE b
  <2> DEFINE u == [t EXCEPT !.inhibitDialog = "none"]
  <2>1. u.clients = t.clients /\ u.seen = t.seen /\ u.told = t.told /\ u.jit = t.jit
        /\ u.inhibitDialog = "none"
    <3> HIDE DEF t
    <3> QED BY <1>1 DEF Manager
  <2>2. Core(u)
    <3> HIDE DEF u, t
    <3> QED BY <1>1, <2>1 DEF Core, Consistent
  <2> QED
    <3> HIDE DEF t
    <3> QED BY <1>1, <1>2, <1>3, <1>4, <2>2, AcceptInhibitDialogSafe
<1>5. CASE ~ b
  <2>1. Core(t)
    <3> HIDE DEF t
    <3> QED BY <1>1, <1>5 DEF Core, Consistent
  <2> QED
    <3> HIDE DEF t
    <3> QED BY <1>1, <1>2, <1>3, <1>5, <2>1 DEF Consistent
<1> QED BY <1>4, <1>5

\* A cancelled end of the session leaves nothing behind.
LEMMA CancelEndSessionSafe ==
  ASSUME NEW s \in Manager, Core(s), s.phase >= QUERY_END_SESSION
  PROVE  Consistent(CancelEndSession(s))
<1> DEFINE t == [s EXCEPT !.inhibitDialog = "none", !.jit = {},
                          !.mode = "normal", !.type = "none"]
           u == Tell(t, s.clients, "cancel")
<1>1. t \in Manager
  BY DEF Manager, InhibitDialogs, LogoutModes, LogoutTypes
<1>2. /\ t.jit = {} /\ t.mode = "normal" /\ t.inhibitDialog = "none"
      /\ t.clients = s.clients /\ t.seen = s.seen /\ t.told = s.told
  BY DEF Manager
<1>3. Core(t)
  BY <1>2 DEF Core, Manager
<1>4. s.clients \in SUBSET Clients /\ s.clients \in SUBSET t.clients /\ "cancel" \in Messages
  BY <1>2 DEF Manager, Messages
<1>5. /\ u \in Manager /\ Core(u)
      /\ u.jit = {} /\ u.mode = "normal" /\ u.inhibitDialog = "none" /\ u.clients = s.clients
  <2> HIDE DEF t
  <2> QED BY <1>1, <1>2, <1>3, <1>4, TellKeeps, TellCore
<1>6. \A c \in s.clients : u.told[c] = "cancel"
  <2> HIDE DEF t
  <2> QED BY <1>1, <1>4, TellTold
<1>7. CancelEndSession(s) = StartRunning(u)
  BY DEF CancelEndSession, Manager, STARTUP, EXIT, QUERY_END_SESSION
<1> QED
  <2> HIDE DEF u
  <2> QED BY <1>5, <1>6, <1>7, StartRunningSafe

\* The query completes into the next phase or into the dialog.
LEMMA QueryCompleteSafe ==
  ASSUME NEW s \in Manager, Consistent(s), s.phase = QUERY_END_SESSION
  PROVE  LET t == QueryComplete(s)
         IN  /\ Consistent(t) /\ t.jit = s.jit /\ t.clients = s.clients
             /\ t.phase # QUERY_END_SESSION \/ t.query = s.query
<1> DEFINE t == [s EXCEPT !.queryTimer = FALSE]
           d == [t EXCEPT !.inhibitDialog = "logout"]
<1>0. s.type # "none"
  BY DEF Consistent, Phased, QUERY_END_SESSION, EXIT
<1>1. /\ t \in Manager /\ t.phase = QUERY_END_SESSION /\ t.type # "none"
      /\ t.clients = s.clients /\ t.jit = s.jit /\ t.inhibitors = s.inhibitors
      /\ t.query = s.query /\ t.pending = s.pending
      /\ Core(t)
  BY <1>0 DEF Manager, Core, Consistent
<1>2. Phased(t)
  <2> HIDE DEF t
  <2> QED BY <1>1 DEF Consistent, Phased, RUNNING, QUERY_END_SESSION, END_SESSION, EXIT
<1>3. CASE ~ LogoutInhibited(s)
  <2>1. Consistent(EndQuery(t)) /\ Onward(t, EndQuery(t))
    <3> HIDE DEF t
    <3> QED BY <1>1, EndQuerySafe, EndQueryOnward
  <2>2. QueryComplete(s) = EndQuery(t)
    BY <1>3 DEF QueryComplete
  <2> QED
    <3> HIDE DEF t
    <3> QED BY <1>1, <2>1, <2>2 DEF Onward, QUERY_END_SESSION, END_SESSION
<1>4. CASE LogoutInhibited(s) /\ s.inhibitDialog # "none"
  <2>1. QueryComplete(s) = t
    BY <1>4 DEF QueryComplete
  <2> QED BY <1>1, <1>2, <2>1 DEF Consistent
<1>5. CASE LogoutInhibited(s) /\ s.inhibitDialog = "none"
  <2>1. QueryComplete(s) = d
    BY <1>5 DEF QueryComplete
  <2>2. s.inhibitors \cup s.jit # {}
    BY <1>5 DEF LogoutInhibited
  <2>3. /\ d.phase = t.phase /\ d.type = t.type /\ d.clients = t.clients /\ d.jit = t.jit
        /\ d.inhibitors = t.inhibitors /\ d.query = t.query /\ d.pending = t.pending
        /\ d.seen = t.seen /\ d.told = t.told
    <3> HIDE DEF t
    <3> QED BY <1>1 DEF Manager
  <2>4. Core(d)
    <3> HIDE DEF t, d
    <3> QED BY <1>1, <2>2, <2>3 DEF Core
  <2>5. Phased(d)
    <3> HIDE DEF t, d
    <3> QED BY <1>1, <1>2, <2>3 DEF Phased, RUNNING, QUERY_END_SESSION, END_SESSION, EXIT
  <2> QED
    <3> HIDE DEF t, d
    <3> QED BY <1>1, <2>1, <2>3, <2>4, <2>5 DEF Consistent
<1> QED BY <1>3, <1>4, <1>5

\* The second part of the phase is the same phase, still timed.
LEMMA EndSessionPart2Safe ==
  ASSUME NEW s \in Manager, Consistent(s), s.phase = END_SESSION
  PROVE  LET t == EndSessionPart2(s)
         IN  Consistent(t) /\ t.phase = END_SESSION /\ t.jit = s.jit /\ t.clients = s.clients
<1> DEFINE last == {c \in Clients : s.next[c] > 0}
           t == Tell(s, last, "last")
           u == [t EXCEPT !.query = s.next, !.next = NoClients]
           d == [s EXCEPT !.outcome = "dangling"]
<1>1. CASE last \subseteq s.clients
  <2>1. last \in SUBSET s.clients /\ last \in SUBSET Clients /\ "last" \in Messages
    BY <1>1 DEF Messages
  <2>2. /\ t \in Manager /\ t.phase = s.phase /\ t.type = s.type /\ t.pending = s.pending
        /\ t.clients = s.clients /\ t.jit = s.jit /\ t.phaseTimer = s.phaseTimer
        /\ t.outcome = s.outcome /\ t.queryTimer = s.queryTimer
    <3> HIDE DEF last
    <3> QED BY <2>1, TellKeeps
  <2>3. Core(t)
    <3> HIDE DEF last
    <3> QED BY <2>1, TellCore DEF Consistent
  <2>4. /\ u.phase = s.phase /\ u.type = s.type /\ u.pending = s.pending
        /\ u.clients = s.clients /\ u.jit = s.jit /\ u.phaseTimer = s.phaseTimer
        /\ u.outcome = s.outcome /\ u.queryTimer = s.queryTimer /\ Core(u)
    <3> HIDE DEF t
    <3> QED BY <2>2, <2>3 DEF Manager, Core
  <2>5. Phased(u)
    <3> HIDE DEF u
    <3> QED BY <2>4 DEF Consistent, Phased, RUNNING, QUERY_END_SESSION, END_SESSION, EXIT
  <2>6. EndSessionPart2(s) = u
    BY <1>1 DEF EndSessionPart2
  <2> QED
    <3> HIDE DEF u
    <3> QED BY <2>4, <2>5, <2>6 DEF Consistent
<1>2. CASE ~ (last \subseteq s.clients)
  <2>1. EndSessionPart2(s) = d
    BY <1>2 DEF EndSessionPart2
  <2>2. /\ d.phase = s.phase /\ d.type = s.type /\ d.pending = s.pending
        /\ d.clients = s.clients /\ d.jit = s.jit /\ d.outcome = "dangling" /\ d.queryTimer = s.queryTimer /\ Core(d)
    BY DEF Manager, Core, Consistent
  <2>3. Phased(d)
    <3> HIDE DEF d
    <3> QED BY <2>2 DEF Consistent, Phased, RUNNING, QUERY_END_SESSION, END_SESSION, EXIT
  <2> QED BY <2>1, <2>2, <2>3 DEF Consistent
<1> QED BY <1>1, <1>2

\* What follows an answer adds no inhibitor and no client.
LEMMA AfterResponseSafe ==
  ASSUME NEW s \in Manager, Consistent(s), NEW c \in Clients, NEW doLast \in BOOLEAN
  PROVE  LET t == AfterResponse(s, c, doLast)
         IN  /\ Consistent(t) /\ t.jit = s.jit /\ t.clients = s.clients
             /\ t.phase # QUERY_END_SESSION \/ t.query = s.query
<1>1. CASE s.phase = QUERY_END_SESSION
  <2>1. AfterResponse(s, c, doLast) = IF IsEmpty(s.query) THEN QueryComplete(s) ELSE s
    BY <1>1 DEF AfterResponse, QUERY_END_SESSION, END_SESSION
  <2> QED BY <1>1, <2>1, QueryCompleteSafe
<1>2. CASE s.phase = END_SESSION
  <2> DEFINE added == [s.next EXCEPT ![c] = s.next[c] + 1]
             t == IF doLast THEN [s EXCEPT !.next = added] ELSE s
  <2>1. s.next \in ClientBag /\ s.next[c] \in Nat
    BY DEF Manager, ClientBag
  <2>2. added \in ClientBag
    BY <2>1, BagUpdate
  <2>3. /\ t \in Manager /\ t.phase = END_SESSION /\ t.type = s.type /\ t.jit = s.jit
        /\ t.clients = s.clients /\ t.pending = s.pending /\ t.phaseTimer = s.phaseTimer
        /\ t.outcome = s.outcome /\ t.queryTimer = s.queryTimer /\ Core(t)
    <3> HIDE DEF added
    <3> QED BY <1>2, <2>2 DEF Manager, Core, Consistent
  <2>4. Consistent(t)
    <3> HIDE DEF t
    <3> QED BY <1>2, <2>3 DEF Consistent, Phased, RUNNING, QUERY_END_SESSION, END_SESSION, EXIT
  <2>5. t.type # "none"
    <3> HIDE DEF t
    <3> QED BY <2>3, <2>4 DEF Consistent, Phased, END_SESSION, QUERY_END_SESSION, EXIT
  <2>6. AfterResponse(s, c, doLast) \in {t, EndSessionPart2(t), EndEndSession(t)}
    BY <1>2 DEF AfterResponse, QUERY_END_SESSION, END_SESSION
  <2>7. Consistent(EndEndSession(t)) /\ Onward(t, EndEndSession(t))
    <3> HIDE DEF t
    <3> QED BY <2>3, <2>5, EndEndSessionSafe, EndEndSessionOnward
  <2>8. LET u == EndSessionPart2(t)
        IN  Consistent(u) /\ u.phase = END_SESSION /\ u.jit = t.jit /\ u.clients = t.clients
    <3> HIDE DEF t
    <3> QED BY <2>3, <2>4, EndSessionPart2Safe
  <2> QED
    <3> HIDE DEF t
    <3> QED BY <2>3, <2>4, <2>6, <2>7, <2>8 DEF Onward, QUERY_END_SESSION, END_SESSION
<1>3. CASE s.phase \notin {QUERY_END_SESSION, END_SESSION}
  <2>1. AfterResponse(s, c, doLast) = s
    BY <1>3 DEF AfterResponse
  <2> QED BY <2>1
<1> QED BY <1>1, <1>2, <1>3

\* A client's answer, or its silence, taken off the list
LEMMA AnsweredSafe ==
  ASSUME NEW s \in Manager, Consistent(s), NEW c \in Clients, s.phase >= QUERY_END_SESSION
  PROVE  LET t == [s EXCEPT !.query[c] = IF @ > 0 THEN @ - 1 ELSE 0]
         IN  /\ t \in Manager /\ Consistent(t)
             /\ t.clients = s.clients /\ t.jit = s.jit /\ t.phase = s.phase
             /\ t.inhibitors = s.inhibitors
             /\ t.phase = QUERY_END_SESSION => t.query[c] = 0
<1> DEFINE n == IF s.query[c] > 0 THEN s.query[c] - 1 ELSE 0
           q == [s.query EXCEPT ![c] = n]
           t == [s EXCEPT !.query = q]
<1>1. s.query \in ClientBag /\ n \in Nat
  BY DEF Manager, ClientBag
<1>2. q \in ClientBag
  BY <1>1, BagUpdate
<1>3. /\ t \in Manager /\ t.query = q
      /\ t.clients = s.clients /\ t.jit = s.jit /\ t.phase = s.phase
      /\ t.inhibitors = s.inhibitors /\ t.pending = s.pending /\ t.type = s.type
      /\ t.phaseTimer = s.phaseTimer /\ t.outcome = s.outcome /\ t.queryTimer = s.queryTimer
      /\ Core(t)
  <2> HIDE DEF q
  <2> QED BY <1>2 DEF Manager, Core, Consistent
<1>4. s.phase = QUERY_END_SESSION =>
        /\ q[c] = 0
        /\ \A d \in Clients : q[d] \in {0, 1} /\ (q[d] = 1 => d \in s.clients)
  BY <1>1 DEF Consistent, Phased, ClientBag
<1>5. s.phase \in Nat
  BY DEF Manager, STARTUP, EXIT
<1>6. Phased(t)
  <2> HIDE DEF t, q
  <2> QED BY <1>3, <1>4, <1>5 DEF Consistent, Phased, QUERY_END_SESSION, RUNNING, END_SESSION, EXIT
<1>7. t = [s EXCEPT !.query[c] = IF @ > 0 THEN @ - 1 ELSE 0]
  OBVIOUS
<1> QED
  <2> HIDE DEF t, q
  <2> QED BY <1>3, <1>4, <1>6, <1>7 DEF Consistent

\* A just-in-time inhibitor of a client in the store
LEMMA RefusedSafe ==
  ASSUME NEW s \in Manager, Consistent(s), NEW c \in s.clients, s.phase >= QUERY_END_SESSION
  PROVE  LET t == [s EXCEPT !.jit = @ \cup {c}] IN t \in Manager /\ Consistent(t)
<1> DEFINE t == [s EXCEPT !.jit = s.jit \cup {c}]
<1>1. /\ t \in Manager /\ t.query = s.query /\ t.jit = s.jit \cup {c}
      /\ t.clients = s.clients /\ t.phase = s.phase
      /\ t.inhibitors = s.inhibitors /\ t.pending = s.pending /\ t.type = s.type
      /\ t.phaseTimer = s.phaseTimer /\ t.outcome = s.outcome /\ t.queryTimer = s.queryTimer
      /\ t.seen = s.seen /\ t.told = s.told
  BY DEF Manager
<1>2. Core(t)
  <2> HIDE DEF t
  <2> QED BY <1>1 DEF Core, Consistent
<1>3. Phased(t)
  <2>1. s.phase \in Nat
    BY DEF Manager, STARTUP, EXIT
  <2> HIDE DEF t
  <2> QED BY <1>1, <2>1 DEF Consistent, Phased, QUERY_END_SESSION, RUNNING, END_SESSION, EXIT
<1> QED BY <1>1, <1>2, <1>3 DEF Consistent

\* Every answer of a client in the store, and every positive one, is safe.
LEMMA HandleEndSessionResponseSafe ==
  ASSUME NEW s \in Manager, Consistent(s), NEW c \in Clients, NEW isOk \in BOOLEAN,
         NEW doLast \in BOOLEAN, NEW cancel \in BOOLEAN, ~ isOk => c \in s.clients
  PROVE  Consistent(HandleEndSessionResponse(s, c, isOk, doLast, cancel))
<1> DEFINE answered == [s EXCEPT !.query[c] = IF @ > 0 THEN @ - 1 ELSE 0]
           refused == [answered EXCEPT !.jit = answered.jit \cup {c}]
           removed == RemoveInhibitors(answered, {}, s.jit \cap {c})
<1>1. CASE s.phase < QUERY_END_SESSION
  <2>1. HandleEndSessionResponse(s, c, isOk, doLast, cancel) = s
    BY <1>1 DEF HandleEndSessionResponse, Manager, STARTUP, EXIT, QUERY_END_SESSION
  <2> QED BY <2>1
<1>2. CASE s.phase >= QUERY_END_SESSION /\ cancel
  <2>1. HandleEndSessionResponse(s, c, isOk, doLast, cancel) = CancelEndSession(s)
    BY <1>2 DEF HandleEndSessionResponse, Manager, STARTUP, EXIT, QUERY_END_SESSION
  <2> QED BY <1>2, <2>1, CancelEndSessionSafe DEF Consistent
<1>3. CASE s.phase >= QUERY_END_SESSION /\ ~ cancel
  <2>1. /\ answered \in Manager /\ Consistent(answered)
        /\ answered.clients = s.clients /\ answered.phase = s.phase /\ answered.jit = s.jit
    BY <1>3, AnsweredSafe
  <2>2. ~ isOk => refused \in Manager /\ Consistent(refused)
    <3> HIDE DEF answered
    <3> QED BY <1>3, <2>1, RefusedSafe
  <2>3. removed \in Manager /\ Consistent(removed)
    <3> HIDE DEF answered
    <3>1. s.jit \cap {c} \in SUBSET answered.jit /\ {} \in SUBSET answered.inhibitors
      BY <2>1
    <3> QED BY <2>1, <3>1, RemoveInhibitorsSafe, RemoveInhibitorsType
  <2>4. \/ ~ isOk /\ HandleEndSessionResponse(s, c, isOk, doLast, cancel)
                       = AfterResponse(refused, c, doLast)
        \/ HandleEndSessionResponse(s, c, isOk, doLast, cancel)
             = AfterResponse(removed, c, doLast)
    BY <1>3 DEF HandleEndSessionResponse, Manager, STARTUP, EXIT, QUERY_END_SESSION
  <2> QED
    <3> HIDE DEF refused, removed
    <3> QED BY <2>2, <2>3, <2>4, AfterResponseSafe
<1>4. s.phase < QUERY_END_SESSION \/ s.phase >= QUERY_END_SESSION
  BY DEF Manager, STARTUP, EXIT, QUERY_END_SESSION
<1> QED BY <1>1, <1>2, <1>3, <1>4

\* A client that leaves the store is not waited for and inhibits nothing.
LEMMA LeavingSafe ==
  ASSUME NEW s \in Manager, Consistent(s), NEW c \in Clients
  PROVE  Consistent(RemoveClient(DisconnectClient(s, c), c))
<1> DEFINE t == RemoveInhibitors(s, {}, s.jit \cap {c})
           answered == [t EXCEPT !.query[c] = IF @ > 0 THEN @ - 1 ELSE 0]
           u == DisconnectClient(s, c)
           v == RemoveClient(u, c)
<1>1. /\ t \in Manager /\ Consistent(t) /\ c \notin t.jit
  <2>1. s.jit \cap {c} \in SUBSET s.jit /\ {} \in SUBSET s.inhibitors
    OBVIOUS
  <2> QED BY <2>1, RemoveInhibitorsSafe, RemoveInhibitorsType
<1>2. /\ u \in Manager /\ Consistent(u) /\ c \notin u.jit
      /\ u.phase = QUERY_END_SESSION => u.query[c] = 0
  <2>1. CASE t.phase # QUERY_END_SESSION
    <3>1. u = t
      BY <2>1 DEF DisconnectClient
    <3> QED
      <4> HIDE DEF t, u
      <4> QED BY <1>1, <2>1, <3>1
  <2>2. CASE t.phase = QUERY_END_SESSION
    <3>1. /\ answered \in Manager /\ Consistent(answered) /\ c \notin answered.jit
          /\ answered.phase = QUERY_END_SESSION /\ answered.query[c] = 0
      <4> HIDE DEF t
      <4> QED BY <1>1, <2>2, AnsweredSafe DEF QUERY_END_SESSION
    <3>2. RemoveInhibitors(answered, {}, t.jit \cap {c}) = answered
      <4>1. t.jit \cap {c} = {}
        BY <1>1
      <4>2. [answered EXCEPT !.inhibitors = @ \ {}, !.jit = @ \ {}] = answered
        <5> HIDE DEF answered
        <5> QED BY <3>1 DEF Manager
      <4> QED
        <5> HIDE DEF answered, t
        <5> QED BY <4>1, <4>2 DEF RemoveInhibitors
    <3>3. u = AfterResponse(answered, c, FALSE)
      <4>1. u = HandleEndSessionResponse(t, c, TRUE, FALSE, FALSE)
        BY <2>2 DEF DisconnectClient
      <4>2. HandleEndSessionResponse(t, c, TRUE, FALSE, FALSE)
              = AfterResponse(RemoveInhibitors(answered, {}, t.jit \cap {c}), c, FALSE)
        <5> HIDE DEF t
        <5> QED BY <2>2 DEF HandleEndSessionResponse, QUERY_END_SESSION
      <4> QED BY <3>2, <4>1, <4>2
    <3> QED
      <4> HIDE DEF answered, u
      <4> QED BY <3>1, <3>3, AfterResponseSafe, AfterResponseType
  <2> QED BY <2>1, <2>2
<1>3. /\ v.clients = u.clients \ {c} /\ v.jit = u.jit /\ v.inhibitors = u.inhibitors
      /\ v.inhibitDialog = u.inhibitDialog /\ v.seen = u.seen /\ v.told = u.told
      /\ v.phase = u.phase /\ v.query = u.query /\ v.next = u.next /\ v.type = u.type
      /\ v.mode = u.mode /\ v.pending = u.pending /\ v.phaseTimer = u.phaseTimer
      /\ v.queryTimer = u.queryTimer /\ v.outcome = u.outcome
      /\ v.logoutDialog = u.logoutDialog
  <2> HIDE DEF u
  <2> QED BY <1>2 DEF RemoveClient, Manager
<1>4. Core(v)
  <2> HIDE DEF u, v
  <2> QED BY <1>2, <1>3 DEF Core, Consistent
<1>5. Phased(v)
  <2> HIDE DEF u, v
  <2> QED BY <1>2, <1>3 DEF Phased, Quiet, Waits, Consistent
<1> QED BY <1>4, <1>5 DEF Consistent

\* Without clients the phase ends.
LEMMA EndIfLastClientLeftSafe ==
  ASSUME NEW s \in Manager, Consistent(s)
  PROVE  Consistent(EndIfLastClientLeft(s))
<1>1. CASE s.phase >= QUERY_END_SESSION /\ s.clients = {}
  <2>1. Core(s) /\ s.type # "none" /\ s.phase >= RUNNING /\ s.phase # RUNNING
    BY <1>1 DEF Consistent, Phased, Manager, STARTUP, EXIT, RUNNING, QUERY_END_SESSION
  <2> QED BY <1>1, <2>1, EndPhaseSafe DEF EndIfLastClientLeft
<1> QED BY <1>1 DEF EndIfLastClientLeft

\* on_client_disconnected, however often it is called
LEMMA OnClientDisconnectedSafe ==
  ASSUME NEW s \in Manager, Consistent(s), NEW c \in Clients
  PROVE  Consistent(OnClientDisconnected(s, c))
BY LeavingSafe, EndIfLastClientLeftSafe, DisconnectClientType, RemoveClientType
   DEF OnClientDisconnected

-----------------------------------------------------------------------------
(* Requests *)

\* An end of the session has a type before it starts.
LEMMA RequestEndSafe ==
  ASSUME NEW s \in Manager, Consistent(s), s.phase >= RUNNING,
         NEW type \in LogoutTypes \ {"none"}
  PROVE  Consistent(RequestEnd(s, type))
<1> DEFINE t == [s EXCEPT !.type = type]
<1>1. /\ t \in Manager /\ t.type # "none" /\ t.phase = s.phase
      /\ t.queryTimer = s.queryTimer /\ t.query = s.query /\ t.next = s.next
      /\ t.jit = s.jit /\ t.inhibitDialog = s.inhibitDialog /\ t.mode = s.mode
      /\ t.clients = s.clients /\ t.told = s.told /\ Core(t)
  BY DEF Manager, Core, Consistent
<1>2. t.phase = RUNNING => Quiet(t)
  <2> HIDE DEF t
  <2> QED BY <1>1 DEF Consistent, Phased, Quiet, Waits, RUNNING
<1> QED
  <2> HIDE DEF t
  <2> QED BY <1>1, <1>2, EndPhaseSafe DEF RequestEnd, t

\* The logout mode is set before the end of the session is asked for: the
\* forced one only from a running session that is not locked down.
LEMMA RequestLogoutSafe ==
  ASSUME NEW s \in Manager, Consistent(s), s.phase >= RUNNING, NEW mode \in LogoutModes,
         mode = "force" => s.phase = RUNNING /\ ~ lockdown
  PROVE  Consistent(RequestLogout(s, mode))
<1> DEFINE t == [s EXCEPT !.mode = mode]
           u == [t EXCEPT !.type = "logout"]
<1>1. /\ t \in Manager /\ t.phase = s.phase /\ t.mode = mode
      /\ t.queryTimer = s.queryTimer /\ t.query = s.query /\ t.next = s.next
      /\ t.jit = s.jit /\ t.inhibitDialog = s.inhibitDialog
      /\ t.clients = s.clients /\ t.told = s.told /\ t.type = s.type
      /\ t.pending = s.pending /\ t.phaseTimer = s.phaseTimer /\ t.outcome = s.outcome
      /\ t.logoutDialog = s.logoutDialog /\ Core(t)
  BY DEF Manager, Core, Consistent
<1>2. CASE mode # "force"
  <2>1. Phased(t)
    <3> HIDE DEF t
    <3> QED BY <1>1, <1>2 DEF Consistent, Phased, Quiet, Waits
  <2>2. Consistent(RequestEnd(t, "logout"))
    <3> HIDE DEF t
    <3> QED BY <1>1, <2>1, RequestEndSafe DEF Consistent, LogoutTypes
  <2> QED BY <2>2 DEF RequestLogout
<1>3. CASE mode = "force"
  <2>1. u \in Manager /\ Core(u) /\ u.type # "none" /\ u.phase = RUNNING
    <3> HIDE DEF t
    <3> QED BY <1>1, <1>3 DEF Manager, Core, LogoutTypes
  <2>2. ClearPhase(u) \in Manager /\ Core(ClearPhase(u)) /\ ClearPhase(u).type # "none"
    <3> HIDE DEF u
    <3> QED BY <2>1, ClearPhaseKeeps DEF Core
  <2>3. Consistent(StartQuery(ClearPhase(u)))
    BY <2>2, StartQuerySafe
  <2>4. RequestLogout(s, mode) = EndPhase(u)
    BY DEF RequestLogout, RequestEnd
  <2>5. EndPhase(u) = StartQuery(ClearPhase(u))
    <3> HIDE DEF u
    <3> QED BY <1>3, <2>1
            DEF EndPhase, EndRunning, RUNNING, QUERY_END_SESSION, END_SESSION
  <2> QED BY <2>3, <2>4, <2>5
<1> QED BY <1>2, <1>3

\* A dialog about a suspend or a switch of the user has an inhibitor to list.
LEMMA RequestInhibitableSafe ==
  ASSUME NEW s \in Manager, Consistent(s), NEW action \in {"suspend", "switch-user"}
  PROVE  Consistent(RequestInhibitable(s, action))
<1> DEFINE t == [s EXCEPT !.inhibitDialog = action]
<1>1. CASE Inhibited(s, action) /\ s.inhibitDialog = "none"
  <2>1. s.inhibitors # {}
    BY <1>1 DEF Inhibited
  <2>2. /\ t.phase = s.phase /\ t.mode = s.mode /\ t.inhibitors = s.inhibitors
        /\ t.queryTimer = s.queryTimer /\ t.query = s.query /\ t.next = s.next
        /\ t.jit = s.jit /\ t.inhibitDialog = action /\ t.seen = s.seen
        /\ t.clients = s.clients /\ t.told = s.told /\ t.type = s.type
        /\ t.pending = s.pending /\ t.phaseTimer = s.phaseTimer /\ t.outcome = s.outcome
        /\ t.logoutDialog = s.logoutDialog
    BY DEF Manager
  <2>3. Core(t)
    <3> HIDE DEF t
    <3> QED BY <2>1, <2>2 DEF Core, Consistent
  <2>4. Phased(t)
    <3> HIDE DEF t
    <3> QED BY <2>2 DEF Phased, Quiet, Waits, Consistent
  <2> QED BY <1>1, <2>3, <2>4 DEF RequestInhibitable, Consistent
<1> QED BY <1>1 DEF RequestInhibitable

\* A logout dialog is shown in a running session.
LEMMA ShowLogoutDialogSafe ==
  ASSUME NEW s \in Manager, Consistent(s), s.phase = RUNNING, NEW dialog \in LogoutDialogs
  PROVE  Consistent(ShowLogoutDialog(s, dialog))
<1> DEFINE t == [s EXCEPT !.mode = "normal", !.logoutDialog = dialog]
<1>1. /\ t.phase = s.phase /\ t.mode = "normal" /\ t.inhibitors = s.inhibitors
      /\ t.queryTimer = s.queryTimer /\ t.query = s.query /\ t.next = s.next
      /\ t.jit = s.jit /\ t.inhibitDialog = s.inhibitDialog /\ t.seen = s.seen
      /\ t.clients = s.clients /\ t.told = s.told /\ t.type = s.type
      /\ t.pending = s.pending /\ t.phaseTimer = s.phaseTimer /\ t.outcome = s.outcome
  BY DEF Manager
<1>2. Core(t)
  <2> HIDE DEF t
  <2> QED BY <1>1 DEF Core, Consistent
<1>3. Phased(t)
  <2> HIDE DEF t
  <2> QED BY <1>1 DEF Phased, Quiet, Waits, Consistent, RUNNING, QUERY_END_SESSION, END_SESSION, EXIT
<1>4. ShowLogoutDialog(s, dialog) = t
  BY DEF ShowLogoutDialog, RUNNING, QUERY_END_SESSION
<1> QED BY <1>2, <1>3, <1>4 DEF Consistent

\* The constructed manager satisfies the strengthening.
LEMMA InitSafe == Init => SafetyInvariant
BY DEF Init, NewManager, SafetyInvariant, Consistent, Core, Phased, Quiet, Waits, NoClients,
       STARTUP, RUNNING, QUERY_END_SESSION, END_SESSION, EXIT

-----------------------------------------------------------------------------
(* The actions *)

\* What registering changes in the manager, besides the startup
LEMMA FrameSafe ==
  ASSUME NEW s \in Manager, Consistent(s), NEW t,
         t.phase = s.phase, t.mode = s.mode, t.type = s.type, t.pending = s.pending,
         t.query = s.query, t.next = s.next, t.phaseTimer = s.phaseTimer,
         t.queryTimer = s.queryTimer, t.inhibitDialog = s.inhibitDialog,
         t.logoutDialog = s.logoutDialog, t.inhibitors = s.inhibitors, t.jit = s.jit,
         t.told = s.told, t.outcome = s.outcome,
         NEW new \in SUBSET (Clients \ s.seen),
         t.clients = s.clients \cup new, t.seen = s.seen \cup new
  PROVE  Consistent(t)
<1>1. Core(t)
  BY DEF Core, Consistent
<1>2. Quiet(s) => Quiet(t)
  BY DEF Quiet, Consistent, Core
<1>3. Phased(t)
  BY <1>2 DEF Phased, Waits, Consistent
<1> QED BY <1>1, <1>3 DEF Consistent

\* Every action preserves the strengthening.
LEMMA NextSafe == TypeOK /\ SafetyInvariant /\ [Next]_vars => SafetyInvariant'
<1> SUFFICES ASSUME TypeOK, SafetyInvariant, [Next]_vars PROVE SafetyInvariant'
  OBVIOUS
<1>m. m \in Manager
  BY DEF TypeOK
<1>i. Idle => Consistent(m)
  BY DEF Idle, SafetyInvariant
<1>c. Consistent(m') => SafetyInvariant'
  BY DEF SafetyInvariant, Consistent, Core, Phased, Quiet, Waits
<1>1. ASSUME NEW starts \in SUBSET Apps, Start(starts) PROVE Consistent(m')
  <2>1. Consistent(m)
    BY <1>1 DEF Start, SafetyInvariant, STARTUP, EXIT
  <2>2. Core(m) /\ Quiet(m) /\ m.logoutDialog = "none"
    BY <1>1, <2>1 DEF Start, Consistent, Phased, STARTUP, RUNNING
  <2>3. INITIALIZATION \in Nat \ {0}
    BY DEF INITIALIZATION
  <2> QED BY <1>1, <1>m, <2>2, <2>3, StartStartupSafe DEF Start
<1>2. ASSUME NEW starts \in SUBSET Apps, NEW a \in Apps, AppExited(a, starts)
      PROVE  Consistent(m')
  BY <1>2, <1>m, <1>i, AppRegisteredSafe DEF AppExited
<1>3. ASSUME NEW starts \in SUBSET Apps, PhaseTimeout(starts) PROVE Consistent(m')
  <2> DEFINE s == [m EXCEPT !.phaseTimer = FALSE]
  <2>1. Consistent(m) /\ m.phaseTimer
    BY <1>3, <1>i DEF PhaseTimeout
  <2>2. /\ s \in Manager /\ Core(s) /\ s.phase = m.phase /\ s.type = m.type
        /\ s.logoutDialog = m.logoutDialog /\ s.queryTimer = m.queryTimer
        /\ s.query = m.query /\ s.next = m.next /\ s.jit = m.jit
        /\ s.inhibitDialog = m.inhibitDialog /\ s.mode = m.mode /\ s.told = m.told
        /\ s.clients = m.clients
    BY <1>m, <2>1 DEF Manager, Core, Consistent
  <2>3. m' = IF s.phase < RUNNING THEN EndStartup(s, starts) ELSE EndPhase(s)
    BY <1>3 DEF PhaseTimeout
  <2>4. s.phase \in Nat
    BY <1>m, <2>2 DEF Manager, STARTUP, EXIT
  <2>5. CASE s.phase < RUNNING
    <3>1. Quiet(s) /\ s.logoutDialog = "none"
      <4> HIDE DEF s
      <4> QED BY <2>1, <2>2, <2>4, <2>5 DEF Consistent, Phased, Quiet, Waits, RUNNING
    <3> QED
      <4> HIDE DEF s
      <4> QED BY <2>2, <2>3, <2>5, <3>1, EndStartupSafe
  <2>6. CASE ~ (s.phase < RUNNING)
    <3>1. s.phase >= RUNNING /\ s.phase # RUNNING /\ s.type # "none"
      <4> HIDE DEF s
      <4> QED BY <2>1, <2>2, <2>4, <2>6 DEF Consistent, Phased, RUNNING, QUERY_END_SESSION, EXIT
    <3> QED
      <4> HIDE DEF s
      <4> QED BY <2>2, <2>3, <2>6, <3>1, EndPhaseSafe
  <2> QED BY <2>5, <2>6
<1>4. ASSUME NEW starts \in SUBSET Apps, NEW c \in DBusClients,
             NEW owner \in Apps \cup {"none"}, RegisterClient(c, owner, starts)
      PROVE  Consistent(m')
  <2> DEFINE s == [m EXCEPT !.clients = m.clients \cup {c},
                            !.registered = m.registered \cup {c},
                            !.seen = m.seen \cup {c}]
  <2>1. s \in Manager
    BY <1>m DEF Manager, Clients
  <2>2. {c} \in SUBSET (Clients \ m.seen) /\ Consistent(m)
    BY <1>4, <1>i DEF RegisterClient, Clients
  <2>3. Consistent(s)
    BY <1>m, <2>2, FrameSafe DEF Manager
  <2>4. m' = IF owner \in Apps THEN AppRegistered(s, owner, starts) ELSE s
    BY <1>4 DEF RegisterClient
  <2> QED
    <3> HIDE DEF s
    <3> QED BY <2>1, <2>3, <2>4, AppRegisteredSafe
<1>5. ASSUME NEW starts \in SUBSET Apps, NEW c \in XSMPClients,
             NEW owner \in Apps \cup {"new", "unknown"}, RegisterXSMPClient(c, owner, starts)
      PROVE  Consistent(m')
  <2> DEFINE h == [m.handlers EXCEPT ![c] = m.handlers[c] + 1]
             s == [m EXCEPT !.handlers = h]
             r == [s EXCEPT !.registered = s.registered \cup {c}]
  <2>1. m.handlers[c] + 1 \in 0..2
    BY <1>5, <1>m, ConstantsAssumption DEF RegisterXSMPClient, Manager, Clients
  <2>2. h \in [Clients -> 0..2]
    BY <2>1, <1>m DEF Manager, Clients
  <2>3. s \in Manager /\ r \in Manager
    <3> HIDE DEF h
    <3> QED BY <2>2, <1>m DEF Manager, Clients
  <2>4. Consistent(m) /\ {} \in SUBSET (Clients \ m.seen)
    BY <1>5, <1>i DEF RegisterXSMPClient
  <2>5. Consistent(s)
    <3> HIDE DEF h
    <3> QED BY <1>m, <2>4, FrameSafe DEF Manager
  <2>6. Consistent(r)
    <3>1. {} \in SUBSET (Clients \ s.seen)
      OBVIOUS
    <3> HIDE DEF s
    <3> QED BY <2>3, <2>5, <3>1, FrameSafe DEF Manager
  <2>7. \/ m' \in {r, s}
        \/ owner \in Apps /\ m' = AppRegistered(r, owner, starts)
    BY <1>5 DEF RegisterXSMPClient
  <2> QED
    <3> HIDE DEF r, s
    <3> QED BY <2>3, <2>5, <2>6, <2>7, AppRegisteredSafe
<1>6. ASSUME NEW c \in XSMPClients, AcceptXSMPConnection(c) PROVE Consistent(m')
  <2>1. {c} \in SUBSET (Clients \ m.seen) /\ Consistent(m)
    BY <1>6, <1>i DEF AcceptXSMPConnection, Clients
  <2>2. m' = [m EXCEPT !.clients = m.clients \cup {c}, !.seen = m.seen \cup {c}]
    BY <1>6 DEF AcceptXSMPConnection
  <2> QED BY <1>m, <2>1, <2>2, FrameSafe DEF Manager
<1>7. ASSUME NEW c \in XSMPClients, XSMPClientGone(c) PROVE Consistent(m')
  <2>1. m' \in {m, OnClientDisconnected(m, c), OnClientDisconnected(OnClientDisconnected(m, c), c)}
    BY <1>7 DEF XSMPClientGone
  <2>2. c \in Clients /\ Consistent(m)
    BY <1>7, <1>i DEF Clients, XSMPClientGone
  <2>3. Consistent(OnClientDisconnected(m, c)) /\ OnClientDisconnected(m, c) \in Manager
    BY <1>m, <2>2, OnClientDisconnectedSafe, OnClientDisconnectedType
  <2> QED BY <2>1, <2>2, <2>3, OnClientDisconnectedSafe
<1>8. ASSUME NEW c \in Clients, NEW isOk \in BOOLEAN, NEW doLast \in BOOLEAN,
             NEW cancel \in BOOLEAN, EndSessionResponse(c, isOk, doLast, cancel)
      PROVE  Consistent(m')
  BY <1>8, <1>m, <1>i, HandleEndSessionResponseSafe DEF EndSessionResponse
<1>9. ASSUME NEW n \in BusNames, NameOwnerLost(n) PROVE Consistent(m')
  <2> DEFINE taken == {i \in m.inhibitors : InhibitorBus[i] = n}
             jit == {c \in m.jit \cap DBusClients : ClientBus[c] = n}
             s == RemoveInhibitors(m, taken, jit)
  <2>1. taken \in SUBSET m.inhibitors /\ jit \in SUBSET m.jit /\ Consistent(m)
    BY <1>9, <1>i DEF NameOwnerLost
  <2>2. s \in Manager /\ Consistent(s)
    <3> HIDE DEF taken, jit
    <3> QED BY <1>m, <2>1, RemoveInhibitorsType, RemoveInhibitorsSafe
  <2>3. m' \in {s, EndIfLastClientLeft(s)}
    BY <1>9 DEF NameOwnerLost
  <2> QED
    <3> HIDE DEF s
    <3> QED BY <2>2, <2>3, EndIfLastClientLeftSafe
<1>10. ASSUME BusDisconnected PROVE Consistent(m')
  BY <1>10, <1>m, <1>i, EndIfLastClientLeftSafe DEF BusDisconnected
<1>11. ASSUME NEW c \in DBusClients, DisconnectNext(c) PROVE Consistent(m')
  <2> DEFINE s == RemoveClient(DisconnectClient(m, c), c)
  <2>1. c \in Clients /\ Consistent(m)
    BY <1>11 DEF Clients, DisconnectNext, SafetyInvariant
  <2>2. s \in Manager /\ Consistent(s)
    BY <1>m, <2>1, LeavingSafe, DisconnectClientType, RemoveClientType
  <2>3. m' \in {s, EndIfLastClientLeft(s)}
    BY <1>11 DEF DisconnectNext
  <2> QED
    <3> HIDE DEF s
    <3> QED BY <2>2, <2>3, EndIfLastClientLeftSafe
<1>12. ASSUME NEW i \in Inhibitors, Inhibit(i) PROVE Consistent(m')
  <2>1. m' = [m EXCEPT !.inhibitors = m.inhibitors \cup {i}] /\ Consistent(m)
    BY <1>12, <1>i DEF Inhibit
  <2>2. Core(m')
    BY <1>m, <2>1 DEF Core, Consistent, Manager
  <2>3. Phased(m')
    BY <1>m, <2>1 DEF Phased, Quiet, Waits, Consistent, Manager
  <2> QED BY <2>2, <2>3 DEF Consistent
<1>13. ASSUME NEW i \in Inhibitors, Uninhibit(i) PROVE Consistent(m')
  <2>1. {i} \in SUBSET m.inhibitors /\ {} \in SUBSET m.jit
    BY <1>13 DEF Uninhibit
  <2> QED BY <1>13, <1>m, <1>i, <2>1, RemoveInhibitorsSafe DEF Uninhibit
<1>14. ASSUME NEW mode \in LogoutModes, NEW prompt \in BOOLEAN, Logout(mode, prompt)
       PROVE  Consistent(m')
  <2>1. m.phase >= RUNNING /\ m.phase = RUNNING /\ ~ lockdown /\ "logout" \in LogoutDialogs
    BY <1>14 DEF Logout, RUNNING, LogoutDialogs
  <2> QED BY <1>14, <1>m, <1>i, <2>1, ShowLogoutDialogSafe, RequestLogoutSafe DEF Logout
<1>15. ASSUME Shutdown PROVE Consistent(m')
  BY <1>15, <1>m, <1>i, ShowLogoutDialogSafe DEF Shutdown, LogoutDialogs
<1>16. ASSUME NEW type \in {"reboot", "shutdown"}, RequestShutdownOrReboot(type)
       PROVE  Consistent(m')
  <2>1. m.phase >= RUNNING /\ type \in LogoutTypes \ {"none"}
    BY <1>16 DEF RequestShutdownOrReboot, RUNNING, LogoutTypes
  <2> QED BY <1>16, <1>m, <1>i, <2>1, RequestEndSafe DEF RequestShutdownOrReboot
<1>17. ASSUME NEW answer \in {"cancel", "switch-user", "logout", "suspend", "reboot",
                              "shutdown"}, LogoutDialogResponse(answer)
       PROVE  Consistent(m')
  <2> DEFINE s == [m EXCEPT !.logoutDialog = "none"]
             f == [m EXCEPT !.outcome = "assertion"]
  <2>1. Consistent(m) /\ m.logoutDialog # "none"
    BY <1>17, <1>i DEF LogoutDialogResponse
  <2>2. m.phase \in Nat /\ m.phase >= RUNNING
    BY <1>m, <2>1 DEF Consistent, Phased, Manager, STARTUP, EXIT, RUNNING
  <2>3. /\ s \in Manager /\ Core(s) /\ s.phase = m.phase /\ s.type = m.type
        /\ s.queryTimer = m.queryTimer /\ s.query = m.query /\ s.next = m.next
        /\ s.jit = m.jit /\ s.inhibitDialog = m.inhibitDialog /\ s.mode = m.mode
        /\ s.told = m.told /\ s.clients = m.clients /\ s.pending = m.pending
        /\ s.phaseTimer = m.phaseTimer /\ s.outcome = m.outcome
        /\ s.logoutDialog = "none"
    BY <1>m, <2>1 DEF Manager, LogoutDialogs, Core, Consistent
  <2>4. Phased(s)
    <3> HIDE DEF s
    <3> QED BY <2>1, <2>3 DEF Consistent, Phased, Quiet, Waits
  <2>5. Core(f) /\ Phased(f)
    BY <1>m, <2>1, <2>2 DEF Manager, Core, Consistent, Phased, Quiet, Waits
  <2>6. \/ m' \in {s, f}
        \/ answer \in {"suspend", "switch-user"} /\ m' = RequestInhibitable(s, answer)
        \/ m' = RequestLogout(s, "no-confirmation")
        \/ answer \in {"reboot", "shutdown"} /\ m' = RequestEnd(s, answer)
    BY <1>17 DEF LogoutDialogResponse
  <2> QED
    <3> HIDE DEF s, f
    <3> QED BY <2>2, <2>3, <2>4, <2>5, <2>6, RequestInhibitableSafe, RequestLogoutSafe,
               RequestEndSafe DEF Consistent, LogoutModes, LogoutTypes
<1>18. ASSUME NEW accept \in BOOLEAN, InhibitDialogResponse(accept) PROVE Consistent(m')
  <2> DEFINE s == [m EXCEPT !.inhibitDialog = "none"]
  <2>1. Consistent(m) /\ m.inhibitDialog # "none"
    BY <1>18, <1>i DEF InhibitDialogResponse
  <2>2. /\ s \in Manager /\ Core(s) /\ s.phase = m.phase /\ s.type = m.type
        /\ s.queryTimer = m.queryTimer /\ s.query = m.query /\ s.next = m.next
        /\ s.jit = m.jit /\ s.inhibitDialog = "none" /\ s.mode = m.mode
        /\ s.told = m.told /\ s.clients = m.clients /\ s.pending = m.pending
        /\ s.phaseTimer = m.phaseTimer /\ s.outcome = m.outcome
        /\ s.logoutDialog = m.logoutDialog
    BY <1>m, <2>1 DEF Manager, InhibitDialogs, Core, Consistent
  <2>3. Phased(s)
    <3> HIDE DEF s
    <3> QED BY <2>1, <2>2 DEF Consistent, Phased, Quiet, Waits
  <2>4. Consistent(AcceptInhibitDialog(m))
    BY <1>m, <2>1, <2>2, AcceptInhibitDialogSafe DEF Consistent
  <2>5. m.inhibitDialog = "logout" => Consistent(CancelEndSession(s))
    <3>1. m.inhibitDialog = "logout" => m.phase >= QUERY_END_SESSION
      BY <1>m, <2>1
         DEF Consistent, Phased, Quiet, Waits, Manager, STARTUP, EXIT, RUNNING, QUERY_END_SESSION
    <3> QED
      <4> HIDE DEF s
      <4> QED BY <2>2, <3>1, CancelEndSessionSafe
  <2>6. \/ m' \in {s, AcceptInhibitDialog(m)}
        \/ m.inhibitDialog = "logout" /\ m' = CancelEndSession(s)
    BY <1>18 DEF InhibitDialogResponse
  <2> QED
    <3> HIDE DEF s
    <3> QED BY <2>2, <2>3, <2>4, <2>5, <2>6 DEF Consistent
<1>19. ASSUME QueryTimeout PROVE Consistent(m')
  <2> DEFINE silent == {c \in Clients : m.query[c] > 0}
             j == IF m.mode = "force" THEN m.jit ELSE m.jit \cup silent
             s == [m EXCEPT !.queryTimer = FALSE, !.query = NoClients, !.jit = j]
  <2>1. Consistent(m) /\ m.queryTimer /\ m.outcome = "running"
    BY <1>19, <1>i DEF QueryTimeout, Idle
  <2>2. m.phase = QUERY_END_SESSION
    <3>1. m.phase \in 0..9
      BY <1>m DEF Manager, STARTUP, EXIT
    <3>2. m.phase > RUNNING
      BY <2>1, <3>1 DEF Consistent, Phased, Quiet, Waits, RUNNING
    <3>3. m.phase # END_SESSION /\ m.phase # EXIT
      BY <2>1 DEF Consistent, Phased
    <3> QED BY <3>1, <3>2, <3>3 DEF RUNNING, QUERY_END_SESSION, END_SESSION, EXIT
  <2>3. \A c \in Clients : m.query[c] > 0 => c \in m.clients
    BY <2>1, <2>2 DEF Consistent, Phased
  <2>4. j \in SUBSET m.clients /\ j \in SUBSET Clients /\ m.jit \in SUBSET j
    BY <1>m, <2>1, <2>3 DEF Consistent, Core, Manager
  <2>5. NoClients \in ClientBag /\ \A c \in Clients : NoClients[c] = 0
    BY DEF NoClients, ClientBag
  <2>6. /\ s \in Manager /\ s.jit = j /\ s.phase = m.phase /\ s.query = NoClients
        /\ s.clients = m.clients /\ s.seen = m.seen /\ s.told = m.told
        /\ s.inhibitors = m.inhibitors /\ s.inhibitDialog = m.inhibitDialog
        /\ s.pending = m.pending /\ s.type = m.type
    <3> HIDE DEF j
    <3> QED BY <1>m, <2>4, <2>5 DEF Manager
  <2>7. Core(s)
    <3> HIDE DEF s, j
    <3> QED BY <2>1, <2>4, <2>6 DEF Core, Consistent
  <2>8. Phased(s)
    <3> HIDE DEF s, j
    <3> QED BY <2>1, <2>2, <2>5, <2>6
            DEF Phased, Consistent, RUNNING, QUERY_END_SESSION, END_SESSION, EXIT
  <2>9. m' = QueryComplete(s)
    BY <1>19 DEF QueryTimeout
  <2> QED
    <3> HIDE DEF s
    <3> QED BY <2>2, <2>6, <2>7, <2>8, <2>9, QueryCompleteSafe DEF Consistent
<1>20. ASSUME FatalSignal PROVE SafetyInvariant'
  <2>1. /\ m' = [m EXCEPT !.phase = EXIT, !.outcome = "signal"] /\ leaving' = {}
        /\ Consistent(m)
    BY <1>20, <1>i DEF FatalSignal, Idle
  <2>2. Core(m') /\ m'.phase = EXIT /\ m'.outcome = "signal"
    BY <1>m, <2>1 DEF Core, Consistent, Manager
  <2> QED BY <2>1, <2>2 DEF SafetyInvariant, Core
<1>21. ASSUME SetLockdown PROVE SafetyInvariant'
  BY <1>21 DEF SetLockdown, SafetyInvariant, Consistent, Core, Phased, Quiet, Waits
<1>22. ASSUME UNCHANGED vars PROVE SafetyInvariant'
  BY <1>22 DEF vars, SafetyInvariant, Consistent, Core, Phased, Quiet, Waits
<1> QED
  BY <1>1, <1>2, <1>3, <1>4, <1>5, <1>6, <1>7, <1>8, <1>9, <1>10, <1>11, <1>12, <1>13,
     <1>14, <1>15, <1>16, <1>17, <1>18, <1>19, <1>20, <1>21, <1>22, <1>c
  DEF Next, StartupStep, ClientStep, UserStep

-----------------------------------------------------------------------------
(* The invariants *)

\* The strengthening is inductive, given the types.
THEOREM SafetyInvariantHolds == Spec => []SafetyInvariant
<1>1. Init => SafetyInvariant
  BY InitSafe
<1>2. TypeOK /\ SafetyInvariant /\ [Next]_vars => SafetyInvariant'
  BY NextSafe
<1> QED BY <1>1, <1>2, TypeCorrect, PTL DEF Spec

\* A startup phase is never open without an application to wait for and the
\* timer that gives up on it (end_phase, app_registered, on_phase_timeout).
THEOREM StartupWaitsHolds == Spec => []StartupWaits
<1>1. TypeOK /\ SafetyInvariant => StartupWaits
  BY DEF TypeOK, SafetyInvariant, StartupWaits, Consistent, Phased, Waits, Manager,
         STARTUP, INITIALIZATION, APPLICATION, RUNNING, EXIT
<1> QED BY <1>1, TypeCorrect, SafetyInvariantHolds, PTL

\* Nothing of a startup or of a cancelled logout is left in a running session
\* (start_phase, cancel_end_session).
THEOREM RunningIsQuietHolds == Spec => []RunningIsQuiet
<1>1. TypeOK /\ SafetyInvariant => RunningIsQuiet
  <2> SUFFICES ASSUME TypeOK, SafetyInvariant, m.phase \in INITIALIZATION..RUNNING
               PROVE  /\ m.phase = RUNNING => ~ m.phaseTimer /\ m.pending = {}
                      /\ ~ m.queryTimer
                      /\ IsEmpty(m.query) /\ IsEmpty(m.next)
                      /\ m.jit = {}
                      /\ m.inhibitDialog # "logout"
    BY DEF RunningIsQuiet
  <2>1. Consistent(m) /\ m.phase <= RUNNING
    BY DEF SafetyInvariant, INITIALIZATION, RUNNING, EXIT
  <2>2. Quiet(m)
    BY <2>1 DEF Consistent, Phased
  <2>3. m.phase = RUNNING => ~ m.phaseTimer /\ m.pending = {}
    BY <2>1 DEF Consistent, Phased, RUNNING
  <2> QED BY <2>2, <2>3 DEF Quiet, IsEmpty, NoClients
<1> QED BY <1>1, TypeCorrect, SafetyInvariantHolds, PTL

\* Every client of a running session that was asked or told to end was told of
\* the cancellation (cancel_end_session).
THEOREM CancelReachesEveryClientHolds == Spec => []CancelReachesEveryClient
<1>1. SafetyInvariant => CancelReachesEveryClient
  BY DEF SafetyInvariant, CancelReachesEveryClient, Consistent, Phased, Quiet, RUNNING, EXIT
<1> QED BY <1>1, SafetyInvariantHolds, PTL

\* The forced mode does not outlive the end of the session it is for
\* (do_inhibit_dialog_action, cancel_end_session).
THEOREM ForceEndsWithShutdownHolds == Spec => []ForceEndsWithShutdown
<1>1. TypeOK /\ SafetyInvariant => ForceEndsWithShutdown
  BY DEF TypeOK, SafetyInvariant, ForceEndsWithShutdown, Consistent, Phased, Quiet, Manager,
         STARTUP, RUNNING, QUERY_END_SESSION, EXIT
<1> QED BY <1>1, TypeCorrect, SafetyInvariantHolds, PTL

\* A session that is ending has a logout type, so csm_manager_quit knows what
\* to do.
THEOREM EndIsChosenHolds == Spec => []EndIsChosen
<1>1. SafetyInvariant => EndIsChosen
  BY DEF SafetyInvariant, EndIsChosen, Consistent, Phased
<1> QED BY <1>1, SafetyInvariantHolds, PTL

\* The query waits for clients that are in the store, so its timeout uses live
\* pointers (_disconnect_client, _on_query_end_session_timeout).
THEOREM QueriedClientsExistHolds == Spec => []QueriedClientsExist
<1>1. SafetyInvariant => QueriedClientsExist
  BY DEF SafetyInvariant, QueriedClientsExist, Consistent, Phased, QUERY_END_SESSION, EXIT
<1> QED BY <1>1, SafetyInvariantHolds, PTL

\* A client that is gone holds no just-in-time inhibitor
\* (_disconnect_client, inhibitor_has_client_id).
THEOREM JitInhibitorsOwnedHolds == Spec => []JitInhibitorsOwned
<1>1. SafetyInvariant => JitInhibitorsOwned
  BY DEF SafetyInvariant, JitInhibitorsOwned, Consistent, Core
<1> QED BY <1>1, SafetyInvariantHolds, PTL

\* The inhibit dialog is up only while it has something to list
\* (on_store_inhibitor_removed of csm-inhibit-dialog.c).
THEOREM DialogHasInhibitorsHolds == Spec => []DialogHasInhibitors
<1>1. SafetyInvariant => DialogHasInhibitors
  BY DEF SafetyInvariant, DialogHasInhibitors, Consistent, Core
<1> QED BY <1>1, SafetyInvariantHolds, PTL

\* While clients are told to end, the phase timer runs (do_phase_end_session
\* and its second part).
THEOREM EndSessionIsTimedHolds == Spec => []EndSessionIsTimed
<1>1. SafetyInvariant => EndSessionIsTimed
  BY DEF SafetyInvariant, EndSessionIsTimed, Consistent, Phased, END_SESSION, EXIT
<1> QED BY <1>1, SafetyInvariantHolds, PTL
=============================================================================
