------------------------------- MODULE Power -------------------------------
(***************************************************************************)
(* Switching the machine off, restarting it and sending it to sleep: the   *)
(* part of csm-manager.c that asks logind or ConsoleKit over the system    *)
(* bus and falls back on the display manager (cdm.c), which acts on what   *)
(* it was told once the session is over.                                   *)
(*                                                                         *)
(* How clients are asked and stopped is in SessionManager; here a phase of *)
(* the end simply ends or is cancelled.                                    *)
(***************************************************************************)
EXTENDS Integers, SequencesExt, SystemBus

CONSTANTS
  ServiceAble, \* what the service can do, CanReboot and CanPowerOff
  CdmAble,     \* what the display manager can do, its QUERY_LOGOUT_ACTION
  MaxRequests, \* bound: what the user asks for
  MaxFaults    \* bound: services that go

Kinds == {"reboot", "shutdown"}

ASSUME PowerAssumption ==
  /\ ServiceAble \subseteq Kinds /\ CdmAble \subseteq Kinds
  /\ MaxRequests \in Nat /\ MaxFaults \in Nat

Endings == Kinds \cup {"logout"}

VARIABLES
  bus,      \* the system bus and the service on it
  link,     \* the manager's connection to them
  news,     \* a NameOwnerChanged is on its way
  cdm,      \* the display manager and the action it was told
  known,    \* available_actions: what is known of what it can do
  end,      \* phase, logout_type and the handlers of privileges-completed
  dialogs,  \* what the logout dialog offers, if it is up, and what the inhibit dialog is for
  inhibited, \* somebody inhibits sleep and the end of the session
  lockedDown, \* the setting that disables logging out
  machine,  \* what the machine does
  asked,    \* the end that was asked for last
  count     \* requests and faults so far

vars == <<bus, link, news, cdm, known, end, dialogs, inhibited, lockedDown, machine, asked, count>>
world == <<bus, news, inhibited, lockedDown>>

Init ==
  /\ bus \in [up : {TRUE}, service : BOOLEAN]
  /\ link = NoLink /\ news = FALSE
  /\ cdm \in [up : {TRUE}, action : {"none"} \cup CdmAble] \cup {[up |-> FALSE, action |-> "none"]}
  /\ known = {}
  /\ end = [phase |-> "running", type |-> "none", handlers |-> <<>>]
  /\ dialogs = [logout |-> {}, inhibit |-> "none"]
  /\ inhibited \in BOOLEAN /\ lockedDown = FALSE
  /\ machine = "on"
  /\ asked = "none"
  /\ count = [requests |-> 0, faults |-> 0]

-----------------------------------------------------------------------------
(* The end of the session *)

\* cdm_init_protocol_connection, cdm_authenticate_connection
CdmHears(c) == c.up

\* cdm_set_logout_action; the answer is not looked at
CdmSet(c, action) ==
  IF CdmHears(c) /\ action \in {"none"} \cup CdmAble THEN [c EXCEPT !.action = action] ELSE c

\* cdm_update_logout_actions: asked at most every other second, and nothing is forgotten
\* when the display manager has gone
CdmKnown == IF CdmHears(cdm) THEN {known, CdmAble} ELSE {known}

\* end_phase
EndPhase(s) ==
  [s EXCEPT !.phase = CASE @ = "running" -> IF lockedDown THEN @ ELSE "query"
                        [] @ = "query"   -> "end"
                        [] OTHER         -> "exit"]

\* Variant: the handler stays connected
CompletedKept(s, kind) == EndPhase([s EXCEPT !.type = kind])

\* g_signal_handlers_disconnect_by_func
Disconnect(handlers, kind) ==
  FoldLeft(LAMBDA rest, k : IF k = kind THEN rest ELSE Append(rest, k), <<>>, handlers)

\* request_reboot_privileges_completed_*, request_shutdown_privileges_completed_*
Completed(s, kind) ==
  EndPhase([s EXCEPT !.type = kind, !.handlers = Disconnect(@, kind)])

\* request_reboot, request_shutdown: both services emit privileges-completed at once,
\* which calls every handler that is connected
Requested(s, kind) ==
  LET handlers == Append(s.handlers, kind)
  IN  FoldLeft(Completed, [s EXCEPT !.handlers = handlers], handlers)

\* request_logout
LogoutRequested(s) == EndPhase([s EXCEPT !.type = "logout"])

\* The main loop runs: the manager is not in a call of its own
Listening == end.phase \in {"running", "query", "end"} /\ machine = "on"

Counted == count.requests < MaxRequests /\ count' = [count EXCEPT !.requests = @ + 1]

Ask(ending) ==
  /\ end' = IF ending = "logout" THEN LogoutRequested(end) ELSE Requested(end, ending)
  /\ asked' = ending

\* csm_manager_request_reboot, csm_manager_request_shutdown, user_logout
Request(ending) ==
  /\ Listening /\ end.phase = "running" /\ Counted
  /\ Ask(ending)
  /\ UNCHANGED <<known, world, link, cdm, dialogs, machine>>

\* csm_systemd_can_restart, csm_systemd_can_stop and those of csm-consolekit.c
Able(l) == IF Reaches(l, bus) THEN ServiceAble ELSE {}

\* csm_logout_supports_reboot, csm_logout_supports_shutdown
Supported(l, ofCdm) == Able(l) \cup ofCdm

\* csm_manager_shutdown, user_logout: show_shutdown_dialog, show_logout_dialog
ShowDialog ==
  /\ Listening /\ end.phase = "running" /\ ~ lockedDown /\ Counted
  /\ link' = Ensure(link, bus)
  /\ known' \in IF Able(link') = Kinds THEN {known} ELSE CdmKnown
  /\ dialogs' = [dialogs EXCEPT !.logout = {"logout", "sleep"} \cup Supported(link', known')]
  /\ UNCHANGED <<world, cdm, end, machine, asked>>

\* logout_dialog_response, whatever the phase is by then
RespondEnd(ending) ==
  /\ Listening /\ ending \in dialogs.logout
  /\ dialogs' = [dialogs EXCEPT !.logout = {}]
  /\ Ask(ending)
  /\ UNCHANGED <<known, world, link, cdm, machine, count>>

\* cancel_end_session
Cancelled ==
  /\ end' = [end EXCEPT !.phase = "running", !.type = "none"]
  /\ cdm' = CdmSet(cdm, "none")
  /\ asked' = "none"

\* A client cancels the end of the session
CancelEnd ==
  /\ Listening /\ end.phase # "running"
  /\ dialogs' = [dialogs EXCEPT !.inhibit = "none"]
  /\ Cancelled
  /\ UNCHANGED <<known, world, link, machine, count>>

\* query_end_session_complete
QueryComplete ==
  /\ Listening /\ end.phase = "query"
  /\ IF inhibited
     THEN /\ dialogs.inhibit = "none"
          /\ dialogs' = [dialogs EXCEPT !.inhibit = "end"]
          /\ UNCHANGED end
     ELSE end' = EndPhase(end) /\ UNCHANGED dialogs
  /\ UNCHANGED <<known, world, link, cdm, machine, asked, count>>

\* do_phase_end_session is over
EndComplete ==
  /\ Listening /\ end.phase = "end"
  /\ end' = EndPhase(end)
  /\ UNCHANGED <<known, world, link, cdm, dialogs, machine, asked, count>>

\* do_phase_exit, csm_manager_quit up to the call of the service
Quit ==
  /\ end.phase = "exit"
  /\ IF end.type \in Kinds
     THEN /\ end' = [end EXCEPT !.phase = "calling"]
          /\ cdm' = CdmSet(cdm, "none")
          /\ link' = Ensure(link, bus)
     ELSE /\ end' = [end EXCEPT !.phase = "over"]
          /\ UNCHANGED <<cdm, link>>
  /\ UNCHANGED <<known, world, dialogs, machine, asked, count>>

\* csm_systemd_attempt_restart, csm_systemd_attempt_stop, csm_consolekit_attempt_restart,
\* csm_consolekit_attempt_stop: the service does it, perhaps after a password
Obeyed ==
  /\ end.phase = "calling" /\ Reaches(link, bus) /\ end.type \in ServiceAble
  /\ machine' = end.type
  /\ end' = [end EXCEPT !.phase = "over"]
  /\ UNCHANGED <<known, world, link, cdm, dialogs, asked, count>>

\* Variant: there is no fallback
FallbackNone(c, kind) == c

\* The action of quit_request_completed_consolekit, quit_request_completed_systemd
Fallback(c, kind) == CdmSet(c, kind)

\* The service cannot be reached, or refuses
Refused ==
  /\ end.phase = "calling"
  /\ cdm' = Fallback(cdm, end.type)
  /\ end' = [end EXCEPT !.phase = "over"]
  /\ UNCHANGED <<known, world, link, dialogs, machine, asked, count>>

-----------------------------------------------------------------------------
(* Sleep *)

\* csm_consolekit_can_suspend, csm_consolekit_attempt_suspend, the same for hibernation
\* and those of csm-systemd.c: what may come of the calls
SleepOutcomes(l) == {"on"} \cup (IF Reaches(l, bus) THEN {"asleep"} ELSE {})

\* manager_attempt_suspend, manager_attempt_hibernate; that the screen is locked first
\* is left out
AttemptSleep ==
  /\ link' = Ensure(link, bus)
  /\ machine' \in SleepOutcomes(link')

\* logout_dialog_response, request_suspend, request_hibernate
RespondSleep ==
  /\ Listening /\ "sleep" \in dialogs.logout
  /\ IF inhibited
     THEN /\ dialogs' = [logout  |-> {},
                         inhibit |-> IF dialogs.inhibit = "none" THEN "sleep" ELSE dialogs.inhibit]
          /\ UNCHANGED <<link, machine>>
     ELSE dialogs' = [dialogs EXCEPT !.logout = {}] /\ AttemptSleep
  /\ UNCHANGED <<known, world, cdm, end, asked, count>>

\* inhibit_dialog_response, do_inhibit_dialog_action: accepted by the user, or by the
\* dialog itself as the last inhibitor goes
AcceptInhibited ==
  /\ Listening /\ dialogs.inhibit # "none"
  /\ dialogs' = [dialogs EXCEPT !.inhibit = "none"]
  /\ \/ dialogs.inhibit = "sleep" /\ AttemptSleep /\ UNCHANGED end
     \/ dialogs.inhibit = "end" /\ end' = EndPhase(end) /\ UNCHANGED <<link, machine>>
  /\ UNCHANGED <<known, world, cdm, asked, count>>

\* inhibit_dialog_response: cancelled
RejectInhibited ==
  /\ Listening /\ dialogs.inhibit # "none"
  /\ dialogs' = [dialogs EXCEPT !.inhibit = "none"]
  /\ IF dialogs.inhibit = "end" /\ end.phase # "running"
     THEN Cancelled
     ELSE UNCHANGED <<end, cdm, asked>>
  /\ UNCHANGED <<known, world, link, machine, count>>

\* on_presence_status_changed, csm_systemd_set_session_idle,
\* csm_consolekit_set_session_idle, and every question what the service can do: the
\* link is made
Consult ==
  /\ Listening
  /\ link' = Ensure(link, bus)
  /\ UNCHANGED <<known, world, cdm, end, dialogs, machine, asked, count>>

-----------------------------------------------------------------------------
(* What goes on around *)

Faulty == count.faults < MaxFaults /\ count' = [count EXCEPT !.faults = @ + 1]

BusDies ==
  /\ bus.up /\ Faulty
  /\ bus' = [up |-> FALSE, service |-> FALSE]
  /\ link' = BusGone(ServiceGone(link))
  /\ news' = FALSE
  /\ UNCHANGED <<known, cdm, end, dialogs, inhibited, lockedDown, machine, asked>>

ServiceDies ==
  /\ bus.service /\ Faulty
  /\ bus' = [bus EXCEPT !.service = FALSE]
  /\ link' = ServiceGone(link)
  /\ news' = (link.conn = "live" /\ link.names)
  /\ UNCHANGED <<known, cdm, end, dialogs, inhibited, lockedDown, machine, asked>>

BusComes ==
  /\ ~ bus.up
  /\ bus' = [up |-> TRUE, service |-> FALSE]
  /\ UNCHANGED <<known, link, news, cdm, end, dialogs, inhibited, lockedDown, machine, asked, count>>

ServiceComes ==
  /\ bus.up /\ ~ bus.service
  /\ bus' = [bus EXCEPT !.service = TRUE]
  /\ news' = (link.conn = "live" /\ link.names)
  /\ UNCHANGED <<known, link, cdm, end, dialogs, inhibited, lockedDown, machine, asked, count>>

\* The filters of the connection
HearDisconnected ==
  /\ Listening /\ link.conn = "dead"
  /\ link' = Disconnected(link)
  /\ UNCHANGED <<known, world, cdm, end, dialogs, machine, asked, count>>

HearOwnerChanged ==
  /\ Listening /\ news
  /\ news' = FALSE
  /\ link' = NameOwnerChanged(link, bus)
  /\ UNCHANGED <<known, bus, cdm, end, dialogs, inhibited, lockedDown, machine, asked, count>>

\* The display manager stops, or starts and knows nothing, before it has to act
CdmChanges ==
  /\ Faulty /\ end.phase # "over"
  /\ cdm' = [up |-> ~ cdm.up, action |-> "none"]
  /\ UNCHANGED <<known, world, link, end, dialogs, machine, asked>>

\* Inhibitors and settings come and go, the machine wakes
Inhibit ==
  /\ inhibited' = ~ inhibited
  /\ UNCHANGED <<known, bus, link, news, cdm, end, dialogs, lockedDown, machine, asked, count>>
LockDown ==
  /\ lockedDown' = ~ lockedDown
  /\ UNCHANGED <<known, bus, link, news, cdm, end, dialogs, inhibited, machine, asked, count>>
Wake ==
  /\ machine = "asleep"
  /\ machine' = "on"
  /\ UNCHANGED <<known, world, link, cdm, end, dialogs, asked, count>>

Next ==
  \/ \E ending \in Endings : Request(ending) \/ RespondEnd(ending)
  \/ ShowDialog \/ RespondSleep \/ AcceptInhibited \/ RejectInhibited \/ Consult
  \/ CancelEnd \/ QueryComplete \/ EndComplete \/ Quit \/ Obeyed \/ Refused
  \/ BusDies \/ BusComes \/ ServiceDies \/ ServiceComes \/ CdmChanges
  \/ HearDisconnected \/ HearOwnerChanged
  \/ Inhibit \/ LockDown \/ Wake

Spec == Init /\ [][Next]_vars

-----------------------------------------------------------------------------
(* Properties *)

\* A session that is over ends the way the user asked for last, also after other ways
\* were asked for and cancelled; when the service did not restart or stop the machine
\* the display manager will, if it runs, and never both (request_reboot's comment,
\* csm-manager.c:3091, and csm_manager_quit).
EndsAsAsked ==
  end.phase = "over" =>
    /\ asked \in Endings /\ end.type = asked
    /\ machine \in {"on", asked}
    /\ asked \in CdmAble /\ cdm.up => cdm.action = IF machine = asked THEN "none" ELSE asked

\* A request made anew after one that was cancelled asks the clients again: it takes
\* the session one phase on, however often the same signal was waited for before ("make
\* sure we disconnect the signal handler so that it's not called again next time the
\* event is fired -- this can happen if the reboot is cancelled", csm-manager.c:3025).
ClientsAreAsked == [][ end.phase = "running" => end.phase' \in {"running", "query"} ]_vars

\* Once everything the bus has told is heard, the proxy is that of the running service:
\* the manager neither calls one that is gone nor misses one that has come, whatever
\* order bus and service went and came in (the two ensure connection functions).
LinkFollowsService ==
  link.conn = "live" /\ link.names /\ ~ news
    => link.proxy = IF bus.service THEN "live" ELSE "none"
=============================================================================
