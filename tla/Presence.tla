------------------------------ MODULE Presence ------------------------------
(***************************************************************************)
(* CsmPresence (cafe-session/csm-presence.c) with the idle monitor it uses *)
(* (gs-idle-monitor.c): the status that other programs set and see, and    *)
(* that is IDLE while nobody uses the session.                             *)
(*                                                                         *)
(* The record p is the presence.  Its operators take it to its next state; *)
(* an action is the handler of one message from the outside: of the X      *)
(* server, which counts how long the user has been away, of the            *)
(* screensaver, of the session manager and of callers on the bus.          *)
(***************************************************************************)
EXTENDS Naturals, Sequences

CONSTANTS Inhibitors,  \* the inhibitors of idleness that may exist
          MaxAway,     \* bound: the longest absence, in steps of the idle counter
          MaxEvents    \* bound: alarms under way

ASSUME PresenceAssumption == MaxAway \in Nat \ {0} /\ MaxEvents \in Nat \ {0}

VARIABLES
  p,           \* the presence
  away,        \* IDLETIME, the counter of the X server
  inhibitors,  \* the inhibitors of idleness in the manager's store
  proxy,       \* screensaver_proxy is connected
  chosen       \* the status a caller has last set

vars == <<p, away, inhibitors, proxy, chosen>>

AVAILABLE == 0
INVISIBLE == 1
BUSY == 2
IDLE == 3
Status == AVAILABLE..IDLE

\* A timeout or a watch of 0 is none
Delays == 0..MaxAway

Presence ==
  [status  : Status,
   saved   : Status,   \* saved_status
   enabled : BOOLEAN,  \* idle_enabled
   timeout : Delays,   \* idle_timeout
   active  : BOOLEAN,  \* screensaver_active
   watch   : Delays,   \* the interval of the watch, if there is one
   events  : Seq(BOOLEAN)] \* its alarms under way: positive or negative

-----------------------------------------------------------------------------

\* Variant: the status is reset before it is restored
SetSessionIdleForgetful(q, isIdle) ==
  CASE isIdle /\ q.status # IDLE   -> [q EXCEPT !.saved = q.status, !.status = IDLE]
    [] ~ isIdle /\ q.status = IDLE -> [q EXCEPT !.status = AVAILABLE, !.saved = AVAILABLE]
    [] OTHER                       -> q

\* Variant: a session that is idle already is marked again
SetSessionIdleAgain(q, isIdle) ==
  CASE isIdle                      -> [q EXCEPT !.saved = q.status, !.status = IDLE]
    [] ~ isIdle /\ q.status = IDLE -> [q EXCEPT !.status = q.saved]
    [] OTHER                       -> q

\* set_session_idle
SetSessionIdle(q, isIdle) ==
  CASE isIdle /\ q.status # IDLE   -> [q EXCEPT !.saved = q.status, !.status = IDLE]
    [] ~ isIdle /\ q.status = IDLE -> [q EXCEPT !.status = q.saved, !.saved = AVAILABLE]
    [] OTHER                       -> q

\* Variant: a watch is only ever replaced by another one
ResetIdleWatchKept(q) ==
  IF ~ q.active /\ q.enabled /\ q.timeout > 0
  THEN [q EXCEPT !.watch = q.timeout, !.events = <<>>]
  ELSE q

\* reset_idle_watch.  The alarms of a watch that is removed find no watch any
\* more, and those of a new one tell of crossings from now on.
ResetIdleWatch(q) ==
  [q EXCEPT !.watch = IF ~ q.active /\ q.enabled THEN q.timeout ELSE 0,
            !.events = <<>>]

\* csm_presence_set_idle_enabled
SetIdleEnabled(q, enabled) ==
  IF q.enabled # enabled THEN ResetIdleWatch([q EXCEPT !.enabled = enabled]) ELSE q

\* on_screensaver_active_changed
ScreensaverActive(q, active) ==
  IF q.active # active
  THEN SetSessionIdle(ResetIdleWatch([q EXCEPT !.active = active]), active)
  ELSE q

-----------------------------------------------------------------------------

\* csm_presence_new and load_idle_delay_from_gsettings
Init ==
  /\ \E delay \in Delays :
       p = [status |-> AVAILABLE, saved |-> AVAILABLE, enabled |-> FALSE,
            timeout |-> delay, active |-> FALSE, watch |-> 0, events |-> <<>>]
  /\ away = 0
  /\ inhibitors = {}
  /\ proxy = FALSE
  /\ chosen = AVAILABLE

\* The counter of the X server passes the interval of the watch, upwards or
\* downwards, and its alarm goes on its way.
Alarm(positive) ==
  /\ Len(p.events) < MaxEvents
  /\ p' = [p EXCEPT !.events = Append(@, positive)]

UserStaysAway ==
  /\ away < MaxAway
  /\ away' = away + 1
  /\ IF p.watch = away + 1 THEN Alarm(TRUE) ELSE UNCHANGED p
  /\ UNCHANGED <<inhibitors, proxy, chosen>>

UserReturns ==
  /\ away > 0
  /\ away' = 0
  /\ IF p.watch \in 1..away THEN Alarm(FALSE) ELSE UNCHANGED p
  /\ UNCHANGED <<inhibitors, proxy, chosen>>

\* handle_alarm_notify_event and on_idle_timeout
AlarmNotify ==
  /\ p.events # <<>>
  /\ p' = SetSessionIdle([p EXCEPT !.events = Tail(@)], Head(p.events))
  /\ UNCHANGED <<away, inhibitors, proxy, chosen>>

\* update_idle of the manager: an inhibitor, of idleness or not, is added, some
\* are removed, or the session starts to run.
UpdateIdle ==
  /\ \/ inhibitors' \in SUBSET inhibitors
     \/ \E i \in Inhibitors : inhibitors' = inhibitors \cup {i}
  /\ p' = SetIdleEnabled(p, inhibitors' = {})
  /\ UNCHANGED <<away, proxy, chosen>>

\* Variant: the watch keeps its interval
SetIdleTimeoutLater(delay) ==
  /\ p' = [p EXCEPT !.timeout = delay]
  /\ UNCHANGED <<away, inhibitors, proxy, chosen>>

\* csm_presence_set_idle_timeout, by on_gsettings_key_changed
SetIdleTimeout(delay) ==
  /\ p' = IF delay # p.timeout THEN ResetIdleWatch([p EXCEPT !.timeout = delay]) ELSE p
  /\ UNCHANGED <<away, inhibitors, proxy, chosen>>

\* csm_presence_set_status, by a caller on the bus
SetStatus(status) ==
  /\ p' = [p EXCEPT !.status = status]
  /\ chosen' = status
  /\ UNCHANGED <<away, inhibitors, proxy>>

\* on_bus_name_owner_changed: the screensaver has come
ScreensaverAppears ==
  /\ ~ proxy
  /\ proxy' = TRUE
  /\ UNCHANGED <<p, away, inhibitors, chosen>>

\* on_screensaver_active_changed
ScreensaverChanges(active) ==
  /\ proxy
  /\ p' = ScreensaverActive(p, active)
  /\ UNCHANGED <<away, inhibitors, proxy, chosen>>

\* on_screensaver_proxy_destroy: the screensaver has gone
ScreensaverLeaves ==
  /\ proxy
  /\ proxy' = FALSE
  /\ p' = ResetIdleWatch(SetSessionIdle([p EXCEPT !.active = FALSE], FALSE))
  /\ UNCHANGED <<away, inhibitors, chosen>>

Next ==
  \/ UserStaysAway \/ UserReturns \/ AlarmNotify \/ UpdateIdle
  \/ \E delay \in Delays : SetIdleTimeout(delay)
  \/ \E status \in Status : SetStatus(status)
  \/ \E active \in BOOLEAN : ScreensaverChanges(active)
  \/ ScreensaverAppears \/ ScreensaverLeaves

Spec == Init /\ [][Next]_vars

\* The main loop dispatches the alarms that have arrived.
FairSpec == Spec /\ WF_vars(AlarmNotify)

-----------------------------------------------------------------------------
(* Properties *)

\* The type invariant.
PresenceTypeOK ==
  /\ p \in Presence
  /\ away \in 0..MaxAway
  /\ inhibitors \subseteq Inhibitors
  /\ proxy \in BOOLEAN
  /\ chosen \in Status

\* Whatever changes, in whatever order - the setting, the inhibitors, the
\* screensaver -, there is a watch of the set delay exactly when idleness is to
\* be watched: none lingers, none is missing and none has a former delay.
WatchIsCurrent ==
  p.watch = IF p.enabled /\ ~ p.active THEN p.timeout ELSE 0

\* An inhibitor of idleness does what the interface promises, "Inhibit the
\* session being marked as idle": no alarm marks it, even one that was under way
\* when the inhibitor came.  (The screensaver does mark it.)
InhibitedIsNotMarked ==
  [][AlarmNotify /\ p.status # IDLE /\ p'.status = IDLE => inhibitors = {}]_vars

\* The status that a caller has set outlives every idleness, also when it was
\* set in the middle of one.  (A caller may also set IDLE, and then it does not.)
ChosenStatusReturns ==
  p.status # IDLE /\ chosen # IDLE => p.status = chosen

\* An idle session may be left marked as idle when its user returns, because
\* the watch was taken away in between, but not for good: once a watch remains,
\* a user who leaves and returns again is seen.
IdlenessEnds ==
  (/\ []<>(away = 0)
   /\ []<>(away = MaxAway)
   /\ <>[](p.watch = MaxAway))
  => []<>(p.status # IDLE)
=============================================================================
