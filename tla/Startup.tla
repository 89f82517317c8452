------------------------------ MODULE Startup ------------------------------
(***************************************************************************)
(* The applications of a session from their start to their end: what       *)
(* CsmManager (cafe-session/csm-manager.c) does with them, composed with   *)
(* CsmAutostartApp (AutostartApp) and with the way a process takes through *)
(* CsmXsmpServer (XsmpServer) to become a client.                          *)
(*                                                                         *)
(* SessionManager models the phases of the manager with all that ends a    *)
(* session; here the phases go by as a whole and the applications, their   *)
(* processes and their conditions are what is looked at.                   *)
(***************************************************************************)
EXTENDS AutostartApp, Sequences, FiniteSets

CONSTANTS
  Apps,           \* the applications in the store, none of them disabled
  PhaseOf,        \* the phase each of them is started in
  DelayedApps,    \* those with an autostart delay
  RestartedApps,  \* those that their file or their client wants restarted
  ConditionApps,  \* those with an AutostartCondition
  SettingApps,    \* ... of which these look at a setting, the others at a file
  ActivatedApps,  \* those started and registered over D-Bus
  XsmpApps,       \* those whose programs speak the session protocol
  MaxChanges      \* bound: how often conditions change

STARTUP == 0
APPLICATION == 5
RUNNING == 6
QUERY_END_SESSION == 7

ASSUME StartupAssumption ==
  /\ PhaseOf \in [Apps -> 1..APPLICATION]
  /\ DelayedApps \subseteq Apps /\ ConditionApps \subseteq Apps
  /\ \A a \in DelayedApps : PhaseOf[a] = APPLICATION
  /\ MaxChanges \in Nat

VARIABLES
  phase,     \* priv->phase
  pending,   \* priv->pending_apps
  handlers,  \* the applications whose exited and registered call app_registered
  timer,     \* priv->phase_timeout_id
  stopped,   \* priv->condition_clients: how often the client of a process is in it
  apps,      \* the applications
  holds,     \* whether the condition of an application holds
  events,    \* the changes of files its monitor has yet to tell it
  changes    \* how often conditions have changed

vars == <<phase, pending, handlers, timer, stopped, apps, holds, events, changes>>

\* What the manager keeps of them, as one record for its operators
Manager ==
  [phase : STARTUP..QUERY_END_SESSION, pending : SUBSET Apps, handlers : SUBSET Apps,
   timer : BOOLEAN, apps : [Apps -> App]]

m == [phase |-> phase, pending |-> pending, handlers |-> handlers, timer |-> timer,
      apps |-> apps]

Becomes(q) ==
  /\ phase' = q.phase
  /\ pending' = q.pending
  /\ handlers' = q.handlers
  /\ timer' = q.timer
  /\ apps' = q.apps

\* Which of the applications that are still to come start without an error.  One
\* that would exceed the bound does not.
Successes(q) == SUBSET {a \in Apps : q.phase < PhaseOf[a] /\ CanStart(q.apps[a])}

\* csm_app_start, which may fail
Started(a, app) ==
  {app} \cup IF CanStart(app) THEN {Start(app, a \in ActivatedApps)} ELSE {}

\* csm_app_peek_is_conditionally_disabled
Disabled(a) == a \in ConditionApps /\ ~ holds[a]

Look(a, app) ==
  IF a \in ConditionApps THEN LookAtCondition(app, holds[a]) ELSE app

\* _start_app, for an application whose phase has come
BeginApp(a, app, ok) ==
  LET seen == [Look(a, app) EXCEPT !.watched = TRUE]
  IN  IF Disabled(a) THEN seen
      ELSE IF a \in DelayedApps THEN [seen EXCEPT !.delayed = TRUE]
      ELSE IF a \in ok THEN Start(seen, a \in ActivatedApps)
      ELSE seen

\* end_phase of a startup phase, and of those after it in which no application is
\* started that would have to be waited for, with their do_phase_startup
EndPhase(q, ok) ==
  LET Begins(a) == ~ Disabled(a) /\ a \notin DelayedApps /\ a \in ok
      waited    == {p \in (q.phase + 1)..(APPLICATION - 1) :
                      \E a \in Apps : PhaseOf[a] = p /\ Begins(a)}
      next      == IF waited = {} THEN RUNNING
                   ELSE CHOOSE p \in waited : \A o \in waited : p <= o
      reached   == {a \in Apps : q.phase < PhaseOf[a] /\ PhaseOf[a] <= next}
      begun     == {a \in Apps : PhaseOf[a] = next /\ Begins(a)}
  IN  [phase    |-> next,
       pending  |-> begun,
       handlers |-> q.handlers \cup begun,
       timer    |-> begun # {},
       apps     |-> [a \in Apps |-> IF a \in reached THEN BeginApp(a, q.apps[a], ok)
                                    ELSE q.apps[a]]]

\* app_registered, on registered or exited
AppRegistered(q, a, ok) ==
  LET left == [q EXCEPT !.pending = @ \ {a}, !.handlers = @ \ {a}]
  IN  IF left.pending = {} THEN EndPhase(left, ok) ELSE left

\* Variant: an application that is waited for is taken for the one that tells
EmitForAnother(q, a, ok) ==
  IF q.handlers = {} THEN q ELSE AppRegistered(q, CHOOSE b \in q.handlers : TRUE, ok)

\* csm_app_exited and csm_app_registered: the manager is told if it listens
Emit(q, a, ok) == IF a \in q.handlers THEN AppRegistered(q, a, ok) ELSE q

ClientsOf(q, a) == {n \in Numbers : q.apps[a].procs[n].conn.state = "client"}

\* find_app_for_startup_id
AppFound(q, a) == q.phase < APPLICATION => a \in q.pending

Tell(app, n) == [app EXCEPT !.procs = [@ EXCEPT ![n].told = TRUE]]

SetConn(q, a, n, conn) == [q EXCEPT !.apps[a].procs[n].conn = conn]

\* csm_app_stop
Stopped(a, app) == IF a \in ActivatedApps THEN app ELSE Stop(app)

\* csm_autostart_app_restart does not wait for what it has stopped; a start that
\* fails leaves it at that.
Restarted(a, app) == Started(a, Stopped(a, app))

-----------------------------------------------------------------------------

Init ==
  /\ phase = STARTUP
  /\ pending = {}
  /\ handlers = {}
  /\ timer = FALSE
  /\ stopped = [a \in Apps |-> [n \in Numbers |-> 0]]
  /\ apps = [a \in Apps |-> NewApp]
  /\ holds \in [Apps -> BOOLEAN] /\ \A a \in Apps \ ConditionApps : holds[a]
  /\ events = [a \in Apps |-> <<>>]
  /\ changes = 0

World == <<holds, events, changes>>

\* csm_manager_start
StartSession ==
  /\ phase = STARTUP
  /\ \E ok \in Successes(m) : Becomes(EndPhase(m, ok))
  /\ UNCHANGED <<stopped, World>>

\* Variant: the applications given up on are still listened to
GiveUpListening(q) == [q EXCEPT !.timer = FALSE]

\* on_phase_timeout, before it ends the phase
GiveUp(q) == [q EXCEPT !.handlers = @ \ q.pending, !.timer = FALSE]

PhaseTimeout ==
  /\ timer
  /\ \E ok \in Successes(m) : Becomes(EndPhase(GiveUp(m), ok))
  /\ UNCHANGED <<stopped, World>>

\* _autostart_delay_timeout: it looks at the condition, not at the phase, nor
\* whether the application runs already
DelayTimeout(a) ==
  /\ apps[a].delayed
  /\ LET seen == [Look(a, apps[a]) EXCEPT !.delayed = FALSE]
     IN  \E app \in IF Disabled(a) THEN {seen} ELSE Started(a, seen) :
           apps' = [apps EXCEPT ![a] = app]
  /\ UNCHANGED <<phase, pending, handlers, timer, stopped, World>>

\* The file a condition is about comes or goes, or the setting changes.
ConditionFlips(a) ==
  /\ changes < MaxChanges
  /\ changes' = changes + 1
  /\ holds' = [holds EXCEPT ![a] = ~ @]
  /\ events' = [events EXCEPT ![a] = Append(@, ~ holds[a])]
  /\ UNCHANGED <<phase, pending, handlers, timer, stopped, apps>>

\* app_condition_changed
ConditionChanged(a, value) ==
  LET clients == ClientsOf(m, a)
  IN  \/ /\ value
         /\ ~ IsRunning(apps[a]) /\ clients = {}
         /\ \E app \in Started(a, [apps[a] EXCEPT !.condition = value]) :
              apps' = [apps EXCEPT ![a] = app]
         /\ UNCHANGED stopped
      \/ /\ value
         /\ IsRunning(apps[a]) \/ clients # {}
         /\ apps' = [apps EXCEPT ![a].condition = value]
         /\ UNCHANGED stopped
      \/ /\ ~ value
         /\ \E n \in clients :
              /\ stopped' = [stopped EXCEPT ![a][n] = @ + 1]
              /\ apps' = [apps EXCEPT ![a] = Tell([@ EXCEPT !.condition = value], n)]
      \/ /\ ~ value /\ clients = {}
         /\ apps' = [apps EXCEPT ![a] = Stopped(a, [@ EXCEPT !.condition = value])]
         /\ UNCHANGED stopped

\* if_exists_condition_cb and its like.  A file monitor tells of one change after
\* the other, a setting is read anew.
ConditionNotify(a) ==
  /\ events[a] # <<>>
  /\ events' = [events EXCEPT ![a] = Tail(@)]
  /\ LET value == IF a \in SettingApps THEN holds[a] ELSE Head(events[a])
     IN  \/ ConditionChanges(apps[a], value) /\ ConditionChanged(a, value)
         \/ /\ ~ ConditionChanges(apps[a], value)
            /\ apps' = [apps EXCEPT ![a].condition = value]
            /\ UNCHANGED stopped
  /\ UNCHANGED <<phase, pending, handlers, timer, holds, changes>>

-----------------------------------------------------------------------------
(* Processes, and how they become clients *)

Proc(a, n) == apps[a].procs[n]

Runs(a, n) == Proc(a, n).life = "running"

\* A process ends, told to or not.  The bus looks after the one it has started.
ProcessEnds(a, n) ==
  /\ Runs(a, n)
  /\ \E how \in IF a \in ActivatedApps THEN {"reaped"} ELSE {"exited", "died"} :
       apps' = [apps EXCEPT ![a].procs[n].life = how]
  /\ UNCHANGED <<phase, pending, handlers, timer, stopped, World>>

\* app_exited, with csm_app_exited or csm_app_died, to which nobody listens
ChildWatch(a, n) ==
  /\ Proc(a, n).life \in {"exited", "died"}
  /\ LET left == [m EXCEPT !.apps[a] = AppExited(@, n)]
     IN  \E ok \in Successes(left) :
           Becomes(IF Proc(a, n).life = "exited" THEN Emit(left, a, ok) ELSE left)
  /\ UNCHANGED <<stopped, World>>

\* accept_ice_connection
ProcessConnects(a, n) ==
  /\ Runs(a, n) /\ a \in XsmpApps \ ActivatedApps
  /\ Proc(a, n).conn.state = "none"
  /\ Becomes(SetConn(m, a, n, AcceptIce(NoConnection)))
  /\ UNCHANGED <<stopped, World>>

\* auth_iochannel_watch, when libSM calls accept_xsmp_connection
ProcessOpensXsmp(a, n) ==
  /\ Runs(a, n)
  /\ Proc(a, n).conn.state = "ice"
  /\ Becomes(SetConn(m, a, n, AcceptXsmp(Proc(a, n).conn)))
  /\ UNCHANGED <<stopped, World>>

\* auth_iochannel_watch, when the process has gone or has not authenticated itself
AuthenticationFails(a, n) ==
  /\ Proc(a, n).conn.state = "ice"
  /\ Becomes(SetConn(m, a, n, DropIce(Proc(a, n).conn)))
  /\ UNCHANGED <<stopped, World>>

ProtocolTimeout(a, n) ==
  /\ Proc(a, n).conn.timeout
  /\ Becomes(SetConn(m, a, n, DropIce(Proc(a, n).conn)))
  /\ UNCHANGED <<stopped, World>>

\* Variant: two clients may have the same id
IdFreeAlways(a) == a \in ActivatedApps \/ AppFound(m, a)

\* on_xsmp_client_register_request, csm_manager_register_client: the startup id
\* of the application is good for one client, on the bus also while the manager
\* does not look for the application
IdFree(a) ==
  /\ ClientsOf(m, a) = {}
  /\ a \in ActivatedApps \/ AppFound(m, a)

\* on_xsmp_client_register_request: a client whose id is turned down registers
\* again without it
Register(a, n) ==
  /\ Runs(a, n)
  /\ phase < QUERY_END_SESSION
  /\ Proc(a, n).conn.state = IF a \in ActivatedApps THEN "none" ELSE "xsmp"
  /\ IF IdFree(a)
     THEN LET named == SetConn(m, a, n, [state |-> "client", timeout |-> Proc(a, n).conn.timeout])
          IN  \E ok \in Successes(named) : Becomes(Emit(named, a, ok))
     ELSE /\ a \notin ActivatedApps
          /\ Becomes(SetConn(m, a, n, [Proc(a, n).conn EXCEPT !.state = "anonymous"]))
  /\ UNCHANGED <<stopped, World>>

\* _disconnect_client, of a client that was registered for application a: it
\* restarts the application, unless the client was stopped for its condition or
\* the session is ending.  The list of stopped clients may still have an entry of
\* one that has gone, with the address that this client was given.
ClientGone(a, n) ==
  /\ ~ Runs(a, n)
  /\ Proc(a, n).conn.state = "client"
  /\ \E b \in Apps, k \in Numbers, listed \in BOOLEAN :
       LET left    == SetConn(m, a, n, DropIce(Proc(a, n).conn))
           restart == /\ phase < QUERY_END_SESSION
                      /\ a \in RestartedApps
                      /\ ~ listed
       IN  /\ listed => stopped[b][k] > 0
           /\ listed /\ <<b, k>> # <<a, n>> =>
                stopped[a][n] = 0 /\ apps[b].procs[k].conn.state = "closed"
           /\ ~ listed => stopped[a][n] = 0
           /\ stopped' = IF listed THEN [stopped EXCEPT ![b][k] = @ - 1] ELSE stopped
           /\ \E app \in IF restart THEN Restarted(a, left.apps[a]) ELSE {left.apps[a]} :
                apps' = [apps EXCEPT ![a] = app]
  /\ UNCHANGED <<phase, pending, handlers, timer, World>>

\* The same of one that is no application's
StrangerGone(a, n) ==
  /\ ~ Runs(a, n)
  /\ Proc(a, n).conn.state \in {"xsmp", "anonymous"}
  /\ Becomes(SetConn(m, a, n, DropIce(Proc(a, n).conn)))
  /\ UNCHANGED <<stopped, World>>

\* The user logs out, and thinks better of it (see SessionManager)
Logout ==
  /\ phase = RUNNING /\ phase' = QUERY_END_SESSION
  /\ UNCHANGED <<pending, handlers, timer, stopped, apps, World>>

LogoutCancelled ==
  /\ phase = QUERY_END_SESSION /\ phase' = RUNNING
  /\ UNCHANGED <<pending, handlers, timer, stopped, apps, World>>

Dispatch(a, n) ==
  \/ ChildWatch(a, n) \/ ProtocolTimeout(a, n)
  \/ ClientGone(a, n) \/ StrangerGone(a, n)

ProcessStep(a, n) ==
  \/ ProcessEnds(a, n) \/ ProcessConnects(a, n) \/ ProcessOpensXsmp(a, n)
  \/ AuthenticationFails(a, n) \/ Register(a, n)

Next ==
  \/ StartSession \/ PhaseTimeout \/ Logout \/ LogoutCancelled
  \/ \E a \in DelayedApps : DelayTimeout(a)
  \/ \E a \in ConditionApps : ConditionFlips(a) \/ ConditionNotify(a)
  \/ \E a \in Apps, n \in Numbers : Dispatch(a, n) \/ ProcessStep(a, n)

Spec == Init /\ [][Next]_vars

\* The main loop dispatches its timers and what has arrived.
Fairness ==
  /\ WF_vars(StartSession) /\ WF_vars(PhaseTimeout)
  /\ \A a \in Apps, n \in Numbers : WF_vars(ProtocolTimeout(a, n))

FairSpec == Spec /\ Fairness

-----------------------------------------------------------------------------
(* Properties *)

\* The type invariant.
StartupTypeOK ==
  /\ m \in Manager
  /\ stopped \in [Apps -> [Numbers -> Nat]]
  /\ holds \in [Apps -> BOOLEAN]
  /\ events \in [Apps -> Seq(BOOLEAN)]
  /\ changes \in 0..MaxChanges

\* The manager listens to exactly those applications it waits for, and has a
\* timer as long as there are any: an application that exits or registers late,
\* after the timer has given up on it, must not end another phase - the running
\* session least of all.
HandlersArePending ==
  /\ handlers = pending
  /\ timer <=> pending # {}
  /\ \A a \in pending : PhaseOf[a] = phase /\ phase < APPLICATION

\* A pid is only ever one of a process that has not been waited for: what the
\* manager signals, whichever restarts and exits have come between, is never
\* a stranger that was given the same number.
SignalsOwnChildren ==
  \A a \in Apps : IsRunning(apps[a]) =>
    Proc(a, apps[a].pid).life \in {"running", "exited", "died"}

\* However often an application was started, no two clients have its id.
UniqueStartupIds ==
  \A a \in Apps : Cardinality(ClientsOf(m, a)) <= 1

\* A phase is over when every application it waits for has registered or exited,
\* or by its timer; nothing else that applications do - of this phase or of
\* another, twice or late - ends it.
Answers(a) ==
  \E n \in Numbers :
    \/ Proc(a, n).conn.state # "client" /\ Proc(a, n)'.conn.state = "client"
    \/ Proc(a, n).life = "exited" /\ Proc(a, n)'.life = "reaped"
PhaseWaitsForApps ==
  [][phase # phase' /\ phase \in 1..(APPLICATION - 1) =>
       PhaseTimeout \/ \A a \in pending : Answers(a)]_vars

\* The manager closes no connection of a client that is there: the five seconds
\* are over for one that has come through in time.
ClientsKeepConnections ==
  [][\A a \in Apps, n \in Numbers :
       Accepted(Proc(a, n).conn) /\ Runs(a, n) => Accepted(Proc(a, n)'.conn)]_vars

\* A connection that says nothing is given up.
SilentConnectionsGo ==
  \A a \in Apps, n \in Numbers :
    Proc(a, n).conn.state = "ice" ~> Proc(a, n).conn.state # "ice"
=============================================================================
