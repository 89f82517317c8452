# A formal model of cafe-session-manager

The session manager of the CAFE desktop starts a session, keeps the list of the
clients that take part in it, and ends it: it asks every client whether the session may
end, waits for inhibitors and users, tells the clients to save and to stop, and quits.
This directory holds TLA+ modules that model it, TLC configurations that check them on
small instances and proofs that TLAPS checks for every instance. `PROJECT.json` maps
each definition to the lines of the source it stands for.

Commands, in this directory:

    tlc -workers 2 -config MCLogout.cfg MCSessionManager     # any run of the table below
    tlapm SessionManagerSafety.tla                           # any module of proofs

## 1. The system

| Part | Source (`src/...`) | State | Operations | Here |
|---|---|---|---|---|
| CsmManager | `cafe-session/csm-manager.c` | phase, lists of clients and applications to wait for, two timers, logout mode and type, dialogs | phases, queries, Logout, Shutdown, Inhibit, registration, disconnection | `SessionManager` |
| CsmClient, CsmDBusClient | `csm-client.c`, `csm-dbus-client.c` | what it was told | QueryEndSession, EndSession, CancelEndSession, Stop; responses | `SessionManager` |
| CsmStore | `csm-store.c` | the clients, the inhibitors | add, remove, their signals | `SessionManager` |
| CsmInhibitor, CsmInhibitDialog | `csm-inhibitor.c`, `csm-inhibit-dialog.c` | inhibitors; an open dialog | the user's answer, the answer by itself | `SessionManager` |
| CsmLogoutDialog | `csm-logout-dialog.c` | an open dialog | its answers | `SessionManager` |
| CsmXSMPClient | `csm-xsmp-client.c` | current and queued SaveYourself | do_save_yourself, the XSMP callbacks | `CsmXSMPClient` |
| CsmXsmpServer | `csm-xsmp-server.c` | ICE connections, their timers | accept, authenticate in 5 s | `XsmpServer` |
| EggSMClient | `egg/eggsmclient*.c` | state of the XSMP exchange, deferred signals | XSMP callbacks, will_quit, end_session | `EggSMClient` |
| CsmPresence, GSIdleMonitor | `csm-presence.c`, `gs-idle-monitor.c` | status, saved status, watch | idle, screensaver, SetStatus | `Presence` |
| CsmApp, CsmAutostartApp | `csm-app.c`, `csm-autostart-app.c` | pid, condition | start, stop, restart, exit, monitors | `AutostartApp`, `Startup` |
| CsmSessionSave | `csm-session-save.c`, properties of `csm-xsmp-client.c` | directories of the saved session | save, clear, discard | `SessionSave` |
| Desktop files | `egg/eggdesktopfile.c`, `prop_to_command` | - | quoting, field codes, command lines | `DesktopFile` |
| ConsoleKit, logind | `csm-consolekit.c`, `csm-systemd.c` | connection, proxies | connect anew, restart, stop, sleep | `SystemBus`, `Power` |
| cdm | `cdm.c` | what it was told and can do | set and query the action | `Power` |
| Capplet | `capplet/gsp-app*.c`, `csm-properties-dialog.c` | edited autostart entries | edit, delayed save, file monitor | `GspApps` |
| Tools, dialogs' display, logging | `tools/`, `csm-util.c`, `cdm-log.c`, `msm-gnome.c` | - | - | not modelled: I/O and display |

How they interact. Everything runs in one thread, the CTK main loop: a D-Bus call, a
message of an ICE connection, a timer, a dialog's response or a signal is dispatched, its
handler runs to its end, and calls others on the way (stores emit signals, the dialog
answers when its last inhibitor is removed, a removed client may complete the query).
So what is hard is not shared memory but *order*: the handlers may come in any order, many
change the phase from within others, and a client, a user or a connection may act at a
moment nobody thought of. XSMP adds messages under way in both directions; timers race
answers; connections die with several clients and inhibitors at once.

## 2. The modules

**SessionManager** models CsmManager with its clients, inhibitors and dialogs. The record
`m` is `CsmManagerPrivate` together with what the clients were told; each handler is an
action, and the C functions it calls are operators from a record to a record (`EndPhase`,
`StartPhase`, `QueryComplete`, `CancelEndSession`, `RemoveInhibitors`, `DisconnectClient`...), written from
the innermost outwards, so that a handler with everything it calls is one step. The
exception is the loop of `remove_clients_for_connection` (line 1909), whose turns are actions
(`DisconnectNext`, with `leaving` the clients that remain and every other handler blocked by
`Idle`): each turn may end a phase. Environment variables are `lockdown`, `bus` (names that
are still there) and `peers` (XSMP connections).

Abstractions: a client, inhibitor or application is a model value and is used once
(`seen`); sends succeed; the fields that nothing in the model reads (names, icons, reasons,
status) are left out; query lists are bags, since a registered XSMP client can be in a list
twice; the logout types of ConsoleKit and logind are merged; the password prompt
may or may not appear; UnregisterClient changes only the client's status and is left out;
SIGTERM, SIGINT and the SaveYourselfRequest of a client are `Logout`. After the
program quits, fails an assertion, uses a freed client (`outcome = "dangling"`) or is hit by a
fatal signal the model stops.

**SessionEnd** is the abstract specification for the clients on the bus: a session asks
all its members, then tells all that are left that it goes on, or that it does not.
**SessionManagerRefinement** maps the manager to it; TLC checks the mapping on a small instance,
and `SessionManagerEnd` proves it.

**CsmXSMPClient** and **EggSMClient** are the two ends of an XSMP connection as operators
on records, and **XSMPSession** composes them with `SessionManager`, two channels of messages
in order, and an application with a user: what SessionManager "tells" the application X in a
handler becomes SaveYourself, ShutdownCancelled or Die; what X's library sends becomes the
answers of SessionManager (instead of any answer at any time, as for the other clients).
libSM is outside of the repository; modelled is what the callbacks rely on: it delivers in
order and refuses what is out of place. The session is running and X registered at the
start; X listens to quit_requested, never asks to be last, has one SaveYourselfRequest
under way at most, and the contents of what it saves are left out. So is a client's request for a checkpoint.

**Presence** models CsmPresence with GSIdleMonitor. The X server counts how long the user
has been away; crossing the interval of the watch sends an alarm, which arrives later or,
if the watch is gone by then, never. Inhibitors of idleness, the screensaver, the delay and
callers that set the status interfere.

**Startup** composes three things from their start to their end: the manager's startup phases
and its reaction to applications, **AutostartApp** (an application with its pid, its condition and
the processes started from it) and **XsmpServer** (a connection from `accept_ice_connection` to a client
that may register). The manager and the processes act in any order: a process
may exit, be killed, connect, say nothing, register under its startup id or, turned down, under its own; a file that a
condition is about may come and go, and its monitor tells of one change after the other. Child
watches tell of a death after it happened, so a pid may be stale; a number is a process and is never used
twice, `reaped` says that the kernel may give its pid away. A child is reaped as its watch is dispatched, in one step. A connection
ends by the manager's doing or with its process; one that a process closes while it goes on is left out, and so is the search for
a client's application by its app id: a client on the bus is its application's when it goes. Phases without an application to wait for pass within `EndPhase`.

**SessionSave** has every step of a save on disk as an action, a manager that may be killed
between any two, discard commands that run when they run, and the next session, which starts what the files
say. A save that fails for one client removes what it has written; that csm-session-save.c:106 frees the error which it
has just passed on is left out. Commands are real texts there, for **DesktopFile** is about them: `PropToCommand` quotes a
restart command, `ParseExec` puts in the field codes and `ShellParse` (GLib, modelled
from its use) makes the words of it. All are folds over characters.

**GspApps** is one desktop file name in the capplet: the file in the user's and the system's
directories, the GspApp with its positions, its pending save and the mask of what was edited, the
events of the monitor in order, and others who change files meanwhile. `TimelyMonitor` says that the
monitor is heard before the next save, before a form is filled in and before the user deletes an application; the events of others'
changes during a pending save still come in any order with the user's edits. `dropped` is a history variable: the monitor made the
dialog drop an application of which another directory has a file (finding 3). Files that `gsp_app_can_launch` refuses (OnlyShowIn, NotShowIn)
are left out, and the name that `Create` is given is one that no application has.

**Power** is the part of the manager that ends the machine's day: privileges, the logout and inhibit
dialogs as far as they ask for sleep or an end, the display manager's action. Its connection is
**SystemBus**, operators on a record that follow `ensure_connection`, the message filter and NameOwnerChanged
in csm-systemd.c and csm-consolekit.c, which are the same. A synchronous call is answered or fails, and one that fails has done nothing (a service
that acts and whose reply is lost is left out); a service that dies leaves
a stale proxy, a bus that dies a dead connection, until the main loop hears of it.

*Variants* in the modules are deliberate mistakes, a dropped guard or a forgotten reset, next to
the operators they corrupt. No specification uses them: they serve to see that a property
notices when the code is wrong.

## 3. Runs

| Run | What it asks | Instance |
|---|---|---|
| MCLogout | nothing is left over, forgotten or repeated by any way to end or cancel a session | one D-Bus client, one XSMP client, two inhibitors of different kinds on another connection; 1.7 M states |
| MCSessionEnd | lists, just-in-time inhibitors and the dialog agree with the stores; the abstract SessionEnd is implemented | two D-Bus clients and an inhibitor of everything on one connection, one XSMP client; 690 k |
| MCLiveness | startup completes, an ending session ends, and a query resolves in the sessions in which no suspend or switch-user dialog is up during one | fairness; two applications of two phases, an inhibitor of everything, so that every kind of inhibit dialog appears; 161 k |
| MCXSMP | both ends of an XSMP connection stay in step and nobody waits in vain | X with a new or an old id, one cancelled end; 160 k |
| MCPresence | watch, status and idleness in every order of events | two inhibitors, delays 0 to 2, two alarms under way; 2.7 k |
| MCStartup | no late, lost or repeated event of an application or its process ends a phase, hits a stranger or takes an id twice | an application that is waited for after another that the bus starts, and one delayed, conditional and restarted with a connection; two processes each; 158 k |
| MCSessionSave | the saved session is that of its clients, in their own words, with its states on disk | two clients, one without a discard command and with a space in a word; two states each |
| MCCapplet | what the user has set is what is saved, and the dialog works on the file that counts | the user's directory and two of the system; two changes by others, three events under way; 1.5 M |
| MCPower | the machine does what was asked for last, after the clients were asked | a service that can only restart, a display manager that can do both; three requests, three faults; 465 k |
| MCClientGoneBeforeLast | finding 1 | |
| MCConsentIsReal | finding 2 | |
| MCDroppedIsGone | finding 3 | one change by others suffices |

All runs but MCPresence and MCSessionSave have `CHECK_DEADLOCK FALSE`, for the program ends: it
quits, a fatal signal hits it, an assertion fails, the machine is off, or the bound on what others do is used up.

**Bounds.** Clients and inhibitors act once as such: a client that leaves and comes back is another
object in the code, too (a new CsmClient with a new path). Two D-Bus clients and an XSMP
client are needed, and enough, for "one has answered, one has not, one just left"; two inhibitors
for "one of the logout and one of something else" and for one that goes while the other stays.
`MaxRegistrations` lets an XSMP client register twice (finding 9 needs it); `MaxLast`
bounds how often it is queued to be last. `MaxCancels` is the number of ends of which X is told
that they are cancelled: the second end runs into whatever the first left behind. In Presence,
`MaxAway = 2` gives delays that the user exceeds or not, and `MaxEvents = 2` an idle alarm and the one of return under way together.
In Startup `MaxStarts = 2` processes of one application are the one that goes and the one that comes, and `MaxChanges = 2` lets a condition
come and go before the first event is heard. In SessionSave `MaxStates = 2` states of a client are the one the saved
session has and a newer one. In GspApps `MaxEvents = 3` is the dialog's own event between two of others, two
system directories are "the next one has it as well". In Power `MaxRequests = 3` is a request, another after it was cancelled, and a dialog; `MaxFaults = 3`
is the service, the bus and the display manager once each, or one of them three times.

**Fairness.** Timers that run fire (`PhaseTimeout`, `QueryTimeout`, weakly fair: the main
loop dispatches a source that stays ready), the manager starts, and the loop over a dead
connection's clients goes on. In XSMPSession both main loops dispatch the messages that
have arrived and the idle source; in Presence the alarms; in Startup the session starts and timers fire. Nothing is assumed of users, clients, applications or
the order of any two sources. `IdlenessEnds` has the user's comings and goings as its hypothesis instead.

**What the properties say.** Each is stated in the modules with the code it is about. A few
that took more than a test: `CancelReachesEveryClient` and `RunningIsQuiet` (a cancelled logout
leaves nothing behind, through every combination of dialogs, timers and departures),
`JitInhibitorsOwned` and `DialogHasInhibitors` (they hold between the removals of a dying
connection, one at a time), `InhibitedLogoutWaits`, `MessagesInOrder`,
`NotWaitingInVain` and `InStep` (one SaveYourself at a time), `IdlenessEnds`.
`QueryResolvesUndisturbed` is conditional, see finding 4. So are `ConsentIsRealUndisturbed` and `NotWaitingInVain`: a cancelled end leaves a
stale SaveYourselfDone under way, which XSMP cannot tell from a new one, and a query queued behind
another SaveYourself is dropped by the code (see the finding). `SavedStateIsKept` leaves out what follows a save that
failed or was killed while it cleared the old session: the code says so itself (section 4).

## 4. Findings

A violation run each:

1. *Client used after it was freed.* `next_query_clients` keeps a client that asked to be last
   and then left (csm-manager.c:838).
2. *Consent by accident.* `if (priv->next_save_yourself)` (csm-xsmp-client.c:1324) is false for
   SmSaveGlobal, which is 0, and true for none, which is -1.
3. *Dropped, but there.* When the file in use is deleted from a system directory,
   `_gsp_app_manager_handle_delete` does not look at those after it (gsp-app-manager.c:318).

Met on the way, each a counterexample of TLC to the property or formula given here, in place of the properties of the run named:

4. *Query stuck* (`QueryResolves`, MCLiveness). A client that is asked "should limit operations until either a EndSession
   CancelEndSession signal is received" (ClientPrivate.xml:77-80). `query_end_session_complete` returns when an inhibit dialog
   is up (csm-manager.c:1398), and has stopped the query timer by then. After the dialog of a user switch or a suspend nothing
   ends the query, and the clients wait unless somebody asks for a logout again or leaves. MCLiveness has such dialogs;
   `QueryResolvesUndisturbed` is what is left of the promise, for the sessions in which none is up during a query.
5. *Logout dialog against Logout()* (`m.outcome # "assertion"`, MCLogout). `logout_dialog_response` says "We should only be here if
   mode has already have been set from show_fallback_shutdown/logout_dialog" and asserts the mode NORMAL
   (csm-manager.c:3399-3402). A Logout(1) on the bus while the dialog is open changes it. The other assertion of that
   kind in the model, in `csm_manager_quit`, cannot fail (`EndIsChosen`, proved).
6. *Inhibitors ignored* (`[][m.phase = QUERY_END_SESSION /\ m'.phase > QUERY_END_SESSION /\ m'.outcome # "signal" /\
   LogoutInhibited(m') => m'.mode = "force"]_vars`, MCLogout). With no client in the store, `remove_clients_for_connection`
   (csm-manager.c:1963) ends the query phase whenever a name leaves the bus, inhibited or not. Of the modes of Logout() only
   the forced one is said to ignore inhibitors (org.gnome.SessionManager.xml:295), and an application may be overruled because the user forces it (123-125);
   here nobody did. `InhibitedLogoutWaits` is what holds with clients.
7. *An agreement without an answer* (`egg.connected /\ app = "agreed" /\ m.phase = RUNNING => server.out # <<>> \/
   egg.out # <<>> \/ egg.idle`, MCXSMP with `Inhibitors = {i1}`, for otherwise nothing holds up the end so that it can be
   cancelled). An application that has agreed "should then wait for either the ::quit_cancelled or ::quit signals" (eggsmclient.c:116-117).
   SaveComplete after each SaveYourselfDone makes EggSMClient idle (eggsmclient-xsmp.c:968), in which it does not pass a
   cancellation on.
8. *A user's directory among the system's* (`app # NoApp => app.sys # USER`, MCCapplet with `ExternalDirs = {0}`). An event of the
   user's directory while a save is pending sets the system position to 0, against "Note: xdg_position >= 1 so it's a
   system dir" (gsp-app.c:932), and the user's file is then compared with itself.
9. *Quitting twice* (`m.quits <= 1`, MCLogout; nothing in the repository says otherwise). A client
   refused for an unknown id has its handler connected already (csm-manager.c:2189), and again when it registers anew; as
   the last one it ends the phase twice.

Behaviour of the code that the models follow and the properties leave room for:

- *Startup.* A condition that turns false before the application has registered only sends it a SIGTERM, and a client that
  such an application becomes later is restarted. A delayed start fires in any phase, also when the
  application runs already (csm-manager.c:654). The child watch of an older process clears the pid of a newer one
  (csm-autostart-app.c:746): the newer one is then never signalled, which is why
  `SignalsOwnChildren` says nothing of a pid that is missing. Nobody listens to `died`, so a killed application is waited for until the timer.
- *Saving.* The string `'"'\''"` of `prop_to_command` (csm-xsmp-client.c:350) is three quotes: a word with quotes loses them, and if
  their number is odd the line ends within quotes and cannot be parsed at all. A word with a percent sign is taken for a
  field code, an empty word is lost; `SavedCommandIsKept` is about all others.
  A save that fails runs the discard commands of states that the old saved session still names (the FIXME at
  csm-session-save.c:159), and one killed between clearing and renaming loses the old session.
- *Capplet.* The identifier of the save timer is kept when no file had to be written (gsp-app.c:438-449): until the next save, changes
  by others are ignored. `handle_delete`'s assertions fail when files of two system directories
  go, or one comes and goes, before the monitor is heard. With the monitor late (`TimelyMonitor = FALSE`) or others writing to the user's directory, both
  properties fail: MCCapplet is about what the dialog can promise. One way takes several changes: the user deletes his own application, another
  program's file of the same name is told of, he edits that one, and only then "deleted" is heard of his old file, which is
  taken for the one that the pending edit is going to write (gsp-app-manager.c:318, 345): the edit goes with the application. An edit of an
  application that was dropped too early is lost as well, which is why both properties leave out `dropped`. `_gsp_find_free_basename` is not modelled.
- *Power.* `is_connected` stays TRUE when the bus is lost; what the display manager could do is offered after it has gone; a plain
  logout does not take back an action it was told to perform by others before; a sleep that is inhibited keeps the inhibit
  dialog of a logout from appearing.

## 5. Proofs

| Module | Theorems |
|---|---|
| SessionManagerSafety | `TypeCorrect`: `TypeOK`, by a lemma per operator of a handler; `SafetyInvariantHolds`, and from it StartupWaits, RunningIsQuiet, CancelReachesEveryClient, ForceEndsWithShutdown, EndIsChosen, QueriedClientsExist, JitInhibitorsOwned, DialogHasInhibitors, EndSessionIsTimed |
| PresenceProofs | `PresenceTypeCorrect`, `PresenceInvariantHolds`, and from it WatchIsCurrent, ChosenStatusReturns, InhibitedIsNotMarked |
| StartupProofs | `StartupTypeCorrect`, `ListensToPending` (HandlersArePending), `PidsAreChildren` (SignalsOwnChildren), `StartupIdsAreUnique` (UniqueStartupIds), `PhasesWait` (PhaseWaitsForApps), `ConnectionsAreKept` (ClientsKeepConnections) |
| SessionManagerEnd | `EndInvariantHolds`, and from it SavedWhenEnded, StoppedAtQuit, MessagesInOrder, InhibitedLogoutWaits; `SessionEndImplemented`: the refinement ImplementsSessionEnd |
| SessionSaveProofs | `SaveInvariantHolds`, and from it NewSessionIsCurrent, SavedStateIsKept; `CommandsAreTheirOwn`: `CommandsAssumption`, from what the clients do; `SavedCommandIsKeptHolds`: SavedCommandIsKept; `FieldCodesAreOneWordHolds`: FieldCodesAreOneWord |
| PowerProofs | `FollowsService`: LinkFollowsService; `EndInvariantOfPower`, and from it EndsAsAsked, ClientsAreAsked |
| XSMPSessionProofs | `TalkInvHolds`, and from it InStep; `ManagerStepsHold`, `ManagerIsSafe`: what is proved of SessionManager holds in a session with X; `HeedInvHolds`, and from it NotWaitingInVain; `ConsInvHolds`, and from it ConsentIsRealUndisturbed |
| GspAppsProofs | `GspInvHolds`, and from it EditIsKept, PositionsAreCurrent |

They hold for all sets of clients, names, inhibitors and applications, all flags, and
`MaxRegistrations` of 1 or 2 (`ConstantsAssumption`), respectively all delays (`PresenceAssumption`),
all applications, phases and numbers of processes and of changes (`StartupAssumption`, `StartsAssumption`),
all clients and commands (`SessionSaveAssumption`, `CommandsAssumption`), all services and display managers
(`PowerAssumption`), whichever client X is and however often an end is cancelled (`XSMPAssumption`), and any number of
directories of the system and of changes by others (`GspAssumption`).
Some are not about the size of the system. `Polite`, a hypothesis of the theorems of GspAppsProofs, is what MCCapplet has as well: the monitor
tells in time (`TimelyMonitor`), and nobody else writes to the user's directory. The code does not see to either, and without them
the properties do not hold (section 4). `CommandsAssumption` is about the texts of the clients' commands: a restart
command read back is not that of another state of the client, and a discard command removes no other state. `CommandsAreTheirOwn`
derives it from hypotheses about the clients alone: `OwnCommands`, no two states have the same command, and `PlainCommands` and
`PlainDiscards`, no word is empty or has a quote or a percent sign. None of them is a promise of the code, for a client may set
any command, and section 4 says what becomes of words that are not plain. `StandsForName(x)` says of the Exec line of the
autostart file what its words are, with one plain letter where the name goes. MCSessionSave assumes all of them, so TLC evaluates them on the instance.

*The manager.* None of the listed invariants is inductive. They are parts of one,
`SafetyInvariant`: the record `m` is `Consistent`, unless a fatal signal has set the phase to EXIT
from outside of every handler. `Consistent` has a part that holds in the middle of handlers too
(`Core`: just-in-time inhibitors have owners, the dialog has something to list, only clients
that have been in the store were told anything) and one that says what belongs to the phase
(`Phased`: in a startup phase, in RUNNING, in the query, in the end, after it). Operators from the innermost outwards get a
lemma each: from a record that satisfies what holds where they are called, they lead to one
that does. That is the reason for the operators: the proof of an action is then a few
citations. One step per action, relative to `TypeOK`, concludes.

*The end of the session.* `EndInvariant` adds to this what each client was told, per phase (`Known`), or that the program
broke off (`Broken`): a fatal signal, an assertion, a client used after it was freed. Of XSMP clients little can be said, for they
connect at any time; of clients on the bus everything. A second layer says what a whole handler does to phase, clients
and messages: it lets clients join or go, asks, goes on, finishes, resumes or breaks off. `NextEnds` shows this once for every
action; the three action properties and the refinement only look at the kinds, each of which is a step of SessionEnd or a stutter under the mapping.

*The presence.* The status that was last chosen is in `status` or, while idle, in `saved`;
alarms are under way only for a watch; a watch is there only if `enabled`, and this only
without inhibitors. Two lemmas per operator, one step per action.

*The startup.* `StartupInv` says of the manager that it listens to whom it waits for, in a phase before
APPLICATION (`Listens`), and of every application that it is `Proper`: its pid is that of a child, one of its
processes at most is its client, and a timer belongs to a connection that is not yet authenticated. The first is why a late
answer cannot end a phase; the last is why the timer never closes a client's connection, and has to be carried through
every start and restart. Most steps leave the connections of an application alone: `Kept(x, a, b)` is what an
operator of AutostartApp owes, it composes, and `AppsKept` is the same of a step of the manager, so that the two
action properties come with the invariant. Only the steps of a connection, a registration and a disconnection are looked at themselves.

*The connection to the service.* `LinkFollowsService` does not hold of itself across a lost bus: that a dead connection
is never taken for a live one, that a live one has a bus behind it and hears of names, and that news are under way whenever the service
has changed are parts of `LinkInv`. What a connection becomes in `Ensure` is a lemma of its own; each step of the
manager either leaves the link alone or ensures it.

*The end of the machine.* `EndInv` has what the type of the logout, the display manager's action and the machine's state have to do with each
other in each phase. The handlers that wait for a privilege are a sequence, run by a fold: between any two
steps it is empty, for a request is completed in the step that makes it, and the lemmas about a sequence of one handler
are all the proof needs of the fold.

*The saved session.* `Current` describes a save in its middle: the new files and the remembered discard commands are those of the
clients done so far. `Survives` follows a state from the client that wrote it to the file that names it, through the session
restored from it, and back to the client: at each stage it is on disk and no command to remove it is under way. The latter
is why the loop over the old files compares commands with those remembered, and where `CommandsAssumption` is used.

*The texts.* That a command comes out of a file as it went in, and that a name stays one argument, are about lines of any length, read by
folds. The library's induction theorems take a predicate, which these provers cannot instantiate; sets do as well. `Counting`
says that a set of numbers with 0 and the successors of its elements has all of them (by `FirstOfSome`, from the well-founded order
of finite sets), `Growing` the same of sequences that grow by one element. A fold becomes a run, a function from 0, 1, ... to the states of
the reader, once it is known that the function FoldLeft chooses exists (`FoldExists`); from then on `SplitStep`, `ParseStep`, `ConcatStep` and
`ReplacedStep` say all that is needed: what one character, or text, more does.

- `WordsComeBack`: between two words g_shell_parse_argv is outside of quotes, with the words so far behind it (`Between`). A word
  that `prop_to_command` leaves bare has only characters that mean nothing there, one in quotes only such as mean nothing in single quotes
  (`WordRead`). parse_exec changes nothing, for there are no percent signs (`ParsedAsWritten`). So `SavedFiles`, which says that all on disk
  was written by `xsmp_save`, gives the property.
- `NamedArgv`: the line with the name is read along with the line that has a letter in its place. `do_parse_exec` and `g_shell_parse_argv`
  agree about the quotes they are in (`Aligned`), though the second reads what the first writes; this is what makes
  `append_quoted_word` right, and `QuotedWordRead` shows for each of the three kinds of quotes that it puts out a word that is read as the text, whatever
  the text is. So both lines lead to the same place, but for the name in one that is the letter in the other (`NamedAlike`).

*The two ends of XSMP.* `InStep` is about the message that is next; `TalkInv` says where the whole conversation is. While no end
was cancelled there are eight places for the one SaveYourself (`Conversation`): at the manager, on its way with or without a
SaveComplete before it, at the application in one of three states, or answered. Then there is Die, which the manager may say at
any time, in every one of them: `Dying` keeps only what is heard before it. Nothing in it is about the rest of the manager.
So the proof needs two facts only of what the manager does in a handler, whichever handler it is: it cancels, which is counted, or it adds to the
messages under way at most a SaveYourself when there is none, or Die (`Adds`). Dually, most of what the application does is
`Quiet`, and `Answers` is what it owes to a SaveYourself. Messages that libSM refuses are why the last places say "at most one answer".

*The manager and the application across XSMP.* That the manager does not wait in vain, and that nobody agrees to the end on the
application's behalf, relate the manager's lists to the conversation, so here every handler of the manager has to be looked at. First,
every step of XSMPSession is one of SessionManager or leaves the manager alone (`ManagerStepsHold`), so that `SafetyInvariant` is at hand.
Second, what a handler means for one client that it does not cancel is the same for all of them: `Turn`, a relation that composes. The phase never goes back, X
is told the phase's message when it begins and nothing else (`Heeds`), and within a phase it is not asked again. The operators
of the manager get a lemma each (`...Turn`), as for `SafetyInvariant`. Third:

- `HeedInv`: as long as no end was cancelled X heeds the manager, or a fatal signal ended the program; if the manager's query or the end
  waits for X then a SaveYourself is queued or being answered (`Busy`); and X was not told to die before the phase EXIT. The second is
  what has to be shown. With the first it survives the handlers, for a new wait begins with a new phase, and this sends or queues a SaveYourself;
  the third is needed because after a Die the conversation says nothing. `NotWaitingInVain` follows: of the eight
  places of `Conversation` each is one that the property names, or one in which nothing is asked.
- `ConsInv`: while the query consults X, the SaveYourself on its way is the query's own question, which lets the application interact; and
  an answer that is on its way was agreed to, or was refused in an InteractDone that the manager will hear first. A forced
  query does not ask, and a query that was queued behind another SaveYourself is excluded as the property excludes it (finding 2 is
  what happens then): the answer to that other one counts as consent.

*The capplet.* The dialog hears of every change late, of its own as well, so nothing simple relates `pos` and `sys` to the files.
`GspInv` says what is right *but for the news*. The position of the system is that of the first file of the system unless news of an earlier
file, or of its own removal, is under way (`SystemPosition`), and news that is not true any more is followed by other news of the same
directory (`NewsIsNew`): what is heard last is true. The dialog writes only when it has heard all, so its own news is always the
first (`OwnNewsFirst`), and `OwnNewsAwaited` says what the application looks like until then: this is what `skip_next_monitor_event` and the
timer's kept identifier are for. `Place` tells the three places of an application apart: the user's file, a file of the
system with no save pending, or none until it is saved. What was chosen is in the file that counts (`Settled`), or is the application's
and is to be laid over that file, of which then nothing is news (`Pending`). The definitions take the state as parameters, so that a
lemma about what `gsp_app_new` or `handle_delete` makes of an application (`HeardChange`, `HeardDeletion`) does not depend on the step.
What the loop of `gsp_app_manager_fill` comes to for any number of directories (`FilledUpToIs`) is an induction in disguise: a function
that has the loop's result satisfies the equation of `FilledUpTo`, so the equation holds, and there is no first directory where the two
differ. That a set of directories has a first one comes from the library's well-founded order of finite sets.
An instance with three directories of the system showed both properties false without `dropped`, and the deletion described in section 4:
two directories and two changes hide them.

*Only model-checked*, and why: liveness (the properties of MCLiveness, `IdlenessEnds`, `EndSessionReturns`, `CancellationIsTold`, `SilentConnectionsGo`), for the
prover cannot reason about fairness; and what the runs that expect a violation show. Every invariant and every action property that a
passing run checks is a theorem, under the hypotheses named above.

## 6. Not modelled, and the plan

What is left, in the order of its worth:

1. **Capplet**: several file names, `_gsp_find_free_basename`, files dropped on the dialog.
2. **Desktop files** with documents and URIs, which the session manager never passes.
3. **Consolekit**: user switching, the idle hint that is lost while the service is away.
4. **XSMP**: checkpoints that a client asks for, properties that change while it is saved.

Left out for good: display (rows, screenshots, icons, countdown), logging, gettext, start of
helper programs, the GL checks of `tools/`, the one-shot tools, the tests, the build, the interface descriptions (their
operations are actions).
