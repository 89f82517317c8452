------------------------------ MODULE GspApps ------------------------------
(***************************************************************************)
(* Startup applications preferences (capplet): GspApp and GspAppManager    *)
(* (gsp-app.c, gsp-app-manager.c) behind the dialog, for one desktop file  *)
(* name.  The file may be in the user's autostart directory, number 0, and *)
(* in those of the system, which come after it; the first one counts.      *)
(*                                                                         *)
(* What the user edits is saved two seconds later, meanwhile a monitor     *)
(* tells of every change of the directories, those of the dialog included. *)
(***************************************************************************)
EXTENDS Integers, SequencesExt, FiniteSetsExt

CONSTANTS
  SystemDirs,    \* how many directories of the system there are
  Execs,         \* what the name, comment, command and delay are together
  ExternalDirs,  \* the directories that others change while the dialog is open
  TimelyMonitor, \* whether the monitor tells of a change before the next save, form or deletion
  MaxChanges,    \* bound: changes by others
  MaxEvents      \* bound: changes the monitor has yet to tell of

ASSUME GspAssumption ==
  /\ SystemDirs \in Nat \ {0}
  /\ ExternalDirs \subseteq 0..SystemDirs
  /\ TimelyMonitor \in BOOLEAN
  /\ MaxChanges \in Nat /\ MaxEvents \in Nat

USER == 0
Dirs == USER..SystemDirs
MAXUINT == SystemDirs + 1

Fields == {"hidden", "enabled", "exec"}
Contents == [hidden : BOOLEAN, enabled : BOOLEAN, exec : Execs]
Missing == [missing |-> TRUE]

\* gsp_key_file_populate
Populated == [hidden |-> FALSE, enabled |-> TRUE, exec |-> CHOOSE x \in Execs : TRUE]

VARIABLES
  disk,     \* the file in each directory
  events,   \* what the monitor has yet to tell
  app,      \* the GspApp of the file name, if there is one
  open,     \* the dialog is open
  chosen,   \* what the user has chosen, by field, and others have not changed since
  changes,  \* how often others have changed a file
  aborted,  \* an assertion has failed
  dropped   \* history: an application was dropped that another directory has, too

vars == <<disk, events, app, open, chosen, changes, aborted, dropped>>

App ==
  [values : Contents,
   pos    : 0..MAXUINT,   \* xdg_position
   sys    : 0..MAXUINT,   \* xdg_system_position
   path   : Dirs,         \* the directory of path
   old    : {-1} \cup Dirs, \* that of old_system_path, if any
   mask   : SUBSET Fields,  \* save_mask
   timer  : {"none", "due", "stale"},  \* save_timeout, which may outlive its source
   skip   : BOOLEAN]      \* skip_next_monitor_event

NoApp == [none |-> TRUE]

Event(d, what) == [dir |-> d, what |-> what]

Exists(d) == d \in Dirs /\ disk[d] # Missing

\* _gsp_app_manager_find_dir_with_basename
FindDir(above) ==
  LET found == {d \in Dirs : above < d /\ Exists(d)}
  IN  IF found = {} THEN MAXUINT ELSE Min(found)

-----------------------------------------------------------------------------
(* GspApp *)

\* gsp_app_new, as far as it reads the file
Load(a, d) ==
  [a EXCEPT !.values = disk[d], !.path = d, !.pos = d,
            !.sys = IF d > USER THEN d ELSE @,
            !.timer = "none", !.old = -1, !.skip = FALSE]

\* Its assertion on the system position
LoadAborts(a, d) == d > USER /\ d > a.sys

Fresh(d) ==
  [values |-> disk[d], pos |-> d, sys |-> IF d > USER THEN d ELSE MAXUINT, path |-> d,
   old |-> -1, mask |-> {}, timer |-> "none", skip |-> FALSE]

\* Variant: a file of lower priority is loaded
NotOfInterestNever(a, d) == a.timer # "none"

\* There is a file of higher priority, or one is going to be written
NotOfInterest(a, d) == a.pos < d \/ a.timer # "none"

\* gsp_app_new for a file that was found or has changed: the next app, if any
AppNew(a, d) ==
  IF a = NoApp
  THEN IF Exists(d) THEN Fresh(d) ELSE NoApp
  ELSE IF a.pos = d /\ a.skip THEN [a EXCEPT !.skip = FALSE]
  ELSE IF NotOfInterest(a, d) THEN [a EXCEPT !.sys = IF d < @ THEN d ELSE @]
  ELSE IF Exists(d) THEN Load(a, d)
  ELSE a

AppNewAborts(a, d) ==
  /\ a # NoApp
  /\ ~ (a.pos = d /\ a.skip) /\ ~ NotOfInterest(a, d)
  /\ Exists(d) /\ LoadAborts(a, d)

\* _gsp_app_queue_save
QueueSave(a) ==
  IF a.pos = USER THEN [a EXCEPT !.timer = "due"]
  ELSE [a EXCEPT !.timer = "due", !.pos = USER, !.path = USER,
                 !.old = IF @ = -1 THEN a.path ELSE @]

\* Variant: only the switch is compared
UserEqualsSystemLax(a) == Exists(a.sys) /\ disk[a.sys].enabled = a.values.enabled

\* _gsp_app_user_equal_system
UserEqualsSystem(a) == Exists(a.sys) /\ disk[a.sys] = a.values

\* The file that _gsp_app_save writes
Saved(a) ==
  LET from == IF a.old = -1 THEN a.path ELSE a.old
      base == IF Exists(from) THEN disk[from] ELSE Populated
  IN  [f \in Fields |-> IF f \in a.mask THEN a.values[f] ELSE base[f]]

\* _gsp_app_save when the file of the system is enough
SaveRemoves(a) ==
  /\ UserEqualsSystem(a)
  /\ IF a.path = USER /\ Exists(USER)
     THEN /\ disk' = [disk EXCEPT ![USER] = Missing]
          /\ events' = Append(events, Event(USER, "deleted"))
     ELSE UNCHANGED <<disk, events>>

\* _gsp_app_save when it writes the file of the user
SaveWrites(a) ==
  /\ ~ UserEqualsSystem(a) /\ a.path = USER
  /\ disk' = [disk EXCEPT ![USER] = Saved(a)]
  /\ events' = Append(events, Event(USER, "changed"))

\* _gsp_app_save when it cannot write the file
SaveFails(a) ==
  /\ ~ UserEqualsSystem(a)
  /\ UNCHANGED <<disk, events>>

-----------------------------------------------------------------------------
(* GspAppManager *)

\* gsp_app_reload_at
ReloadAt(a, d) == AppNew([a EXCEPT !.pos = MAXUINT], d)

\* _gsp_app_manager_handle_delete
HandleDelete(a, d) ==
  IF a.sys < d \/ d < a.pos THEN a
  ELSE IF a.pos = d
  THEN IF a.sys \in {d, MAXUINT} THEN NoApp ELSE ReloadAt(a, a.sys)
  ELSE IF a.sys = d THEN [a EXCEPT !.sys = FindDir(d)]
  ELSE a

\* Its assertions: only a file of the user can be deleted before the one in use, and
\* the one deleted is either in use or that of the system
DeleteAborts(a, d) ==
  /\ d <= a.sys
  /\ IF d < a.pos THEN d # USER ELSE d \notin {a.pos, a.sys}

\* gsp_app_manager_fill, with an empty list of applications: gsp_app_new for the file of
\* one directory after the other
FilledUpTo[d \in USER - 1..SystemDirs] ==
  IF d < USER THEN NoApp
  ELSE IF Exists(d) THEN AppNew(FilledUpTo[d - 1], d) ELSE FilledUpTo[d - 1]

Filled == FilledUpTo[SystemDirs]

-----------------------------------------------------------------------------
(* What happens *)

NoChoice == [f \in {} |-> TRUE]

Init ==
  /\ disk \in {f \in [Dirs -> Contents \cup {Missing}] : f[USER] = Missing}
  /\ events = <<>> /\ app = NoApp /\ open = FALSE
  /\ chosen = NoChoice /\ changes = 0 /\ aborted = FALSE /\ dropped = FALSE

\* The capplet runs and has not failed an assertion
Runs == open /\ ~ aborted

\* The list has a row for the application
Shown == Runs /\ app # NoApp /\ ~ app.values.hidden

\* The monitor is as far as TimelyMonitor says
UpToDate == TimelyMonitor => events = <<>>

\* csm_properties_dialog_new: setup_dialog and the singleton of the manager
Open ==
  /\ ~ open
  /\ open' = TRUE
  /\ app' = Filled
  /\ UNCHANGED <<disk, events, chosen, changes, aborted, dropped>>

\* The user has chosen a value, which is queued
Choose(field, value) ==
  /\ app.values[field] # value
  /\ Len(events) < MaxEvents
  /\ app' = QueueSave([app EXCEPT !.values[field] = value, !.mask = @ \cup {field}])
  /\ chosen' = [f \in DOMAIN chosen \cup {field} |-> IF f = field THEN value ELSE chosen[f]]
  /\ UNCHANGED <<disk, events, open, changes, aborted, dropped>>

\* on_startup_enabled_toggled, gsp_app_set_enabled
SetEnabled(enabled) == Shown /\ Choose("enabled", enabled)

\* on_edit_app_clicked, gsp_app_update
Update(exec) == Shown /\ UpToDate /\ Choose("exec", exec)

\* gsp_app_delete of an application that is in the user's directory alone
DeleteUserApp ==
  /\ Shown /\ UpToDate /\ app.pos = USER /\ app.sys = MAXUINT
  /\ Len(events) < MaxEvents
  /\ app' = NoApp
  /\ disk' = [disk EXCEPT ![app.path] = Missing]
  /\ events' = IF Exists(app.path) THEN Append(events, Event(app.path, "deleted")) ELSE events
  /\ chosen' = NoChoice
  /\ UNCHANGED <<open, changes, aborted, dropped>>

\* gsp_app_delete of another: it is hidden by a file of the user
HideApp ==
  /\ Shown /\ ~ (app.pos = USER /\ app.sys = MAXUINT)
  /\ Choose("hidden", TRUE)

\* on_add_app_clicked, gsp_app_create, when _gsp_find_free_basename takes the name
Create(exec) ==
  /\ Runs /\ app = NoApp /\ UpToDate
  /\ LET new == [Populated EXCEPT !.exec = exec]
     IN  /\ app' = QueueSave([values |-> new, pos |-> USER, sys |-> MAXUINT, path |-> USER,
                              old |-> -1, mask |-> Fields, timer |-> "none", skip |-> FALSE])
         /\ chosen' = new
  /\ UNCHANGED <<disk, events, open, changes, aborted, dropped>>

\* The choices but for those of some fields, which are no longer the user's
Unchosen(fields) == [f \in DOMAIN chosen \ fields |-> chosen[f]]

Done(a) == [a EXCEPT !.mask = {}, !.old = -1]

\* The timeout of _gsp_app_queue_save; the identifier of its source is kept when no
\* file had to be written
SaveTimeout ==
  /\ Runs /\ app # NoApp /\ app.timer = "due" /\ UpToDate
  /\ Len(events) < MaxEvents
  /\ \/ /\ SaveRemoves(app)
        /\ app' = [Done(app) EXCEPT !.path = app.sys, !.pos = app.sys, !.timer = "stale"]
        /\ UNCHANGED chosen
     \/ /\ SaveWrites(app)
        /\ app' = [Done(app) EXCEPT !.timer = "none", !.skip = TRUE]
        /\ UNCHANGED chosen
     \/ /\ SaveFails(app)
        /\ app' = [app EXCEPT !.timer = "none"]
        /\ chosen' = Unchosen(app.mask)
  /\ UNCHANGED <<open, changes, aborted, dropped>>

\* The dialog is closed: csm_properties_dialog_dispose, gsp_app_manager_dispose and
\* gsp_app_dispose, which saves when a save is pending, unless find_by_app has kept a
\* reference
Close ==
  /\ Runs /\ UpToDate
  /\ open' = FALSE /\ app' = NoApp /\ events' = <<>>
  /\ \/ /\ app # NoApp /\ app.timer # "none"
        /\ \/ /\ UserEqualsSystem(app)
              /\ disk' = IF app.path = USER THEN [disk EXCEPT ![USER] = Missing] ELSE disk
              /\ UNCHANGED chosen
           \/ /\ ~ UserEqualsSystem(app) /\ app.path = USER
              /\ disk' = [disk EXCEPT ![USER] = Saved(app)]
              /\ UNCHANGED chosen
     \/ /\ UNCHANGED disk
        /\ chosen' = IF app = NoApp THEN chosen ELSE Unchosen(app.mask)
  /\ UNCHANGED <<changes, aborted, dropped>>

\* A file of a directory is written or removed by others.  They prevail over what the
\* user has chosen, but where a file of the user hides theirs or one is to be written.
External(d) ==
  /\ changes < MaxChanges /\ Len(events) < MaxEvents
  /\ changes' = changes + 1
  /\ \E file \in Contents \cup {Missing} :
       /\ file # disk[d]
       /\ disk' = [disk EXCEPT ![d] = file]
       /\ events' = IF open THEN Append(events, Event(d, IF file = Missing THEN "deleted" ELSE "changed"))
                    ELSE events
  /\ chosen' = IF d # USER /\ Exists(USER) THEN chosen
               ELSE IF app # NoApp /\ app.timer = "due" THEN Unchosen(Fields \ app.mask)
               ELSE NoChoice
  /\ UNCHANGED <<app, open, aborted, dropped>>

\* gsp_app_manager_xdg_dir_monitor
Monitor ==
  /\ Runs /\ events # <<>>
  /\ events' = Tail(events)
  /\ LET e == Head(events)
     IN  /\ IF e.what = "deleted"
            THEN /\ app' = IF app = NoApp THEN NoApp ELSE HandleDelete(app, e.dir)
                 /\ aborted' = (app # NoApp /\ DeleteAborts(app, e.dir))
            ELSE /\ app' = AppNew(app, e.dir)
                 /\ aborted' = AppNewAborts(app, e.dir)
         /\ dropped' = (dropped \/ (app # NoApp /\ app' = NoApp /\ FindDir(e.dir) # MAXUINT))
  /\ UNCHANGED <<disk, open, chosen, changes>>

Next ==
  \/ Open \/ Close
  \/ \E enabled \in BOOLEAN : SetEnabled(enabled)
  \/ \E exec \in Execs : Update(exec) \/ Create(exec)
  \/ DeleteUserApp \/ HideApp
  \/ SaveTimeout \/ Monitor
  \/ \E d \in ExternalDirs : External(d)

Spec == Init /\ [][Next]_vars

-----------------------------------------------------------------------------
(* Properties *)

\* The file the session manager will use
Effective == CHOOSE d \in Dirs : Exists(d) /\ \A o \in Dirs : Exists(o) => d <= o

\* What the user has set in the dialog is what the session manager reads once it has
\* been saved: the saved fields are laid over the file they were read from, and the
\* user's own file is removed only where that of the system says the same
\* (_gsp_app_save, _gsp_app_user_equal_system, _gsp_app_queue_save), unless an
\* application was dropped that DroppedIsGone is about.
EditIsKept ==
  ~ dropped /\ (app = NoApp \/ (app.timer # "due" /\ app.mask = {})) /\ chosen # NoChoice
    => /\ \E d \in Dirs : Exists(d)
       /\ \A f \in DOMAIN chosen : disk[Effective][f] = chosen[f]

\* As the monitor has been heard out and nothing is pending, the application the dialog
\* works on is that of the first directory that has its file, whatever files came and
\* went and whatever was ignored meanwhile (gsp_app_new, _gsp_app_manager_handle_delete,
\* _gsp_app_save), but for applications dropped too early.
PositionsAreCurrent ==
  Runs /\ ~ dropped /\ events = <<>> /\ app # NoApp /\ app.timer = "none" /\ app.mask = {}
    => Exists(app.pos) /\ app.pos = Effective

\* An application that the monitor makes the dialog drop, and tells nothing more of, is
\* in no directory: "the file used by the user was deleted, and there's no other file in
\* system directories.  So it really got deleted." (gsp-app-manager.c:320)
DroppedIsGone ==
  [][ app # NoApp /\ events # <<>> /\ app' = NoApp /\ open' /\ events' = <<>>
        => \A d \in Dirs : ~ Exists(d)' ]_vars
=============================================================================
