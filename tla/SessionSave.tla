---------------------------- MODULE SessionSave ----------------------------
(***************************************************************************)
(* The saved session: what XSMP clients tell the manager of themselves     *)
(* (CsmXSMPClient's properties), how csm_session_save writes it to disk at *)
(* the end of a session (cafe-session/csm-session-save.c), and how the     *)
(* next session starts the applications again (main.c).                    *)
(*                                                                         *)
(* A client that saves itself writes a state, a file of its own with a     *)
(* number.  The command that restarts it names that state, and so does the *)
(* command that discards it.  Saving happens in one call, but every step   *)
(* of it is one on disk: the manager may be killed between any two.        *)
(***************************************************************************)
EXTENDS DesktopFile, FiniteSets

CONSTANTS
  Clients,        \* XSMP clients, by the startup ids they keep over sessions
  Program(_),     \* the words a client is started with
  Digit(_),       \* the text of a number
  Discardless,    \* clients without a discard command
  MaxStates,      \* bound: states one client ever writes
  Names,          \* names an autostart file may have
  AutostartExec,  \* its Exec line,
  AutostartWords  \* and the words of it, <<"%", "c">> where the name belongs

ASSUME SessionSaveAssumption == MaxStates \in Nat /\ Discardless \subseteq Clients

VARIABLES
  pc,        \* what the manager is doing
  props,     \* what clients have told of themselves
  todo,      \* what csm_session_save has yet to look at
  hash,      \* discard_hash
  saved,     \* saved-session, by the client of each file
  new,       \* saved-session.new
  states,    \* the states on disk
  written,   \* how many states a client has written
  discards,  \* commands that were spawned and have yet to run
  launched,  \* what the saved applications were started with,
  started,   \* and the one of the autostart file
  name,      \* the name in that file
  intact     \* no save has failed, none was killed while it cleared the old one

vars == <<pc, props, todo, hash, saved, new, states, written, discards, launched,
          started, name, intact>>

Disk == <<saved, states, written, discards>>
Launches == <<launched, started, name>>

Numbers == 1..MaxStates

None == <<>>     \* no text
NoFiles == <<>>  \* an empty directory

RestartCommand(c, n) == Append(Program(c), Digit(n))
DiscardCommand(c, n) == <<<<"r", "m">>, Program(c)[1], Digit(n)>>

\* A client that has set its properties: the state its commands name, and whether
\* it is never to be restarted or has a desktop file that cannot be read
Kinds == {"plain", "never", "unreadable"}
Unset == [state |-> 0, kind |-> "never"]

\* create_client_key_file: name and source for the codes of Exec
ClientFile == [i |-> None, c |-> <<"n">>, k |-> <<"k">>]
AutostartFile == [i |-> None, c |-> name, k |-> <<"k">>]

\* xsmp_save, of a client that is to be saved
FileOf(c) ==
  [exec    |-> PropToCommand(RestartCommand(c, props[c].state)),
   discard |-> IF c \in Discardless THEN None
               ELSE PropToCommand(DiscardCommand(c, props[c].state))]

\* xsmp_save: no key file for a client without a restart command or that is never
\* to be restarted
IsSaved(c) == props[c].kind # "never"

Without(f, c) == [d \in DOMAIN f \ {c} |-> f[d]]

\* What a discard command removes
Discarded(discard) ==
  {d \in Clients \X Numbers : ShellParse(discard) = DiscardCommand(d[1], d[2])}

\* A client names a state of its own in a command, and no two in the same: what the
\* manager reads back, if it is the restart command of a state, is that of the state
\* that was saved, and a discard command removes no other.
ASSUME CommandsAssumption ==
  /\ \A c \in Clients, n, k \in Numbers :
       Argv(PropToCommand(RestartCommand(c, n)), ClientFile) = RestartCommand(c, k) => k = n
  /\ \A c \in Clients, n \in Numbers :
       Discarded(PropToCommand(DiscardCommand(c, n))) \subseteq {<<c, n>>}
  /\ Discarded(None) = {}

\* The session is over, and with it the manager and its clients
SessionOver ==
  /\ pc' = "off"
  /\ props' = [c \in Clients |-> Unset]
  /\ todo' = {} /\ hash' = {}
  /\ launched' = NoFiles /\ started' = None
  /\ UNCHANGED name

-----------------------------------------------------------------------------

Init ==
  /\ pc = "off"
  /\ props = [c \in Clients |-> Unset]
  /\ todo = {} /\ hash = {}
  /\ saved = NoFiles /\ new = NoFiles
  /\ states = [c \in Clients |-> {}]
  /\ written = [c \in Clients |-> 0]
  /\ discards = {}
  /\ launched = NoFiles /\ started = None
  /\ name \in Names
  /\ intact = TRUE

\* load_standard_apps, with maybe_load_saved_session_apps; neither happens in a
\* failsafe session, the latter only if sessions are saved
Login ==
  /\ pc = "off"
  /\ pc' = "on"
  /\ \E failsafe, autosave \in BOOLEAN :
       /\ started' = IF failsafe THEN None ELSE Argv(AutostartExec, AutostartFile)
       /\ launched' = IF failsafe \/ ~ autosave THEN NoFiles
                      ELSE [c \in DOMAIN saved |-> Argv(saved[c].exec, ClientFile)]
  /\ UNCHANGED <<props, todo, hash, new, Disk, name, intact>>

\* The states a client knows: the one it has, and the one it was restored from
Known(c) ==
  {n \in Numbers : \/ props[c].state = n
                   \/ c \in DOMAIN launched /\ launched[c] = RestartCommand(c, n)}

\* set_properties_callback: a client has saved itself, or holds to a state
SetProperties(c) ==
  /\ pc = "on"
  /\ \E kind \in Kinds :
       \/ /\ written[c] < MaxStates
          /\ written' = [written EXCEPT ![c] = @ + 1]
          /\ states' = [states EXCEPT ![c] = @ \cup {written'[c]}]
          /\ props' = [props EXCEPT ![c] = [state |-> written'[c], kind |-> kind]]
       \/ /\ \E n \in Known(c) : props' = [props EXCEPT ![c] = [state |-> n, kind |-> kind]]
          /\ UNCHANGED <<states, written>>
  /\ UNCHANGED <<pc, todo, hash, saved, new, discards, Launches, intact>>

\* The client leaves, or deletes its properties (delete_properties_callback).
ClientGone(c) ==
  /\ pc = "on"
  /\ props' = [props EXCEPT ![c] = Unset]
  /\ UNCHANGED <<pc, todo, hash, new, Disk, Launches, intact>>

\* Variant: the directory is taken as it is
TmpSessionDirUsed == new

\* csm_util_get_empty_tmp_session_dir
TmpSessionDir == NoFiles

\* maybe_save_session at the end of END_SESSION, and the beginning of
\* csm_session_save, unless the session is not to be saved or a directory
\* cannot be made
SaveSession ==
  /\ pc = "on"
  /\ pc' = "saving"
  /\ todo' = Clients
  /\ hash' = {}
  /\ new' = TmpSessionDir
  /\ UNCHANGED <<props, Disk, Launches, intact>>

EndWithoutSaving ==
  /\ pc = "on"
  /\ SessionOver
  /\ UNCHANGED <<new, Disk, intact>>

\* Variant: the discard commands are not remembered
RememberedNot(file) == {}

\* save_one_client: the discard command is put into the hash
Remembered(file) == {file.discard} \ {None}

SaveOneClient(c) ==
  /\ pc = "saving" /\ c \in todo
  /\ IF IsSaved(c)
     THEN /\ props[c].kind # "unreadable"
          /\ new' = [d \in DOMAIN new \cup {c} |-> IF d = c THEN FileOf(c) ELSE new[d]]
          /\ hash' = hash \cup Remembered(FileOf(c))
     ELSE UNCHANGED <<new, hash>>
  /\ todo' = todo \ {c}
  /\ UNCHANGED <<pc, props, Disk, Launches, intact>>

\* save_one_client fails: the desktop file cannot be read, or the new one written
SaveFails(c) ==
  /\ pc = "saving" /\ c \in todo /\ IsSaved(c)
  /\ pc' = "failed"
  /\ todo' = {}
  /\ intact' = FALSE
  /\ UNCHANGED <<props, hash, new, Disk, Launches>>

AllSaved ==
  /\ pc = "saving" /\ todo = {}
  /\ pc' = "clearing"
  /\ todo' = DOMAIN saved
  /\ UNCHANGED <<props, hash, new, Disk, Launches, intact>>

\* csm_session_clear_one_client, of the old session: its discard command is run
\* unless the new session has the same
DiscardOne(c) ==
  /\ pc = "clearing" /\ c \in todo /\ todo = DOMAIN saved
  /\ todo' = todo \ {c}
  /\ discards' = discards \cup IF saved[c].discard \in hash THEN {}
                               ELSE Discarded(saved[c].discard)
  /\ UNCHANGED <<pc, props, hash, saved, new, states, written, Launches, intact>>

UnlinkOne(c) ==
  /\ pc = "clearing" /\ c \in DOMAIN saved \ todo
  /\ saved' = Without(saved, c)
  /\ UNCHANGED <<pc, props, todo, hash, new, states, written, discards, Launches, intact>>

\* g_rmdir and g_rename
RenameDir ==
  /\ pc = "clearing" /\ saved = NoFiles
  /\ saved' = new /\ new' = NoFiles
  /\ SessionOver
  /\ UNCHANGED <<states, written, discards, intact>>

\* After a failure the new files are cleared without a hash, so that all of their
\* discard commands are run ("FIXME").
ClearNew(c) ==
  /\ pc = "failed" /\ c \in DOMAIN new
  /\ discards' = discards \cup Discarded(new[c].discard)
  /\ new' = Without(new, c)
  /\ UNCHANGED <<pc, props, todo, hash, saved, states, written, Launches, intact>>

ClearedNew ==
  /\ pc = "failed" /\ new = NoFiles
  /\ SessionOver
  /\ UNCHANGED <<new, Disk, intact>>

\* The manager is killed, with the machine or without.
Killed ==
  /\ pc # "off"
  /\ SessionOver
  /\ intact' = (intact /\ pc \in {"on", "saving"})
  /\ UNCHANGED <<new, Disk>>

\* g_spawn_async: the command runs when it does
DiscardRuns ==
  /\ \E d \in discards :
       /\ discards' = discards \ {d}
       /\ states' = [states EXCEPT ![d[1]] = @ \ {d[2]}]
  /\ UNCHANGED <<pc, props, todo, hash, saved, new, written, Launches, intact>>

Next ==
  \/ Login \/ SaveSession \/ EndWithoutSaving \/ AllSaved \/ RenameDir \/ ClearedNew
  \/ Killed \/ DiscardRuns
  \/ \E c \in Clients : \/ SetProperties(c) \/ ClientGone(c)
                        \/ SaveOneClient(c) \/ SaveFails(c)
                        \/ DiscardOne(c) \/ UnlinkOne(c) \/ ClearNew(c)

Spec == Init /\ [][Next]_vars

-----------------------------------------------------------------------------
(* Properties *)

\* A command that a client has set survives its way through the desktop file: the
\* next session starts the client with the very words it asked for.  (Words with
\* a quote or a percent sign do not: see the README.)
SavedCommandIsKept ==
  \A c \in DOMAIN saved : \E n \in Numbers :
    Argv(saved[c].exec, ClientFile) = RestartCommand(c, n)

\* No discard command is run for a state that the saved session names, whichever
\* sessions were saved, not saved or killed in between and however late the
\* commands run - unless a save has failed, or was killed while clearing.
SavedStateIsKept ==
  intact =>
    \A c \in IF pc = "clearing" THEN todo ELSE DOMAIN saved, n \in Numbers :
      Argv(saved[c].exec, ClientFile) = RestartCommand(c, n) =>
        n \in states[c] /\ <<c, n>> \notin discards

\* What replaces the saved session is the session that ends: nothing of a save
\* that was killed is taken over, no client is left out.
NewSessionIsCurrent ==
  pc = "clearing" => new = [c \in {d \in Clients : IsSaved(d)} |-> FileOf(c)]

\* Whatever the name of an application, its Exec line can be parsed and a code in it
\* is one argument.
FieldCodesAreOneWord ==
  LET words == [i \in 1..Len(AutostartWords) |->
                  IF AutostartWords[i] = <<"%", "c">> THEN name ELSE AutostartWords[i]]
  IN  Argv(AutostartExec, AutostartFile) = words /\ started \in {None, words}
=============================================================================
