------------------------- MODULE SessionSaveProofs -------------------------
(***************************************************************************)
(* What is on disk after any number of sessions, proved for all clients,   *)
(* commands and states: the files that replace the saved session are those *)
(* of the session that ends, and no discard command takes away a state     *)
(* that the saved session names.                                           *)
(*                                                                         *)
(* Neither is inductive.  Current says what is true of the new files and   *)
(* of the remembered discard commands in the middle of a save.  Survives   *)
(* follows a state from the client that wrote it to the file that names    *)
(* it, through the session that is restored from it, to the client again.  *)
(*                                                                         *)
(* Then, for texts of any length: a command that was written into a file   *)
(* comes out of it word by word, and a name in an Exec line stays one      *)
(* argument.  Both are inductions over the characters of a line, as sets   *)
(* of sequences that contain the empty one and every longer one (Growing). *)
(***************************************************************************)
EXTENDS SessionSave, FiniteSetTheorems, WellFoundedInduction, SequenceTheorems, TLAPS

\* The file of a client in some state
File(c, n) ==
  [exec    |-> PropToCommand(RestartCommand(c, n)),
   discard |-> IF c \in Discardless THEN None ELSE PropToCommand(DiscardCommand(c, n))]

SaveTypeOK ==
  /\ pc \in {"off", "on", "saving", "clearing", "failed"}
  /\ props \in [Clients -> [state : 0..MaxStates, kind : Kinds]]
  /\ \A c \in Clients : IsSaved(c) => props[c].state \in Numbers
  /\ todo \subseteq Clients
  /\ pc = "clearing" => todo \subseteq DOMAIN saved
  /\ DOMAIN saved \subseteq Clients
  /\ DOMAIN launched \subseteq Clients
  /\ written \in [Clients -> 0..MaxStates]
  /\ states \in [Clients -> SUBSET Numbers]
  /\ \A c \in Clients : \A n \in states[c] : n <= written[c]
  /\ discards \subseteq Clients \X Numbers
  /\ intact \in BOOLEAN

\* The clients of a set that are saved, their files, and what is remembered of them
SavedOf(S) == {c \in S : IsSaved(c)}
FilesOf(S) == [c \in SavedOf(S) |-> FileOf(c)]
HashOf(S) == {FileOf(c).discard : c \in SavedOf(S)} \ {None}

Current ==
  /\ pc = "saving" => new = FilesOf(Clients \ todo) /\ hash = HashOf(Clients \ todo)
  /\ pc = "clearing" => new = FilesOf(Clients) /\ hash = HashOf(Clients)

\* A state is on disk, and no discard command for it is under way.
Kept(c, n) == n \in states[c] /\ <<c, n>> \notin discards

\* The files that are to stay, or that the next session starts from
Lasting == IF pc = "clearing" THEN todo ELSE DOMAIN saved

SavedSurvive ==
  /\ \A c \in DOMAIN saved : \E n \in Numbers : n <= written[c] /\ saved[c] = File(c, n)
  /\ \A c \in Lasting, n \in Numbers :
       Argv(saved[c].exec, ClientFile) = RestartCommand(c, n) => Kept(c, n)

RunningSurvive ==
  /\ pc = "off" => \A c \in Clients : props[c].state \notin Numbers
  /\ pc = "on" => \A c \in DOMAIN launched, n \in Numbers :
                    launched[c] = RestartCommand(c, n) => Kept(c, n)
  /\ pc \in {"on", "saving"} => \A c \in Clients :
       props[c].state \in Numbers => Kept(c, props[c].state)
  /\ pc = "clearing" => \A c \in Clients : IsSaved(c) => Kept(c, props[c].state)

Survives ==
  intact =>
    /\ pc # "failed"
    /\ \A d \in discards : d[2] <= written[d[1]]
    /\ SavedSurvive
    /\ RunningSurvive

SaveInv == SaveTypeOK /\ Current /\ Survives

-----------------------------------------------------------------------------
(* The types *)

\* The types hold at the start.
LEMMA SaveInitType == Init => SaveTypeOK
BY SessionSaveAssumption
DEF Init, SaveTypeOK, IsSaved, Unset, Kinds, NoFiles, Numbers

\* The session that is over leaves clients and lists as they were at first.
LEMMA SessionOverType ==
  ASSUME SaveTypeOK, SessionOver, DOMAIN saved' \subseteq Clients,
         UNCHANGED <<states, written, discards>>, intact' \in BOOLEAN
  PROVE  SaveTypeOK'
BY SessionSaveAssumption DEF SaveTypeOK, SessionOver, IsSaved, Unset, Kinds, NoFiles, Numbers

\* A client comes to a state, which it writes or knows.
LEMMA ComesToState ==
  ASSUME SaveTypeOK, NEW c \in Clients, SetProperties(c)
  PROVE  \E kind \in Kinds, n \in Numbers :
           /\ pc = "on"
           /\ props' = [props EXCEPT ![c] = [state |-> n, kind |-> kind]]
           /\ UNCHANGED <<pc, todo, hash, saved, new, discards, launched, intact>>
           /\ \/ /\ n = written[c] + 1
                 /\ written' = [written EXCEPT ![c] = n]
                 /\ states' = [states EXCEPT ![c] = @ \cup {n}]
              \/ n \in Known(c) /\ UNCHANGED <<states, written>>
<1>1. PICK kind \in Kinds :
        \/ /\ written[c] < MaxStates
           /\ written' = [written EXCEPT ![c] = @ + 1]
           /\ states' = [states EXCEPT ![c] = @ \cup {written'[c]}]
           /\ props' = [props EXCEPT ![c] = [state |-> written'[c], kind |-> kind]]
        \/ /\ \E n \in Known(c) : props' = [props EXCEPT ![c] = [state |-> n, kind |-> kind]]
           /\ UNCHANGED <<states, written>>
  BY DEF SetProperties
<1>2. pc = "on" /\ UNCHANGED <<pc, todo, hash, saved, new, discards, launched, intact>>
  BY DEF SetProperties, Launches
<1>3. CASE written[c] < MaxStates /\ written' = [written EXCEPT ![c] = @ + 1]
  <2>1. written[c] + 1 \in Numbers /\ written'[c] = written[c] + 1
    BY <1>3, SessionSaveAssumption DEF SaveTypeOK, Numbers
  <2> QED BY <1>1, <1>2, <1>3, <2>1 DEF Known
<1>4. CASE \E n \in Known(c) : /\ props' = [props EXCEPT ![c] = [state |-> n, kind |-> kind]]
                               /\ UNCHANGED <<states, written>>
  BY <1>2, <1>4 DEF Known
<1> QED BY <1>1, <1>3, <1>4

\* No step leaves them.
LEMMA SaveNextType == SaveTypeOK /\ Current /\ Next => SaveTypeOK'
<1> SUFFICES ASSUME SaveTypeOK, Current, Next PROVE SaveTypeOK'
  OBVIOUS
<1> USE SessionSaveAssumption
<1>1. CASE Login
  BY <1>1 DEF Login, SaveTypeOK, IsSaved, Disk, NoFiles
<1>2. CASE SaveSession
  BY <1>2 DEF SaveSession, SaveTypeOK, IsSaved, Disk, Launches
<1>3. CASE EndWithoutSaving
  BY <1>3, SessionOverType DEF EndWithoutSaving, Disk, SaveTypeOK
<1>4. CASE AllSaved
  BY <1>4 DEF AllSaved, SaveTypeOK, IsSaved, Disk, Launches
<1>5. CASE RenameDir
  <2>1. DOMAIN new \subseteq Clients
    BY <1>5 DEF RenameDir, Current, FilesOf, SavedOf
  <2> QED BY <1>5, <2>1, SessionOverType DEF RenameDir, SaveTypeOK
<1>6. CASE ClearedNew
  BY <1>6, SessionOverType DEF ClearedNew, Disk, SaveTypeOK
<1>7. CASE Killed
  BY <1>7, SessionOverType DEF Killed, Disk, SaveTypeOK
<1>8. CASE DiscardRuns
  BY <1>8 DEF DiscardRuns, SaveTypeOK, IsSaved, Launches
<1>9. ASSUME NEW c \in Clients, SetProperties(c) PROVE SaveTypeOK'
  <2>1. PICK kind \in Kinds, n \in Numbers :
          /\ pc = "on"
          /\ props' = [props EXCEPT ![c] = [state |-> n, kind |-> kind]]
          /\ UNCHANGED <<pc, todo, hash, saved, new, discards, launched, intact>>
          /\ \/ /\ n = written[c] + 1
                /\ written' = [written EXCEPT ![c] = n]
                /\ states' = [states EXCEPT ![c] = @ \cup {n}]
             \/ n \in Known(c) /\ UNCHANGED <<states, written>>
    BY <1>9, ComesToState
  <2>2. /\ props' \in [Clients -> [state : 0..MaxStates, kind : Kinds]]
        /\ \A d \in Clients : IsSaved(d)' => props'[d].state \in Numbers
    BY <2>1 DEF SaveTypeOK, IsSaved, Numbers
  <2>3. /\ written' \in [Clients -> 0..MaxStates] /\ states' \in [Clients -> SUBSET Numbers]
        /\ \A d \in Clients : \A k \in states'[d] : k <= written'[d]
    <3>1. CASE UNCHANGED <<states, written>>
      BY <3>1 DEF SaveTypeOK
    <3>2. CASE /\ n = written[c] + 1
               /\ written' = [written EXCEPT ![c] = n]
               /\ states' = [states EXCEPT ![c] = @ \cup {n}]
      BY <3>2 DEF SaveTypeOK, Numbers
    <3> QED BY <2>1, <3>1, <3>2
  <2> QED BY <2>1, <2>2, <2>3 DEF SaveTypeOK
<1>10. ASSUME NEW c \in Clients, ClientGone(c) PROVE SaveTypeOK'
  BY <1>10 DEF ClientGone, SaveTypeOK, IsSaved, Disk, Launches, Unset, Kinds, Numbers
<1>11. ASSUME NEW c \in Clients, SaveOneClient(c) PROVE SaveTypeOK'
  BY <1>11 DEF SaveOneClient, SaveTypeOK, IsSaved, Disk, Launches
<1>12. ASSUME NEW c \in Clients, SaveFails(c) PROVE SaveTypeOK'
  BY <1>12 DEF SaveFails, SaveTypeOK, IsSaved, Disk, Launches
<1>13. ASSUME NEW c \in Clients, DiscardOne(c) PROVE SaveTypeOK'
  BY <1>13 DEF DiscardOne, SaveTypeOK, IsSaved, Launches, Discarded
<1>14. ASSUME NEW c \in Clients, UnlinkOne(c) PROVE SaveTypeOK'
  BY <1>14 DEF UnlinkOne, SaveTypeOK, IsSaved, Launches, Without
<1>15. ASSUME NEW c \in Clients, ClearNew(c) PROVE SaveTypeOK'
  BY <1>15 DEF ClearNew, SaveTypeOK, IsSaved, Launches, Discarded
<1> QED BY <1>1, <1>2, <1>3, <1>4, <1>5, <1>6, <1>7, <1>8, <1>9, <1>10, <1>11, <1>12,
           <1>13, <1>14, <1>15 DEF Next

-----------------------------------------------------------------------------
(* The new files *)

\* With nobody saved yet there are no files, and nothing to remember.
LEMMA NobodySaved == FilesOf({}) = NoFiles /\ HashOf({}) = {}
<1>1. SavedOf({}) = {}
  BY DEF SavedOf
<1> QED BY <1>1 DEF FilesOf, HashOf, NoFiles

\* One client more is saved, or not to be saved.
LEMMA OneMoreSaved ==
  ASSUME NEW S, NEW c
  PROVE  /\ IsSaved(c) =>
              /\ FilesOf(S \cup {c}) =
                   [d \in DOMAIN FilesOf(S) \cup {c} |-> IF d = c THEN FileOf(c) ELSE FilesOf(S)[d]]
              /\ HashOf(S \cup {c}) = HashOf(S) \cup Remembered(FileOf(c))
         /\ ~ IsSaved(c) => FilesOf(S \cup {c}) = FilesOf(S) /\ HashOf(S \cup {c}) = HashOf(S)
<1>1. ASSUME IsSaved(c)
      PROVE  SavedOf(S \cup {c}) = SavedOf(S) \cup {c}
  BY <1>1 DEF SavedOf
<1>2. ASSUME ~ IsSaved(c)
      PROVE  SavedOf(S \cup {c}) = SavedOf(S)
  BY <1>2 DEF SavedOf
<1>3. ASSUME IsSaved(c)
      PROVE  HashOf(S \cup {c}) = HashOf(S) \cup Remembered(FileOf(c))
  BY <1>1, <1>3 DEF HashOf, Remembered
<1> QED BY <1>1, <1>2, <1>3 DEF FilesOf, HashOf

\* The files are those of clients that did not change.
LEMMA FilesUnchanged ==
  ASSUME UNCHANGED props, NEW S
  PROVE  FilesOf(S)' = FilesOf(S') /\ HashOf(S)' = HashOf(S')
BY DEF FilesOf, HashOf, SavedOf, FileOf, IsSaved

\* No step makes the new files or the remembered commands those of another session.
LEMMA CurrentStep == SaveTypeOK /\ Current /\ [Next]_vars => Current'
<1> SUFFICES ASSUME SaveTypeOK, Current, [Next]_vars PROVE Current'
  OBVIOUS
<1>1. ASSUME UNCHANGED <<pc, props, todo, hash, new>> PROVE Current'
  BY <1>1 DEF Current, FilesOf, HashOf, SavedOf, FileOf, IsSaved
<1>2. ASSUME pc' \notin {"saving", "clearing"} PROVE Current'
  BY <1>2 DEF Current
<1>3. CASE SaveSession
  <2>1. Clients \ todo' = {}
    BY <1>3 DEF SaveSession
  <2>2. /\ pc' = "saving" /\ new' = NoFiles /\ hash' = {}
    BY <1>3 DEF SaveSession, TmpSessionDir
  <2>3. FilesOf(Clients \ todo)' = FilesOf({}) /\ HashOf(Clients \ todo)' = HashOf({})
    BY <1>3, <2>1 DEF SaveSession, FilesOf, HashOf, SavedOf
  <2> QED BY <2>2, <2>3, NobodySaved DEF Current
<1>4. ASSUME NEW c \in Clients, SaveOneClient(c) PROVE Current'
  <2> DEFINE S == Clients \ todo
  <2>1. /\ pc = "saving" /\ c \in todo /\ pc' = "saving" /\ todo' = todo \ {c}
        /\ UNCHANGED props
    BY <1>4 DEF SaveOneClient
  <2>2. new = FilesOf(S) /\ hash = HashOf(S)
    BY <2>1 DEF Current
  <2>3. (Clients \ todo)' = S \cup {c}
    BY <2>1 DEF SaveTypeOK
  <2>4. new' = FilesOf(S \cup {c}) /\ hash' = HashOf(S \cup {c})
    <3> HIDE DEF S
    <3> QED BY <1>4, <2>2, OneMoreSaved DEF SaveOneClient
  <2>5. /\ FilesOf(Clients \ todo)' = FilesOf(S \cup {c})
        /\ HashOf(Clients \ todo)' = HashOf(S \cup {c})
    BY <2>1, <2>3 DEF FilesOf, HashOf, SavedOf, FileOf, IsSaved
  <2> QED BY <2>1, <2>4, <2>5 DEF Current
<1>5. CASE AllSaved
  <2>1. /\ pc = "saving" /\ pc' = "clearing" /\ Clients \ todo = Clients
        /\ UNCHANGED <<props, hash, new>>
    BY <1>5 DEF AllSaved
  <2>2. new = FilesOf(Clients) /\ hash = HashOf(Clients)
    BY <2>1 DEF Current
  <2>3. FilesOf(Clients)' = FilesOf(Clients) /\ HashOf(Clients)' = HashOf(Clients)
    BY <2>1 DEF FilesOf, HashOf, SavedOf, FileOf, IsSaved
  <2> QED BY <2>1, <2>2, <2>3 DEF Current
<1>6. ASSUME NEW c \in Clients, DiscardOne(c) \/ UnlinkOne(c) PROVE Current'
  <2>1. /\ pc = "clearing" /\ UNCHANGED <<pc, props, hash, new>>
    BY <1>6 DEF DiscardOne, UnlinkOne
  <2> QED BY <2>1 DEF Current, FilesOf, HashOf, SavedOf, FileOf, IsSaved
<1>7. ASSUME NEW c \in Clients, SetProperties(c) \/ ClientGone(c) \/ SaveFails(c) \/ ClearNew(c)
      PROVE  Current'
  BY <1>2, <1>7 DEF SetProperties, ClientGone, SaveFails, ClearNew
<1>8. CASE Login \/ EndWithoutSaving \/ RenameDir \/ ClearedNew \/ Killed
  BY <1>2, <1>8 DEF Login, EndWithoutSaving, RenameDir, ClearedNew, Killed, SessionOver
<1>9. CASE DiscardRuns \/ UNCHANGED vars
  BY <1>1, <1>9 DEF DiscardRuns, vars
<1> QED BY <1>3, <1>4, <1>5, <1>6, <1>7, <1>8, <1>9 DEF Next

-----------------------------------------------------------------------------
(* The states that survive *)

\* The restart command in a client's file is not that of another state, and the
\* discard command removes no other.
LEMMA FilesNameStates ==
  ASSUME NEW c \in Clients, NEW n \in Numbers
  PROVE  /\ \A k \in Numbers :
              Argv(File(c, n).exec, ClientFile) = RestartCommand(c, k) => k = n
         /\ Discarded(File(c, n).discard) \subseteq {<<c, n>>}
BY CommandsAssumption DEF File

\* The state that the file of a running client names is the client's.
LEMMA FileOfState == \A c : FileOf(c) = File(c, props[c].state)
BY DEF FileOf, File

\* Where no state is lost and no saved file changed, what is saved survives.
LEMMA SavedStays ==
  ASSUME SaveTypeOK, SavedSurvive, UNCHANGED saved, Lasting' \subseteq Lasting,
         \A c \in Clients : written[c] <= written'[c],
         \A c \in Lasting', n \in Numbers : Kept(c, n) => Kept(c, n)',
         written' \in [Clients -> 0..MaxStates]
  PROVE  SavedSurvive'
<1>1. \A c \in DOMAIN saved : \E n \in Numbers : n <= written'[c] /\ saved[c] = File(c, n)
  BY SessionSaveAssumption DEF SaveTypeOK, SavedSurvive, Numbers
<1>2. \A c \in Lasting', n \in Numbers :
        Argv(saved[c].exec, ClientFile) = RestartCommand(c, n) => Kept(c, n)'
  BY DEF SavedSurvive
<1> QED BY <1>1, <1>2 DEF SavedSurvive, File

\* The end of a session leaves what is on disk.
LEMMA SessionOverSurvives ==
  ASSUME SaveTypeOK, Survives, SessionOver, UNCHANGED Disk, pc # "clearing", intact' => intact
  PROVE  Survives'
<1> SUFFICES ASSUME intact' PROVE Survives'
  BY DEF Survives
<1>1. /\ \A d \in discards : d[2] <= written[d[1]]
      /\ SavedSurvive
  BY DEF Survives
<1>2. \A c \in Clients, n \in Numbers : Kept(c, n) => Kept(c, n)'
  BY DEF Kept, Disk
<1>3. SavedSurvive'
  <2>1. Lasting' \subseteq Lasting
    BY DEF Lasting, SessionOver, Disk
  <2>2. Lasting' \subseteq Clients
    BY <2>1 DEF Lasting, SaveTypeOK
  <2> QED BY <1>1, <1>2, <2>1, <2>2, SavedStays DEF Disk, SaveTypeOK
<1>4. RunningSurvive'
  BY SessionSaveAssumption DEF RunningSurvive, SessionOver, Unset, Numbers
<1> QED BY <1>1, <1>3, <1>4 DEF Survives, Disk, SessionOver

\* A step that leaves the disk and lets clients lose only properties
LEMMA QuietSurvives ==
  ASSUME SaveTypeOK, Survives, UNCHANGED <<pc, Disk, launched>>, intact' => intact,
         pc = "clearing" => UNCHANGED todo,
         \A c \in Clients : props'[c] \in {props[c], Unset}
  PROVE  Survives'
<1> SUFFICES ASSUME intact' PROVE Survives'
  BY DEF Survives
<1>1. /\ \A d \in discards : d[2] <= written[d[1]]
      /\ SavedSurvive /\ RunningSurvive
  BY DEF Survives
<1>2. \A c, n : Kept(c, n)' <=> Kept(c, n)
  BY DEF Kept, Disk
<1>3. SavedSurvive'
  BY <1>1, <1>2 DEF SavedSurvive, Lasting, Disk, File
<1>4. RunningSurvive'
  <2>1. \A c \in Clients : props'[c].state \in Numbers => props'[c] = props[c]
    BY SessionSaveAssumption DEF Unset, Numbers
  <2>2. \A c \in Clients : IsSaved(c)' => props'[c] = props[c] /\ IsSaved(c)
    BY DEF IsSaved, Unset
  <2> QED BY <1>1, <1>2, <2>1, <2>2 DEF RunningSurvive
<1> QED BY <1>1, <1>3, <1>4 DEF Survives, Disk

\* A session starts from the files that are saved.
LEMMA LoginSurvives == SaveTypeOK /\ Survives /\ Login => Survives'
<1> SUFFICES ASSUME SaveTypeOK, Survives, Login, intact' PROVE Survives'
  BY DEF Survives
<1>1. /\ pc = "off" /\ pc' = "on" /\ UNCHANGED <<props, Disk, intact>>
      /\ launched' \in {NoFiles, [c \in DOMAIN saved |-> Argv(saved[c].exec, ClientFile)]}
  BY DEF Login
<1>2. /\ \A d \in discards : d[2] <= written[d[1]]
      /\ SavedSurvive /\ RunningSurvive
  BY <1>1 DEF Survives
<1>3. \A c, n : Kept(c, n)' <=> Kept(c, n)
  BY <1>1 DEF Kept, Disk
<1>4. SavedSurvive'
  BY <1>1, <1>2, <1>3 DEF SavedSurvive, Lasting, Disk, File
<1>5. \A c \in DOMAIN launched', n \in Numbers :
        launched'[c] = RestartCommand(c, n) => Kept(c, n)
  <2>1. CASE launched' = NoFiles
    BY <2>1 DEF NoFiles
  <2>2. CASE launched' = [c \in DOMAIN saved |-> Argv(saved[c].exec, ClientFile)]
    BY <1>1, <1>2, <2>2 DEF SavedSurvive, Lasting
  <2> QED BY <1>1, <2>1, <2>2
<1>6. \A c \in Clients : props'[c].state \notin Numbers
  BY <1>1, <1>2 DEF RunningSurvive
<1>7. RunningSurvive'
  BY <1>1, <1>3, <1>5, <1>6 DEF RunningSurvive, RestartCommand, Numbers
<1> QED BY <1>1, <1>2, <1>4, <1>7 DEF Survives, Disk

\* A state is new, or one that the client has had.
LEMMA SetPropertiesSurvives ==
  ASSUME SaveTypeOK, SaveTypeOK', Survives, NEW c \in Clients, SetProperties(c)
  PROVE  Survives'
<1> SUFFICES ASSUME intact' PROVE Survives'
  BY DEF Survives
<1>1. PICK kind \in Kinds, n \in Numbers :
        /\ pc = "on"
        /\ props' = [props EXCEPT ![c] = [state |-> n, kind |-> kind]]
        /\ UNCHANGED <<pc, todo, hash, saved, new, discards, launched, intact>>
        /\ \/ /\ n = written[c] + 1
              /\ written' = [written EXCEPT ![c] = n]
              /\ states' = [states EXCEPT ![c] = @ \cup {n}]
           \/ n \in Known(c) /\ UNCHANGED <<states, written>>
  BY ComesToState
<1>2. /\ \A d \in discards : d[2] <= written[d[1]]
      /\ SavedSurvive /\ RunningSurvive
  BY <1>1 DEF Survives
<1>3. \A d \in Clients : written[d] <= written'[d]
  BY <1>1 DEF SaveTypeOK
<1>4. \A d \in Clients, k \in Numbers : Kept(d, k) => Kept(d, k)'
  BY <1>1 DEF Kept, SaveTypeOK
<1>5. Kept(c, n)'
  <2>1. CASE n \in Known(c)
    BY <1>1, <1>2, <1>4, <2>1 DEF Known, RunningSurvive
  <2>2. CASE /\ n = written[c] + 1
             /\ states' = [states EXCEPT ![c] = @ \cup {n}]
    <3>1. n \in states'[c]
      BY <2>2 DEF SaveTypeOK
    <3>2. <<c, n>> \notin discards
      BY <1>2, <2>2 DEF SaveTypeOK
    <3> QED BY <1>1, <3>1, <3>2 DEF Kept
  <2> QED BY <1>1, <2>1, <2>2
<1>6. SavedSurvive'
  <2>1. Lasting' = Lasting /\ Lasting \subseteq Clients
    BY <1>1 DEF Lasting, SaveTypeOK
  <2> QED BY <1>1, <1>2, <1>3, <1>4, <2>1, SavedStays DEF SaveTypeOK
<1>7. RunningSurvive'
  <2>1. \A d \in Clients, k \in Numbers : props'[d].state = k => Kept(d, k)'
    <3> SUFFICES ASSUME NEW d \in Clients, NEW k \in Numbers, props'[d].state = k
                 PROVE  Kept(d, k)'
      OBVIOUS
    <3>1. CASE d = c
      <4>1. k = n
        BY <1>1, <3>1 DEF SaveTypeOK
      <4> QED BY <1>5, <3>1, <4>1
    <3>2. CASE d # c
      <4>1. props'[d] = props[d]
        BY <1>1, <3>2 DEF SaveTypeOK
      <4>2. Kept(d, k)
        BY <1>1, <1>2, <4>1 DEF RunningSurvive
      <4> QED BY <1>4, <4>2
    <3> QED BY <3>1, <3>2
  <2>2. \A d \in DOMAIN launched, k \in Numbers :
          launched[d] = RestartCommand(d, k) => Kept(d, k)'
    BY <1>1, <1>2, <1>4 DEF RunningSurvive, SaveTypeOK
  <2> QED BY <1>1, <2>1, <2>2 DEF RunningSurvive, RestartCommand, Numbers
<1>8. \A d \in discards : d[2] <= written'[d[1]]
  BY <1>2, <1>3 DEF SaveTypeOK, Numbers
<1> QED BY <1>1, <1>6, <1>7, <1>8 DEF Survives

\* The discard command of an old file is run only for a state that no new one names.
LEMMA DiscardOneSurvives ==
  ASSUME SaveTypeOK, Current, Survives, NEW c \in Clients, DiscardOne(c)
  PROVE  Survives'
<1> SUFFICES ASSUME intact' PROVE Survives'
  BY DEF Survives
<1>1. /\ pc = "clearing" /\ c \in todo /\ todo = DOMAIN saved
      /\ todo' = todo \ {c}
      /\ discards' = discards \cup IF saved[c].discard \in hash THEN {}
                                  ELSE Discarded(saved[c].discard)
      /\ UNCHANGED <<pc, props, hash, saved, states, written, launched, intact>>
  BY DEF DiscardOne, Launches
<1>2. /\ \A d \in discards : d[2] <= written[d[1]]
      /\ SavedSurvive /\ RunningSurvive
  BY <1>1 DEF Survives
<1>3. PICK n \in Numbers : n <= written[c] /\ saved[c] = File(c, n)
  BY <1>1, <1>2 DEF SavedSurvive
<1>4. discards' \subseteq discards \cup {<<c, n>>}
  BY <1>1, <1>3, FilesNameStates
<1>5. \A d \in Clients, k \in Numbers : d # c /\ Kept(d, k) => Kept(d, k)'
  BY <1>1, <1>4 DEF Kept
<1>6. IsSaved(c) => Kept(c, props[c].state)'
  <2> SUFFICES ASSUME IsSaved(c) PROVE Kept(c, props[c].state)'
    OBVIOUS
  <2>1. Kept(c, props[c].state) /\ props[c].state \in Numbers
    BY <1>1, <1>2 DEF RunningSurvive, SaveTypeOK
  <2>2. CASE props[c].state # n
    BY <1>1, <1>4, <2>1, <2>2 DEF Kept
  <2>3. CASE props[c].state = n
    <3>1. saved[c].discard = FileOf(c).discard
      BY <1>3, <2>3, FileOfState
    <3>2. saved[c].discard = None \/ saved[c].discard \in hash
      BY <1>1, <3>1 DEF Current, HashOf, SavedOf
    <3>3. discards' = discards
      BY <1>1, <3>2, CommandsAssumption
    <3> QED BY <1>1, <2>1, <3>3 DEF Kept
  <2> QED BY <2>2, <2>3
<1>7. SavedSurvive'
  <2>1. Lasting' = Lasting \ {c} /\ Lasting \subseteq Clients
    BY <1>1 DEF Lasting, SaveTypeOK
  <2> QED BY <1>1, <1>2, <1>5, <2>1, SavedStays DEF SaveTypeOK
<1>8. RunningSurvive'
  <2>1. \A d \in Clients : IsSaved(d) => Kept(d, props[d].state)'
    <3> TAKE d \in Clients
    <3>1. IsSaved(d) => Kept(d, props[d].state) /\ props[d].state \in Numbers
      BY <1>1, <1>2 DEF RunningSurvive, SaveTypeOK
    <3>2. d # c /\ IsSaved(d) => Kept(d, props[d].state)'
      BY <1>1, <1>4, <3>1 DEF Kept
    <3> QED BY <1>6, <3>2
  <2> QED BY <1>1, <2>1 DEF RunningSurvive, IsSaved
<1>9. \A d \in discards' : d[2] <= written[d[1]]
  BY <1>2, <1>3, <1>4
<1> QED BY <1>1, <1>7, <1>8, <1>9 DEF Survives

\* No step lets go of a state that some file or running client still names.
LEMMA SurvivesStep ==
  SaveTypeOK /\ SaveTypeOK' /\ Current /\ Survives /\ [Next]_vars => Survives'
<1> SUFFICES ASSUME SaveTypeOK, SaveTypeOK', Current, Survives, [Next]_vars PROVE Survives'
  OBVIOUS
<1>1. CASE Login
  BY <1>1, LoginSurvives
<1>2. CASE SaveSession \/ AllSaved
  <2> SUFFICES ASSUME intact' PROVE Survives'
    BY DEF Survives
  <2>1. /\ UNCHANGED <<props, Disk, launched, intact>>
        /\ \/ pc = "on" /\ pc' = "saving"
           \/ pc = "saving" /\ pc' = "clearing" /\ todo' = DOMAIN saved
    BY <1>2 DEF SaveSession, AllSaved, Launches
  <2>2. /\ \A d \in discards : d[2] <= written[d[1]]
        /\ SavedSurvive /\ RunningSurvive
    BY <2>1 DEF Survives
  <2>3. \A c, n : Kept(c, n)' <=> Kept(c, n)
    BY <2>1 DEF Kept, Disk
  <2>4. SavedSurvive'
    <3>1. Lasting' = Lasting
      BY <2>1 DEF Lasting, Disk
    <3> QED BY <2>1, <2>2, <2>3, <3>1 DEF SavedSurvive, Disk, File
  <2>5. RunningSurvive'
    BY <2>1, <2>2, <2>3 DEF RunningSurvive, SaveTypeOK, IsSaved
  <2> QED BY <2>1, <2>2, <2>4, <2>5 DEF Survives, Disk
<1>3. CASE EndWithoutSaving \/ Killed
  <2>1. CASE EndWithoutSaving
    BY <2>1, SessionOverSurvives DEF EndWithoutSaving
  <2>2. CASE Killed
    <3>1. SessionOver /\ UNCHANGED Disk
      BY <2>2 DEF Killed
    <3>2. intact' => intact /\ pc \in {"on", "saving"}
      BY <2>2, Zenon DEF Killed
    <3>3. pc # "clearing" \/ ~ intact'
      BY <3>2
    <3> QED BY <3>1, <3>2, <3>3, SessionOverSurvives DEF Survives
  <2> QED BY <1>3, <2>1, <2>2
<1>4. CASE ClearedNew \/ UNCHANGED <<pc, todo, Disk, props, launched, intact>>
  BY <1>4, QuietSurvives DEF ClearedNew, Survives
<1>5. CASE RenameDir
  <2> SUFFICES ASSUME intact' PROVE Survives'
    BY DEF Survives
  <2>1. /\ pc = "clearing" /\ saved' = new /\ SessionOver
        /\ UNCHANGED <<states, written, discards, intact>>
    BY <1>5 DEF RenameDir
  <2>2. /\ \A d \in discards : d[2] <= written[d[1]]
        /\ RunningSurvive
    BY <2>1 DEF Survives
  <2>3. \A c, n : Kept(c, n)' <=> Kept(c, n)
    BY <2>1 DEF Kept
  <2>4. \A c \in DOMAIN new :
          /\ c \in Clients /\ new[c] = File(c, props[c].state)
          /\ props[c].state \in Numbers /\ Kept(c, props[c].state)
    BY <2>1, <2>2, FileOfState DEF Current, FilesOf, SavedOf, RunningSurvive, SaveTypeOK
  <2>5. \A c \in DOMAIN new : props[c].state <= written[c]
    BY <2>4 DEF Kept, SaveTypeOK
  <2>6. SavedSurvive'
    <3>1. \A c \in DOMAIN new : \E n \in Numbers : n <= written[c] /\ new[c] = File(c, n)
      BY <2>4, <2>5
    <3>2. \A c \in DOMAIN new, n \in Numbers :
            Argv(new[c].exec, ClientFile) = RestartCommand(c, n) => Kept(c, n)
      BY <2>4, FilesNameStates
    <3>3. Lasting' = DOMAIN new
      BY <2>1 DEF Lasting, SessionOver
    <3> QED BY <2>1, <2>3, <3>1, <3>2, <3>3 DEF SavedSurvive, File
  <2>7. RunningSurvive'
    BY <2>1, SessionSaveAssumption DEF RunningSurvive, SessionOver, Unset, Numbers
  <2> QED BY <2>1, <2>2, <2>6, <2>7 DEF Survives, SessionOver
<1>6. CASE DiscardRuns
  <2> SUFFICES ASSUME intact' PROVE Survives'
    BY DEF Survives
  <2>1. PICK d \in discards :
          /\ discards' = discards \ {d}
          /\ states' = [states EXCEPT ![d[1]] = @ \ {d[2]}]
    BY <1>6 DEF DiscardRuns
  <2>2. UNCHANGED <<pc, props, todo, saved, written, launched, intact>>
    BY <1>6 DEF DiscardRuns, Launches
  <2>3. /\ \A e \in discards : e[2] <= written[e[1]]
        /\ SavedSurvive /\ RunningSurvive
    BY <2>2 DEF Survives
  <2>4. \A c \in Clients, n \in Numbers : Kept(c, n) => Kept(c, n)'
    <3>1. d[1] \in Clients /\ d = <<d[1], d[2]>>
      BY DEF SaveTypeOK
    <3>2. states'[d[1]] = states[d[1]] \ {d[2]}
      BY <2>1, <3>1 DEF SaveTypeOK
    <3>3. \A c \in Clients : c # d[1] => states'[c] = states[c]
      BY <2>1 DEF SaveTypeOK
    <3> QED BY <2>1, <3>1, <3>2, <3>3 DEF Kept
  <2>5. SavedSurvive'
    <3>1. Lasting' = Lasting /\ Lasting \subseteq Clients
      BY <2>2 DEF Lasting, SaveTypeOK
    <3> QED BY <2>2, <2>3, <2>4, <3>1, SavedStays DEF SaveTypeOK
  <2>6. RunningSurvive'
    <3>1. \A c \in DOMAIN launched, n \in Numbers :
            Kept(c, n) => Kept(c, n)'
      BY <2>4 DEF SaveTypeOK
    <3>2. \A c \in Clients : props[c].state \in Numbers /\ Kept(c, props[c].state) =>
            Kept(c, props[c].state)'
      BY <2>2, <2>4 DEF Kept
    <3>3. \A c \in Clients : IsSaved(c) => props[c].state \in Numbers
      BY DEF SaveTypeOK
    <3> QED BY <2>2, <2>3, <3>1, <3>2, <3>3 DEF RunningSurvive, RestartCommand, IsSaved, Numbers
  <2> QED BY <2>1, <2>2, <2>3, <2>5, <2>6 DEF Survives
<1>7. ASSUME NEW c \in Clients, SetProperties(c) PROVE Survives'
  BY <1>7, SetPropertiesSurvives
<1>8. ASSUME NEW c \in Clients, ClientGone(c) \/ SaveOneClient(c) PROVE Survives'
  <2>1. /\ UNCHANGED <<pc, Disk, launched, intact>> /\ pc # "clearing"
        /\ \A d \in Clients : props'[d] \in {props[d], Unset}
    BY <1>8 DEF ClientGone, SaveOneClient, Launches, SaveTypeOK
  <2> QED BY <2>1, QuietSurvives
<1>9. ASSUME NEW c \in Clients, SaveFails(c) \/ ClearNew(c) PROVE Survives'
  BY <1>9 DEF SaveFails, ClearNew, Survives
<1>10. ASSUME NEW c \in Clients, DiscardOne(c) PROVE Survives'
  BY <1>10, DiscardOneSurvives
<1>11. ASSUME NEW c \in Clients, UnlinkOne(c) PROVE Survives'
  <2> SUFFICES ASSUME intact' PROVE Survives'
    BY DEF Survives
  <2>1. /\ pc = "clearing" /\ c \in DOMAIN saved \ todo
        /\ saved' = [d \in DOMAIN saved \ {c} |-> saved[d]]
        /\ UNCHANGED <<pc, props, todo, states, written, discards, launched, intact>>
    BY <1>11 DEF UnlinkOne, Without, Launches
  <2>2. /\ \A e \in discards : e[2] <= written[e[1]]
        /\ SavedSurvive /\ RunningSurvive
    BY <2>1 DEF Survives
  <2>3. \A d, n : Kept(d, n)' <=> Kept(d, n)
    BY <2>1 DEF Kept
  <2>4. SavedSurvive'
    BY <2>1, <2>2, <2>3 DEF SavedSurvive, Lasting, File, SaveTypeOK
  <2>5. RunningSurvive'
    BY <2>1, <2>2, <2>3 DEF RunningSurvive, IsSaved
  <2> QED BY <2>1, <2>2, <2>4, <2>5 DEF Survives
<1>12. CASE UNCHANGED vars
  BY <1>4, <1>12 DEF vars, Disk
<1> QED BY <1>1, <1>2, <1>3, <1>4, <1>5, <1>6, <1>7, <1>8, <1>9, <1>10, <1>11, <1>12 DEF Next

-----------------------------------------------------------------------------
(* Numbers, and folds over them *)

\* A set of numbers up to n that is not empty has a least one.
LEMMA FirstOfSome ==
  ASSUME NEW n \in Nat, NEW found \in SUBSET (0..n), found # {}
  PROVE  \E d \in found : \A o \in found : d <= o
<1> DEFINE D == 0..n
           below(d) == {o \in found : o < d}
           belows == {below(d) : d \in found}
<1>1. IsWellFoundedOn(StrictSubsetOrdering(D), SUBSET D)
  <2>1. IsFiniteSet(D)
    BY FS_Interval
  <2>2. FiniteSubsetsOf(D) = SUBSET D
    BY <2>1, FS_FiniteSubsetsOfFinite
  <2> QED BY <2>2, FS_StrictSubsetOrderingWellFounded
<1>2. belows \subseteq SUBSET D /\ belows # {}
  OBVIOUS
<1>3. PICK b \in belows : \A c \in belows : <<c, b>> \notin StrictSubsetOrdering(D)
  <2> HIDE DEF belows, D
  <2> QED BY <1>1, <1>2, WFMin
<1>4. PICK d \in found : b = below(d)
  OBVIOUS
<1>5. ASSUME NEW o \in found, ~ (d <= o) PROVE FALSE
  <2>1. o \in Nat /\ d \in Nat /\ found \subseteq Nat
    OBVIOUS
  <2>2. o < d /\ ~ (o < o) /\ \A p \in Nat : p < o => p < d
    BY <1>5, <2>1
  <2>3. below(o) \subseteq below(d) /\ o \in below(d) /\ o \notin below(o)
    BY <2>1, <2>2
  <2>4. below(o) \in SUBSET D /\ below(d) \in SUBSET D /\ below(o) # below(d)
    BY <2>3
  <2>5. <<below(o), below(d)>> \in StrictSubsetOrdering(D)
    <3> HIDE DEF below, D
    <3> QED BY <2>3, <2>4 DEF StrictSubsetOrdering
  <2>6. below(o) \in belows
    BY <1>5
  <2> QED BY <1>3, <1>4, <2>5, <2>6
<1> QED BY <1>5

\* Induction, over a set of numbers instead of a predicate
LEMMA Counting ==
  ASSUME NEW S, 0 \in S, \A k \in Nat : k \in S => k + 1 \in S
  PROVE  Nat \subseteq S
<1> SUFFICES ASSUME NEW n \in Nat, n \notin S PROVE FALSE
  OBVIOUS
<1> DEFINE missed == {k \in 0..n : k \notin S}
<1>1. PICK d \in missed : \A o \in missed : d <= o
  <2>1. missed \in SUBSET (0..n) /\ missed # {}
    OBVIOUS
  <2> HIDE DEF missed
  <2> QED BY <2>1, FirstOfSome
<1>2. d # 0 /\ d - 1 \in 0..n /\ d - 1 \notin missed
  BY <1>1
<1>3. d - 1 \in S /\ (d - 1) + 1 = d
  BY <1>2
<1> QED BY <1>1, <1>3

\* Two runs that start alike and go on alike come to the same.
LEMMA RunsAgree ==
  ASSUME NEW n \in Nat, NEW Q, NEW R, Q[0] = R[0],
         \A k \in 1..n : Q[k - 1] = R[k - 1] => Q[k] = R[k]
  PROVE  Q[n] = R[n]
<1> DEFINE S == {k \in Nat : k <= n => Q[k] = R[k]}
<1>1. 0 \in S
  OBVIOUS
<1>2. ASSUME NEW k \in Nat, k \in S, k + 1 <= n
      PROVE  Q[k + 1] = R[k + 1]
  <2>1. k + 1 \in 1..n /\ (k + 1) - 1 = k /\ Q[k] = R[k]
    BY <1>2
  <2> QED BY <2>1
<1>3. \A k \in Nat : k \in S => k + 1 \in S
  BY <1>2
<1> HIDE DEF S
<1>4. Nat \subseteq S
  BY <1>1, <1>3, Counting
<1> QED BY <1>4 DEF S

\* A finite, non-empty set of numbers has a greatest one.
LEMMA MaxIs ==
  ASSUME NEW n \in Nat, NEW s \in SUBSET (1..n), s # {}
  PROVE  Max(s) \in s /\ \A k \in s : k <= Max(s)
<1> DEFINE above == {u \in 0..n : \A k \in s : k <= u}
<1>1. PICK u \in above : \A o \in above : u <= o
  <2>1. above \in SUBSET (0..n) /\ n \in above
    OBVIOUS
  <2> HIDE DEF above
  <2> QED BY <2>1, FirstOfSome
<1>2. u \in s
  <2> SUFFICES ASSUME u \notin s PROVE FALSE
    OBVIOUS
  <2>1. \A k \in s : k <= u - 1
    BY <1>1
  <2>2. u \in Nat /\ u <= n /\ u # 0
    <3>1. PICK k \in s : TRUE
      OBVIOUS
    <3>2. k \in 1..n /\ k <= u
      BY <1>1
    <3> QED BY <1>1, <3>2
  <2>3. u - 1 \in above
    BY <2>1, <2>2
  <2> QED BY <1>1, <2>2, <2>3
<1>3. \E x \in s : \A y \in s : x >= y
  BY <1>1, <1>2
<1> QED BY <1>3 DEF Max

\* f has what a fold over the positions 1 to n comes to, on any set of them.
FoldsOver(f, n, Q, base, step) ==
  /\ f \in [SUBSET (1..n) -> Q]
  /\ \A s \in SUBSET (1..n) :
       f[s] = IF s = {} THEN base ELSE step[Max(s)][f[s \ {Max(s)}]]

\* What a fold over a set of positions computes is well defined.
LEMMA FoldExists ==
  ASSUME NEW n \in Nat, NEW Q, NEW base \in Q, NEW step \in [1..n -> [Q -> Q]]
  PROVE  \E f : FoldsOver(f, n, Q, base, step)
<1> DEFINE Is(f, k) == FoldsOver(f, k, Q, base, step)
           S == {k \in Nat : k <= n => \E f : Is(f, k)}
<1>1. 0 \in S
  <2> DEFINE g == [s \in SUBSET (1..0) |-> base]
  <2>1. \A s \in SUBSET (1..0) : s = {}
    OBVIOUS
  <2>2. Is(g, 0)
    BY <2>1 DEF FoldsOver
  <2> QED BY <2>2
<1>2. ASSUME NEW k \in Nat, k \in S, k + 1 <= n
      PROVE  \E f : Is(f, k + 1)
  <2>1. PICK f : Is(f, k)
    <3> QED BY <1>2
  <2> DEFINE g == [s \in SUBSET (1..k + 1) |->
                     IF k + 1 \in s THEN step[k + 1][f[s \ {k + 1}]] ELSE f[s]]
  <2>2. ASSUME NEW s \in SUBSET (1..k + 1)
        PROVE  /\ g[s] \in Q
               /\ g[s] = IF s = {} THEN base ELSE step[Max(s)][g[s \ {Max(s)}]]
    <3>1. CASE k + 1 \in s
      <4>1. Max(s) = k + 1
        <5>1. k + 1 \in Nat /\ s # {}
          BY <3>1
        <5>2. Max(s) \in s /\ \A j \in s : j <= Max(s)
          BY <5>1, MaxIs
        <5>3. Max(s) \in 1..k + 1 /\ k + 1 <= Max(s)
          BY <3>1, <5>2
        <5> QED BY <5>3
      <4>2. s \ {k + 1} \in SUBSET (1..k)
        BY <3>1
      <4>3. g[s \ {k + 1}] = f[s \ {k + 1}] /\ f[s \ {k + 1}] \in Q
        BY <2>1, <4>2 DEF FoldsOver
      <4> QED BY <1>2, <3>1, <4>1, <4>3
    <3>2. CASE k + 1 \notin s
      <4>1. s \in SUBSET (1..k)
        BY <3>2
      <4>2. g[s] = f[s] /\ f[s] \in Q
        BY <2>1, <3>2, <4>1 DEF FoldsOver
      <4>3. ASSUME s # {} PROVE g[s \ {Max(s)}] = f[s \ {Max(s)}]
        BY <3>2
      <4> QED BY <2>1, <4>1, <4>2, <4>3 DEF FoldsOver
    <3> QED BY <3>1, <3>2
  <2>3. Is(g, k + 1)
    BY <2>2 DEF FoldsOver
  <2> QED BY <2>3
<1>3. Nat \subseteq S
  <2>1. \A k \in Nat : k \in S => k + 1 \in S
    <3> QED BY <1>2
  <2> HIDE DEF S
  <2> QED BY <1>1, <2>1, Counting
<1>4. \E f : Is(f, n)
  <2> QED BY <1>3
<1> QED BY <1>4

-----------------------------------------------------------------------------
(* Texts *)

\* Characters and texts.  The provers do not know that "n" and the like are strings.
Chars == STRING \cup Special \cup {"n", "k"}
Text == Seq(Chars)

\* Texts put together, from left to right
LEMMA ConcatRun ==
  ASSUME NEW texts \in Seq(Text)
  PROVE  \E R \in [0..Len(texts) -> Text] :
           /\ R[0] = <<>>
           /\ \A k \in 1..Len(texts) : R[k] = R[k - 1] \o texts[k]
           /\ Concat(texts) = R[Len(texts)]
<1> DEFINE n == Len(texts)
           step == [k \in 1..n |-> [t \in Text |-> t \o texts[k]]]
           Folds(f) == f = [s \in SUBSET (1..n) |->
                              IF s = {} THEN <<>> ELSE f[s \ {Max(s)}] \o texts[Max(s)]]
           fold == CHOOSE f : Folds(f)
<1>1. n \in Nat /\ <<>> \in Text /\ DOMAIN texts = 1..n /\ \A k \in 1..n : texts[k] \in Text
  BY DEF Text
<1>2. step \in [1..n -> [Text -> Text]]
  BY <1>1 DEF Text
<1>3. Concat(texts) = fold[1..n]
  BY <1>1 DEF Concat, FoldLeft, MapThenFoldSet
<1>4. PICK f : FoldsOver(f, n, Text, <<>>, step)
  <2> HIDE DEF step, n
  <2> QED BY <1>1, <1>2, FoldExists
<1>5. Folds(f)
  <2> SUFFICES ASSUME NEW s \in SUBSET (1..n), s # {}
               PROVE  f[s] = f[s \ {Max(s)}] \o texts[Max(s)]
    BY <1>4 DEF FoldsOver
  <2>1. Max(s) \in 1..n
    <3> HIDE DEF n
    <3> QED BY <1>1, MaxIs
  <2>2. f[s \ {Max(s)}] \in Text
    BY <1>4 DEF FoldsOver
  <2> QED BY <1>4, <2>1, <2>2 DEF FoldsOver
<1>6. Folds(fold)
  <2> HIDE DEF Folds
  <2> QED BY <1>5
<1> DEFINE R == [k \in 0..n |-> fold[1..k]]
<1> HIDE DEF fold, n
<1>7. R[0] = <<>>
  BY <1>1, <1>6
<1>8. ASSUME NEW k \in 1..n
      PROVE  R[k] = R[k - 1] \o texts[k]
  <2>1. 1..k \in SUBSET (1..n) /\ k \in 1..k /\ k - 1 \in 0..n /\ k \in 0..n
    BY <1>1
  <2>2. Max(1..k) = k
    <3>1. Max(1..k) \in 1..k /\ \A j \in 1..k : j <= Max(1..k)
      BY <1>1, <2>1, MaxIs
    <3> QED BY <3>1
  <2>3. (1..k) \ {k} = 1..(k - 1)
    OBVIOUS
  <2> QED BY <1>6, <2>1, <2>2, <2>3
<1>9. \A k \in 0..n : R[k] \in Text
  <2> DEFINE S == {k \in Nat : k <= n => R[k] \in Text}
  <2>1. 0 \in S
    BY <1>1, <1>7
  <2>2. ASSUME NEW k \in Nat, k \in S
        PROVE  k + 1 \in S
    <3> SUFFICES ASSUME k + 1 <= n PROVE R[k + 1] \in Text
      OBVIOUS
    <3>1. k + 1 \in 1..n /\ (k + 1) - 1 = k /\ R[k] \in Text
      BY <1>1, <2>2
    <3>2. R[k + 1] = R[k] \o texts[k + 1] /\ texts[k + 1] \in Text
      BY <1>1, <1>8, <3>1
    <3> HIDE DEF R
    <3> QED BY <3>1, <3>2 DEF Text
  <2>3. \A k \in Nat : k \in S => k + 1 \in S
    BY <2>2
  <2> HIDE DEF S
  <2>4. Nat \subseteq S
    BY <2>1, <2>3, Counting
  <2> HIDE DEF R
  <2> QED BY <1>1, <2>4 DEF S
<1>10. Concat(texts) = R[n]
  BY <1>1, <1>3
<1> QED BY <1>7, <1>8, <1>9, <1>10 DEF n

\* What has become of a line of which some characters are split
Splits == [words : Seq(Text), word : Text, begun : BOOLEAN, escape : BOOLEAN,
           quote : {SPACE, QUOTE, DQUOTE}]

\* A character of the line leaves that what it is.
LEMMA SplitCharType ==
  ASSUME NEW q \in Splits, NEW c \in Chars
  PROVE  SplitChar(q, c) \in Splits
<1>1. /\ q.words \in Seq(Text) /\ q.word \in Text
      /\ q.begun \in BOOLEAN /\ q.escape \in BOOLEAN /\ q.quote \in {SPACE, QUOTE, DQUOTE}
  BY DEF Splits
<1>2. /\ Append(q.words, q.word) \in Seq(Text) /\ Append(q.word, c) \in Text
      /\ q.word \o <<BACKSLASH, c>> \in Text /\ <<>> \in Text
  <2>1. BACKSLASH \in Chars
    BY DEF BACKSLASH, Chars, Special
  <2> QED BY <1>1, <2>1 DEF Text
<1>3. EndWord(q) \in Splits
  BY <1>1, <1>2 DEF EndWord, Splits
<1>4. ASSUME c \in {QUOTE, DQUOTE} PROVE c \in {SPACE, QUOTE, DQUOTE}
  BY <1>4
<1> QED BY <1>1, <1>2, <1>3, <1>4 DEF SplitChar, Splits

\* g_shell_parse_argv, after some characters
Split(line) == FoldLeft(SplitChar, Unsplit, line)

\* The line is split from left to right,
LEMMA SplitRun ==
  ASSUME NEW line \in Text
  PROVE  \E R :
           /\ R[0] = Unsplit
           /\ \A k \in 1..Len(line) : R[k] = SplitChar(R[k - 1], line[k])
           /\ Split(line) = R[Len(line)]
<1> DEFINE n == Len(line)
           step == [k \in 1..n |-> [q \in Splits |-> SplitChar(q, line[k])]]
           Folds(f) == f = [s \in SUBSET (1..n) |->
                              IF s = {} THEN Unsplit ELSE SplitChar(f[s \ {Max(s)}], line[Max(s)])]
           fold == CHOOSE f : Folds(f)
<1>1. n \in Nat /\ DOMAIN line = 1..n /\ \A k \in 1..n : line[k] \in Chars
  BY DEF Text
<1>2. Unsplit \in Splits
  BY DEF Unsplit, Splits, Text
<1>3. step \in [1..n -> [Splits -> Splits]]
  BY <1>1, SplitCharType
<1>4. Split(line) = fold[1..n]
  BY <1>1 DEF Split, FoldLeft, MapThenFoldSet
<1>5. PICK f : FoldsOver(f, n, Splits, Unsplit, step)
  <2> HIDE DEF step, n
  <2> QED BY <1>1, <1>2, <1>3, FoldExists
<1>6. Folds(f)
  <2> SUFFICES ASSUME NEW s \in SUBSET (1..n), s # {}
               PROVE  f[s] = SplitChar(f[s \ {Max(s)}], line[Max(s)])
    BY <1>5 DEF FoldsOver
  <2>1. Max(s) \in 1..n
    <3> HIDE DEF n
    <3> QED BY <1>1, MaxIs
  <2>2. f[s \ {Max(s)}] \in Splits
    BY <1>5 DEF FoldsOver
  <2> QED BY <1>5, <2>1, <2>2 DEF FoldsOver
<1>7. Folds(fold)
  <2> HIDE DEF Folds
  <2> QED BY <1>6
<1> DEFINE R == [k \in 0..n |-> fold[1..k]]
<1> HIDE DEF fold, n
<1>8. R[0] = Unsplit
  BY <1>1, <1>7
<1>9. ASSUME NEW k \in 1..n
      PROVE  R[k] = SplitChar(R[k - 1], line[k])
  <2>1. 1..k \in SUBSET (1..n) /\ k \in 1..k /\ k - 1 \in 0..n /\ k \in 0..n
    BY <1>1
  <2>2. Max(1..k) = k
    <3>1. Max(1..k) \in 1..k /\ \A j \in 1..k : j <= Max(1..k)
      BY <1>1, <2>1, MaxIs
    <3> QED BY <3>1
  <2>3. (1..k) \ {k} = 1..(k - 1)
    OBVIOUS
  <2> QED BY <1>7, <2>1, <2>2, <2>3
<1>10. Split(line) = R[n]
  BY <1>1, <1>4
<1> QED BY <1>8, <1>9, <1>10 DEF n

\* and so is one with one character more.
LEMMA SplitStep ==
  /\ Split(<<>>) = Unsplit
  /\ \A t \in Text, c \in Chars : Split(Append(t, c)) = SplitChar(Split(t), c)
<1>1. Split(<<>>) = Unsplit
  <2> DEFINE t == <<>>
  <2>1. t \in Text /\ Len(t) = 0
    BY DEF Text
  <2> HIDE DEF t
  <2>2. Split(t) = Unsplit
    BY <2>1, SplitRun
  <2> QED BY <2>2 DEF t
<1>2. ASSUME NEW t \in Text, NEW c \in Chars
      PROVE  Split(Append(t, c)) = SplitChar(Split(t), c)
  <2> DEFINE u == Append(t, c)
             n == Len(t)
  <2>1. u \in Text /\ Len(u) = n + 1 /\ n \in Nat /\ u[n + 1] = c /\ \A k \in 1..n : u[k] = t[k]
    BY DEF Text
  <2> HIDE DEF u
  <2>2. PICK Q : /\ Q[0] = Unsplit
                 /\ \A k \in 1..n : Q[k] = SplitChar(Q[k - 1], t[k])
                 /\ Split(t) = Q[n]
    BY SplitRun
  <2>3. PICK R : /\ R[0] = Unsplit
                 /\ \A k \in 1..Len(u) : R[k] = SplitChar(R[k - 1], u[k])
                 /\ Split(u) = R[Len(u)]
    BY <2>1, SplitRun
  <2> HIDE DEF n
  <2>4. ASSUME NEW k \in 1..n, Q[k - 1] = R[k - 1] PROVE Q[k] = R[k]
    <3>1. k \in 1..Len(u)
      BY <2>1
    <3> QED BY <2>1, <2>2, <2>3, <2>4, <3>1
  <2>5. Q[n] = R[n]
    BY <2>1, <2>2, <2>3, <2>4, RunsAgree
  <2>6. n + 1 \in 1..Len(u) /\ (n + 1) - 1 = n
    BY <2>1
  <2>7. Split(u) = SplitChar(R[n], c)
    BY <2>1, <2>3, <2>6
  <2> QED BY <2>2, <2>5, <2>7 DEF u
<1> QED BY <1>1, <1>2

\* Induction over sequences that get longer by one element
LEMMA Growing ==
  ASSUME NEW E, NEW S, <<>> \in S,
         \A t \in Seq(E), e \in E : t \in S => Append(t, e) \in S
  PROVE  Seq(E) \subseteq S
<1> DEFINE N == {k \in Nat : \A t \in Seq(E) : Len(t) = k => t \in S}
<1>1. 0 \in N
  <2>1. \A t \in Seq(E) : Len(t) = 0 => t = <<>>
    BY EmptySeq
  <2> QED BY <2>1
<1>2. ASSUME NEW k \in Nat, k \in N, NEW t \in Seq(E), Len(t) = k + 1
      PROVE  t \in S
  <2>1. t # <<>>
    BY <1>2, EmptySeq
  <2>2. PICK u \in Seq(E), e \in E : t = Append(u, e)
    BY <2>1, SequenceEmptyOrAppend
  <2>3. Len(u) \in Nat /\ Len(t) = Len(u) + 1
    BY <2>2, AppendProperties, LenProperties
  <2>4. u \in S
    BY <1>2, <2>3
  <2> QED BY <2>2, <2>4
<1>3. Nat \subseteq N
  <2>1. \A k \in Nat : k \in N => k + 1 \in N
    BY <1>2
  <2> HIDE DEF N
  <2> QED BY <1>1, <2>1, Counting
<1> QED BY <1>3, LenProperties

\* A sequence that is another one and one element more
LEMMA Appended ==
  ASSUME NEW E, NEW p \in Seq(E), NEW e \in E, NEW q \in Seq(E), Len(q) = Len(p) + 1,
         \A i \in 1..Len(p) : q[i] = p[i], q[Len(p) + 1] = e
  PROVE  q = Append(p, e)
<1> DEFINE a == Append(p, e)
<1>1. /\ a \in Seq(E) /\ Len(a) = Len(q) /\ a[Len(p) + 1] = e
      /\ \A i \in 1..Len(p) : a[i] = p[i]
  BY AppendProperties
<1>2. \A i \in 1..Len(q) : i \in 1..Len(p) \/ i = Len(p) + 1
  BY LenProperties
<1> HIDE DEF a
<1>3. \A i \in 1..Len(q) : q[i] = a[i]
  BY <1>1, <1>2
<1>4. q = a
  BY <1>1, <1>3, SeqEqual
<1> QED BY <1>4 DEF a

\* Texts that are put together, one text more
LEMMA ConcatStep ==
  /\ Concat(<<>>) = <<>>
  /\ \A ts \in Seq(Text) : Concat(ts) \in Text
  /\ \A ts \in Seq(Text), t \in Text : Concat(Append(ts, t)) = Concat(ts) \o t
<1>1. ASSUME NEW ts \in Seq(Text)
      PROVE  Concat(ts) \in Text
  <2>1. PICK R \in [0..Len(ts) -> Text] : Concat(ts) = R[Len(ts)]
    BY ConcatRun
  <2>2. Len(ts) \in 0..Len(ts)
    BY LenProperties
  <2> QED BY <2>1, <2>2
<1>2. Concat(<<>>) = <<>>
  <2> DEFINE ts == <<>>
  <2>1. ts \in Seq(Text) /\ Len(ts) = 0
    BY EmptySeq
  <2> HIDE DEF ts
  <2>2. Concat(ts) = <<>>
    BY <2>1, ConcatRun
  <2> QED BY <2>2 DEF ts
<1>3. ASSUME NEW ts \in Seq(Text), NEW t \in Text
      PROVE  Concat(Append(ts, t)) = Concat(ts) \o t
  <2> DEFINE us == Append(ts, t)
             n == Len(ts)
  <2>1. us \in Seq(Text) /\ Len(us) = n + 1 /\ n \in Nat /\ us[n + 1] = t
        /\ \A k \in 1..n : us[k] = ts[k]
    BY AppendProperties, LenProperties
  <2> HIDE DEF us
  <2>2. PICK Q : /\ Q[0] = <<>>
                 /\ \A k \in 1..n : Q[k] = Q[k - 1] \o ts[k]
                 /\ Concat(ts) = Q[n]
    BY ConcatRun
  <2>3. PICK R : /\ R[0] = <<>>
                 /\ \A k \in 1..Len(us) : R[k] = R[k - 1] \o us[k]
                 /\ Concat(us) = R[Len(us)]
    BY <2>1, ConcatRun
  <2> HIDE DEF n
  <2>4. ASSUME NEW k \in 1..n, Q[k - 1] = R[k - 1] PROVE Q[k] = R[k]
    <3>1. k \in 1..Len(us)
      BY <2>1
    <3> QED BY <2>1, <2>2, <2>3, <2>4, <3>1
  <2>5. Q[n] = R[n]
    BY <2>1, <2>2, <2>3, <2>4, RunsAgree
  <2>6. n + 1 \in 1..Len(us) /\ (n + 1) - 1 = n
    BY <2>1
  <2>7. Concat(us) = R[n] \o t
    BY <2>1, <2>3, <2>6
  <2> QED BY <2>2, <2>5, <2>7 DEF us
<1> QED BY <1>1, <1>2, <1>3

\* A character is replaced wherever it is, and nothing else is.
LEMMA ReplacedStep ==
  ASSUME NEW char \in Chars, NEW by \in Text
  PROVE  /\ Replaced(<<>>, char, by) = <<>>
         /\ \A t \in Text : Replaced(t, char, by) \in Text
         /\ \A t \in Text :
              Replaced(Append(t, char), char, by) = Replaced(t, char, by) \o by
         /\ \A t \in Text : \A c \in Chars \ {char} :
              Replaced(Append(t, c), char, by) = Append(Replaced(t, char, by), c)
<1> DEFINE Piece(c) == IF c = char THEN by ELSE <<c>>
           Pieces(t) == [i \in 1..Len(t) |-> Piece(t[i])]
<1>1. \A t : Replaced(t, char, by) = Concat(Pieces(t))
  BY DEF Replaced
<1>2. \A c \in Chars : Piece(c) \in Text
  BY DEF Text
<1>3. \A t \in Text : Pieces(t) \in Seq(Text)
  <2> TAKE t \in Text
  <2>1. Len(t) \in Nat /\ \A i \in 1..Len(t) : t[i] \in Chars
    BY ElementOfSeq, LenProperties DEF Text
  <2>2. \A i \in 1..Len(t) : Piece(t[i]) \in Text
    BY <1>2, <2>1
  <2> HIDE DEF Piece
  <2> QED BY <2>1, <2>2
<1>4. Pieces(<<>>) = <<>>
  <2> HIDE DEF Piece
  <2> QED OBVIOUS
<1>5. ASSUME NEW t \in Text, NEW c \in Chars
      PROVE  Pieces(Append(t, c)) = Append(Pieces(t), Piece(c))
  <2>1. /\ Append(t, c) \in Text /\ Len(Append(t, c)) = Len(t) + 1 /\ Len(t) \in Nat
        /\ Append(t, c)[Len(t) + 1] = c
        /\ \A i \in 1..Len(t) : Append(t, c)[i] = t[i]
    BY AppendProperties, LenProperties DEF Text
  <2>2. Pieces(t) \in Seq(Text) /\ Pieces(Append(t, c)) \in Seq(Text) /\ Piece(c) \in Text
    BY <1>2, <1>3, <2>1
  <2>3. Len(Pieces(t)) = Len(t) /\ Len(Pieces(Append(t, c))) = Len(t) + 1
    <3> HIDE DEF Piece
    <3> QED BY <2>1
  <2>4. /\ \A i \in 1..Len(t) : Pieces(Append(t, c))[i] = Pieces(t)[i]
        /\ Pieces(Append(t, c))[Len(t) + 1] = Piece(c)
    <3> HIDE DEF Piece
    <3> QED BY <2>1
  <2> HIDE DEF Piece, Pieces
  <2> QED BY <2>2, <2>3, <2>4, Appended
<1> HIDE DEF Pieces, Piece
<1>6. ASSUME NEW t \in Text, NEW c \in Chars
      PROVE  Replaced(Append(t, c), char, by) = Replaced(t, char, by) \o Piece(c)
  <2>1. Pieces(t) \in Seq(Text) /\ Piece(c) \in Text
    BY <1>2, <1>3
  <2>2. Concat(Append(Pieces(t), Piece(c))) = Concat(Pieces(t)) \o Piece(c)
    BY <2>1, ConcatStep
  <2> QED BY <1>1, <1>5, <2>2
<1>7. Replaced(<<>>, char, by) = <<>>
  BY <1>1, <1>4, ConcatStep
<1>8. \A t \in Text : Replaced(t, char, by) \in Text
  BY <1>1, <1>3, ConcatStep
<1>9. ASSUME NEW t \in Text, NEW c \in Chars \ {char}
      PROVE  Replaced(Append(t, c), char, by) = Append(Replaced(t, char, by), c)
  <2> DEFINE r == Replaced(t, char, by)
  <2>1. r \in Seq(Chars)
    BY <1>8 DEF Text
  <2>2. Replaced(Append(t, c), char, by) = r \o <<c>>
    BY <1>6 DEF Piece
  <2> HIDE DEF r
  <2>3. r \o <<c>> = Append(r, c)
    BY <2>1, AppendIsConcat
  <2> QED BY <2>2, <2>3 DEF r
<1> QED BY <1>6, <1>7, <1>8, <1>9 DEF Piece

\* The last of these, for one text and one character
LEMMA NotReplaced ==
  ASSUME NEW char \in Chars, NEW by \in Text, NEW t \in Text, NEW c \in Chars \ {char}
  PROVE  Replaced(Append(t, c), char, by) = Append(Replaced(t, char, by), c)
BY ReplacedStep

\* Characters come one by one into a word, in no quotes or in single ones.
Outside(q) == q.quote = SPACE /\ ~ q.escape
Inside(q) == q.quote = QUOTE /\ ~ q.escape /\ q.begun

\* No such character is in the word.
Free(word, chars) == \A i \in 1..Len(word) : word[i] \notin chars

\* Nor is one if one character more is none of them.
LEMMA FreeStep ==
  ASSUME NEW chars, NEW t \in Text, NEW c \in Chars
  PROVE  Free(Append(t, c), chars) <=> Free(t, chars) /\ c \notin chars
<1>1. /\ Len(t) \in Nat /\ Len(Append(t, c)) = Len(t) + 1
      /\ Append(t, c)[Len(t) + 1] = c
      /\ \A i \in 1..Len(t) : Append(t, c)[i] = t[i]
  BY AppendProperties, LenProperties DEF Text
<1>2. \A i \in 1..Len(t) : i \in 1..Len(t) + 1
  BY <1>1
<1>3. Len(t) + 1 \in 1..Len(t) + 1 /\ \A i \in 1..Len(t) + 1 : i \in 1..Len(t) \/ i = Len(t) + 1
  BY <1>1
<1> QED BY <1>1, <1>2, <1>3 DEF Free

\* One character more, at the end of two texts
LEMMA JoinStep ==
  ASSUME NEW s \in Text, NEW t \in Text, NEW c \in Chars
  PROVE  /\ s \o Append(t, c) = Append(s \o t, c)
         /\ s \o t \in Text /\ s \o <<>> = s /\ Append(t, c) \in Text
         /\ Append(t, c) = t \o <<c>>
<1>1. <<c>> \in Seq(Chars) /\ s \o t \in Seq(Chars) /\ Append(t, c) \in Seq(Chars)
  BY ConcatProperties, AppendProperties DEF Text
<1>2. Append(t, c) = t \o <<c>> /\ Append(s \o t, c) = (s \o t) \o <<c>>
  BY <1>1, AppendIsConcat DEF Text
<1>3. (s \o t) \o <<c>> = s \o (t \o <<c>>)
  BY <1>1, ConcatAssociative DEF Text
<1> QED BY <1>1, <1>2, <1>3, ConcatEmptySeq DEF Text

\* Some text is split.
LEMMA SplitIs == \A t \in Text : Split(t) \in Splits
<1> DEFINE S == {t \in Text : Split(t) \in Splits}
<1>1. <<>> \in S
  <2>1. <<>> \in Text /\ Unsplit \in Splits
    BY DEF Unsplit, Splits, Text
  <2> QED BY <2>1, SplitStep
<1>2. \A t \in Seq(Chars), c \in Chars : t \in S => Append(t, c) \in S
  BY SplitStep, SplitCharType, JoinStep DEF Text
<1> HIDE DEF S
<1>3. Seq(Chars) \subseteq S
  BY <1>1, <1>2, Growing
<1> QED BY <1>3 DEF Text, S

\* Characters that mean nothing in the place where they are
LEMMA WordRead ==
  ASSUME NEW s \in Text, NEW w \in Text,
         \/ Outside(Split(s)) /\ Free(w, {QUOTE, DQUOTE, BACKSLASH, SPACE})
         \/ Inside(Split(s)) /\ Free(w, {QUOTE})
  PROVE  Split(s \o w) = [Split(s) EXCEPT !.word = @ \o w, !.begun = @ \/ w # <<>>]
<1> DEFINE q == Split(s)
           Read(t) == [q EXCEPT !.word = @ \o t, !.begun = @ \/ t # <<>>]
           Plain(t) == \/ Outside(q) /\ Free(t, {QUOTE, DQUOTE, BACKSLASH, SPACE})
                       \/ Inside(q) /\ Free(t, {QUOTE})
           S == {t \in Text : Plain(t) => Split(s \o t) = Read(t)}
<1>1. q \in Splits
  BY SplitIs
<1>2. <<>> \in S
  <2>1. <<>> \in Text /\ s \o <<>> = s /\ q.word \o <<>> = q.word
    BY <1>1, ConcatEmptySeq, EmptySeq DEF Text, Splits
  <2>2. Read(<<>>) = q
    BY <1>1, <2>1 DEF Splits
  <2> QED BY <2>1, <2>2
<1>3. ASSUME NEW t \in Text, NEW c \in Chars, t \in S, Plain(Append(t, c))
      PROVE  Split(s \o Append(t, c)) = Read(Append(t, c))
  <2>1. Plain(t) /\ \/ Outside(q) /\ c \notin {QUOTE, DQUOTE, BACKSLASH, SPACE}
                    \/ Inside(q) /\ c \notin {QUOTE}
    BY <1>3, FreeStep
  <2>2. Split(s \o Append(t, c)) = SplitChar(Read(t), c)
    BY <1>3, <2>1, JoinStep, SplitStep
  <2>3. Append(q.word \o t, c) = q.word \o Append(t, c) /\ Append(t, c) # <<>>
    <3> DEFINE p == q.word
    <3>1. p \in Text
      BY <1>1 DEF Splits
    <3>2. Append(t, c) # <<>>
      BY AppendProperties DEF Text
    <3> HIDE DEF p
    <3>3. Append(p \o t, c) = p \o Append(t, c)
      BY <3>1, JoinStep
    <3> QED BY <3>2, <3>3 DEF p
  <2> DEFINE r == Read(t)
  <2>4. /\ r \in Splits /\ r.word = q.word \o t /\ r.words = q.words /\ r.quote = q.quote
        /\ ~ r.escape /\ ~ q.escape
    BY <1>1, <2>1, JoinStep DEF Splits, Outside, Inside
  <2> HIDE DEF r
  <2>5. SplitChar(r, c) = [r EXCEPT !.word = Append(@, c), !.begun = TRUE, !.escape = FALSE]
    BY <2>1, <2>4 DEF SplitChar, Outside, Inside, QUOTE, SPACE, BACKSLASH, DQUOTE, Splits
  <2>6. Read(Append(t, c)) = [r EXCEPT !.word = Append(@, c), !.begun = TRUE, !.escape = FALSE]
    BY <1>1, <2>3, <2>4 DEF r, Splits
  <2> QED BY <2>2, <2>5, <2>6 DEF r
<1>4. \A t \in Seq(Chars), c \in Chars : t \in S => Append(t, c) \in S
  BY <1>3, JoinStep DEF Text
<1> HIDE DEF S
<1>5. Seq(Chars) \subseteq S
  BY <1>2, <1>4, Growing
<1> QED BY <1>5 DEF Text, S

\* What the field codes of a file stand for, and the state of do_parse_exec
KeyFiles == [i : {None}, c : Text, k : Text]
Parses == [out : Text, code : BOOLEAN, escape : BOOLEAN, single : BOOLEAN, double : BOOLEAN]

\* The special characters are characters.
LEMMA SpecialChars ==
  /\ SPACE \in Chars /\ QUOTE \in Chars /\ DQUOTE \in Chars
  /\ BACKSLASH \in Chars /\ PERCENT \in Chars
BY DEF Chars, Special

\* Texts, and what is put together from them
LEMMA Joined ==
  /\ <<>> \in Text
  /\ \A c \in Chars : <<c>> \in Text
  /\ \A s, t \in Text : s \o t \in Text
BY ConcatProperties, EmptySeq DEF Text

\* It does not matter which are put together first.
LEMMA JoinedTwice == \A s, t, u \in Text : (s \o t) \o u = s \o (t \o u)
BY ConcatAssociative DEF Text

\* append_quoted_word gives a text.
LEMMA QuotedWordType ==
  ASSUME NEW t \in Text, NEW single \in BOOLEAN, NEW double \in BOOLEAN
  PROVE  QuotedWord(t, single, double) \in Text
<1> DEFINE by == <<QUOTE, BACKSLASH, QUOTE, QUOTE>>
           escaped == Replaced(t, QUOTE, by)
<1>1. by \in Text /\ <<DQUOTE, QUOTE>> \in Text /\ <<QUOTE, DQUOTE>> \in Text
  BY SpecialChars DEF Text
<1>2. escaped \in Text
  <2> HIDE DEF by
  <2> QED BY <1>1, ReplacedStep, SpecialChars
<1> HIDE DEF escaped
<1>3. /\ <<DQUOTE, QUOTE>> \o escaped \o <<QUOTE, DQUOTE>> \in Text
      /\ <<QUOTE>> \o escaped \o <<QUOTE>> \in Text
  BY <1>1, <1>2, Joined, SpecialChars
<1> QED BY <1>2, <1>3 DEF QuotedWord, escaped

\* do_percent_subst gives a text.
LEMMA PercentSubstType ==
  ASSUME NEW q \in Parses, NEW c, NEW file \in KeyFiles
  PROVE  PercentSubst(q, c, file) \in Text
<1>1. /\ q.single \in BOOLEAN /\ q.double \in BOOLEAN
      /\ file.c \in Text /\ file.k \in Text /\ file.i = <<>>
  BY DEF Parses, KeyFiles, None
<1>2. CASE c \in {"c", "k"}
  <2>1. file[c] \in Text
    BY <1>1, <1>2
  <2>2. PercentSubst(q, c, file) = QuotedWord(file[c], q.single, q.double)
    BY <1>2 DEF PercentSubst, PERCENT
  <2> QED BY <1>1, <2>1, <2>2, QuotedWordType
<1>3. CASE c = PERCENT
  <2>1. PercentSubst(q, c, file) = <<PERCENT>>
    BY <1>3 DEF PercentSubst, PERCENT
  <2> QED BY <2>1, Joined, SpecialChars
<1>4. CASE c \notin {"c", "k"} /\ c # PERCENT
  <2>1. PercentSubst(q, c, file) = <<>>
    BY <1>1, <1>4 DEF PercentSubst
  <2> QED BY <2>1, Joined
<1> QED BY <1>2, <1>3, <1>4

\* A character leaves the state of do_parse_exec what it is.
LEMMA ParseCharType ==
  ASSUME NEW q \in Parses, NEW c \in Chars, NEW file \in KeyFiles
  PROVE  ParseChar(q, c, file) \in Parses
<1>1. /\ q.out \in Text /\ q.code \in BOOLEAN /\ q.escape \in BOOLEAN
      /\ q.single \in BOOLEAN /\ q.double \in BOOLEAN
  BY DEF Parses
<1>2. Append(q.out, c) \in Text
  BY <1>1 DEF Text
<1>3. q.out \o PercentSubst(q, c, file) \in Text
  BY <1>1, PercentSubstType, Joined
<1> HIDE DEF Text
<1> QED BY <1>1, <1>2, <1>3 DEF ParseChar, Parses

\* do_parse_exec, after some characters
Parse(line, file) == FoldLeft(LAMBDA q, c : ParseChar(q, c, file), Unparsed, line)

\* The line is parsed from left to right,
LEMMA ParseRun ==
  ASSUME NEW line \in Text, NEW file \in KeyFiles
  PROVE  \E R :
           /\ R[0] = Unparsed
           /\ \A k \in 1..Len(line) : R[k] = ParseChar(R[k - 1], line[k], file)
           /\ Parse(line, file) = R[Len(line)]
<1> DEFINE n == Len(line)
           step == [k \in 1..n |-> [q \in Parses |-> ParseChar(q, line[k], file)]]
           Folds(f) == f = [s \in SUBSET (1..n) |->
                              IF s = {} THEN Unparsed
                              ELSE ParseChar(f[s \ {Max(s)}], line[Max(s)], file)]
           fold == CHOOSE f : Folds(f)
<1>1. n \in Nat /\ DOMAIN line = 1..n /\ \A k \in 1..n : line[k] \in Chars
  BY DEF Text
<1>2. Unparsed \in Parses
  BY DEF Unparsed, Parses, Text
<1>3. step \in [1..n -> [Parses -> Parses]]
  BY <1>1, ParseCharType
<1>4. Parse(line, file) = fold[1..n]
  BY <1>1 DEF Parse, FoldLeft, MapThenFoldSet
<1>5. PICK f : FoldsOver(f, n, Parses, Unparsed, step)
  <2> HIDE DEF step, n
  <2> QED BY <1>1, <1>2, <1>3, FoldExists
<1>6. Folds(f)
  <2> SUFFICES ASSUME NEW s \in SUBSET (1..n), s # {}
               PROVE  f[s] = ParseChar(f[s \ {Max(s)}], line[Max(s)], file)
    BY <1>5 DEF FoldsOver
  <2>1. Max(s) \in 1..n
    <3> HIDE DEF n
    <3> QED BY <1>1, MaxIs
  <2>2. f[s \ {Max(s)}] \in Parses
    BY <1>5 DEF FoldsOver
  <2> QED BY <1>5, <2>1, <2>2 DEF FoldsOver
<1>7. Folds(fold)
  <2> HIDE DEF Folds
  <2> QED BY <1>6
<1> DEFINE R == [k \in 0..n |-> fold[1..k]]
<1> HIDE DEF fold, n
<1>8. R[0] = Unparsed
  BY <1>1, <1>7
<1>9. ASSUME NEW k \in 1..n
      PROVE  R[k] = ParseChar(R[k - 1], line[k], file)
  <2>1. 1..k \in SUBSET (1..n) /\ k \in 1..k /\ k - 1 \in 0..n /\ k \in 0..n
    BY <1>1
  <2>2. Max(1..k) = k
    <3>1. Max(1..k) \in 1..k /\ \A j \in 1..k : j <= Max(1..k)
      BY <1>1, <2>1, MaxIs
    <3> QED BY <3>1
  <2>3. (1..k) \ {k} = 1..(k - 1)
    OBVIOUS
  <2> QED BY <1>7, <2>1, <2>2, <2>3
<1>10. Parse(line, file) = R[n]
  BY <1>1, <1>4
<1> QED BY <1>8, <1>9, <1>10 DEF n

\* and so is one with one character more.
LEMMA ParseStep ==
  ASSUME NEW file \in KeyFiles
  PROVE  /\ Parse(<<>>, file) = Unparsed
         /\ \A t \in Text, c \in Chars :
              Parse(Append(t, c), file) = ParseChar(Parse(t, file), c, file)
<1>1. Parse(<<>>, file) = Unparsed
  <2> DEFINE t == <<>>
  <2>1. t \in Text /\ Len(t) = 0
    BY DEF Text
  <2> HIDE DEF t
  <2>2. Parse(t, file) = Unparsed
    BY <2>1, ParseRun
  <2> QED BY <2>2 DEF t
<1>2. ASSUME NEW t \in Text, NEW c \in Chars
      PROVE  Parse(Append(t, c), file) = ParseChar(Parse(t, file), c, file)
  <2> DEFINE u == Append(t, c)
             n == Len(t)
  <2>1. u \in Text /\ Len(u) = n + 1 /\ n \in Nat /\ u[n + 1] = c /\ \A k \in 1..n : u[k] = t[k]
    BY DEF Text
  <2> HIDE DEF u
  <2>2. PICK Q : /\ Q[0] = Unparsed
                 /\ \A k \in 1..n : Q[k] = ParseChar(Q[k - 1], t[k], file)
                 /\ Parse(t, file) = Q[n]
    BY ParseRun
  <2>3. PICK R : /\ R[0] = Unparsed
                 /\ \A k \in 1..Len(u) : R[k] = ParseChar(R[k - 1], u[k], file)
                 /\ Parse(u, file) = R[Len(u)]
    BY <2>1, ParseRun
  <2> HIDE DEF n
  <2>4. ASSUME NEW k \in 1..n, Q[k - 1] = R[k - 1] PROVE Q[k] = R[k]
    <3>1. k \in 1..Len(u)
      BY <2>1
    <3> QED BY <2>1, <2>2, <2>3, <2>4, <3>1
  <2>5. Q[n] = R[n]
    BY <2>1, <2>2, <2>3, <2>4, RunsAgree
  <2>6. n + 1 \in 1..Len(u) /\ (n + 1) - 1 = n
    BY <2>1
  <2>7. Parse(u, file) = ParseChar(R[n], c, file)
    BY <2>1, <2>3, <2>6
  <2> QED BY <2>2, <2>5, <2>7 DEF u
<1> QED BY <1>1, <1>2

\* Some line is parsed.
LEMMA ParseIs ==
  ASSUME NEW file \in KeyFiles
  PROVE  \A t \in Text : Parse(t, file) \in Parses
<1> DEFINE S == {t \in Text : Parse(t, file) \in Parses}
<1>1. <<>> \in S
  <2>1. Unparsed \in Parses
    BY Joined DEF Unparsed, Parses
  <2> QED BY <2>1, ParseStep, Joined
<1>2. \A t \in Seq(Chars), c \in Chars : t \in S => Append(t, c) \in S
  BY ParseStep, ParseCharType, JoinStep DEF Text
<1> HIDE DEF S
<1>3. Seq(Chars) \subseteq S
  BY <1>1, <1>2, Growing
<1> QED BY <1>3 DEF Text, S

\* A line without percent signs is taken as it is.
LEMMA ParsedAsWritten ==
  ASSUME NEW line \in Text, NEW file \in KeyFiles, Free(line, {PERCENT})
  PROVE  ParseExec(line, file) = line
<1> DEFINE S == {t \in Text : Free(t, {PERCENT}) =>
                                ~ Parse(t, file).code /\ Parse(t, file).out = t}
<1>1. <<>> \in S
  BY ParseStep, Joined DEF Unparsed
<1>2. ASSUME NEW t \in Text, NEW c \in Chars, t \in S, Free(Append(t, c), {PERCENT})
      PROVE  /\ ~ Parse(Append(t, c), file).code
             /\ Parse(Append(t, c), file).out = Append(t, c)
  <2>1. Free(t, {PERCENT}) /\ c # PERCENT
    BY <1>2, FreeStep
  <2> DEFINE q == Parse(t, file)
  <2>2. ~ q.code /\ q.out = t /\ q \in Parses
    BY <1>2, <2>1, ParseIs
  <2>3. Parse(Append(t, c), file) = ParseChar(q, c, file)
    BY ParseStep
  <2> HIDE DEF q
  <2>4. ~ ParseChar(q, c, file).code /\ ParseChar(q, c, file).out = Append(t, c)
    BY <2>1, <2>2 DEF ParseChar, Parses, BACKSLASH, QUOTE, DQUOTE
  <2> QED BY <2>3, <2>4
<1>3. \A t \in Seq(Chars), c \in Chars : t \in S => Append(t, c) \in S
  BY <1>2, JoinStep DEF Text
<1> HIDE DEF S
<1>4. Seq(Chars) \subseteq S
  BY <1>1, <1>3, Growing
<1>5. ~ Parse(line, file).code /\ Parse(line, file).out = line
  BY <1>4 DEF Text, S
<1> QED BY <1>5 DEF ParseExec, Parse

\* A word without quotes needs no replacing.
LEMMA NothingReplaced ==
  ASSUME NEW by \in Text, NEW char \in Chars
  PROVE  \A w \in Text : Free(w, {char}) => Replaced(w, char, by) = w
<1> DEFINE S == {t \in Text : Free(t, {char}) => Replaced(t, char, by) = t}
<1>1. <<>> \in S
  BY ReplacedStep, Joined
<1>2. ASSUME NEW t \in Text, NEW c \in Chars, t \in S, Free(Append(t, c), {char})
      PROVE  Replaced(Append(t, c), char, by) = Append(t, c)
  <2>1. Free(t, {char}) /\ c # char
    BY <1>2, FreeStep
  <2>2. Replaced(t, char, by) = t
    BY <1>2, <2>1
  <2>3. c \in Chars \ {char}
    BY <2>1
  <2>4. Replaced(Append(t, c), char, by) = Append(Replaced(t, char, by), c)
    BY <2>3, ReplacedStep
  <2> QED BY <2>2, <2>4
<1>3. \A t \in Seq(Chars), c \in Chars : t \in S => Append(t, c) \in S
  BY <1>2, JoinStep DEF Text
<1> HIDE DEF S
<1>4. Seq(Chars) \subseteq S
  BY <1>1, <1>3, Growing
<1> QED BY <1>4 DEF Text, S

\* Two texts without some characters, put together
LEMMA FreeJoined ==
  ASSUME NEW chars, NEW s \in Text, NEW t \in Text
  PROVE  Free(s \o t, chars) <=> Free(s, chars) /\ Free(t, chars)
<1>1. /\ Len(s) \in Nat /\ Len(t) \in Nat /\ Len(s \o t) = Len(s) + Len(t)
      /\ \A i \in 1..Len(s) + Len(t) : (s \o t)[i] = IF i <= Len(s) THEN s[i] ELSE t[i - Len(s)]
  BY ConcatProperties, LenProperties DEF Text
<1>2. /\ \A i \in 1..Len(s) : i \in 1..Len(s) + Len(t) /\ (s \o t)[i] = s[i]
      /\ \A i \in 1..Len(t) : i + Len(s) \in 1..Len(s) + Len(t) /\ (s \o t)[i + Len(s)] = t[i]
  BY <1>1
<1>3. ASSUME Free(s \o t, chars) PROVE Free(s, chars) /\ Free(t, chars)
  BY <1>1, <1>2, <1>3 DEF Free
<1>4. ASSUME Free(s, chars), Free(t, chars) PROVE Free(s \o t, chars)
  <2> SUFFICES ASSUME NEW i \in 1..Len(s) + Len(t) PROVE (s \o t)[i] \notin chars
    BY <1>1 DEF Free
  <2>1. CASE i <= Len(s)
    BY <1>1, <1>4, <2>1 DEF Free
  <2>2. CASE ~ (i <= Len(s))
    <3>1. i - Len(s) \in 1..Len(t)
      BY <1>1, <2>2
    <3> QED BY <1>1, <1>4, <2>2, <3>1 DEF Free
  <2> QED BY <2>1, <2>2
<1> QED BY <1>3, <1>4

\* The words that a desktop file gives back
Plain(w) == w # <<>> /\ Free(w, {QUOTE, PERCENT})

\* A word that is to come in a line is read from it.
LEMMA PropWordRead ==
  ASSUME NEW s \in Text, NEW w \in Text, Plain(w), Outside(Split(s)), Split(s).word = <<>>
  PROVE  /\ PropWord(w) \in Text /\ Free(PropWord(w), {PERCENT})
         /\ Split(s \o PropWord(w)) = [Split(s) EXCEPT !.word = w, !.begun = TRUE]
<1> DEFINE q == Split(s)
<1>1. q \in Splits /\ <<>> \o w = w
  BY SplitIs, ConcatEmptySeq DEF Text
<1>2. Free(w, {QUOTE}) /\ Free(w, {PERCENT}) /\ w # <<>>
  BY DEF Plain, Free
<1>3. CASE ~ \E i \in 1..Len(w) : w[i] \in Special
  <2>1. Free(w, {QUOTE, DQUOTE, BACKSLASH, SPACE})
    BY <1>3 DEF Free, Special
  <2>2. Split(s \o w) = [q EXCEPT !.word = @ \o w, !.begun = @ \/ w # <<>>]
    BY <2>1, WordRead
  <2>3. Split(s \o w) = [q EXCEPT !.word = w, !.begun = TRUE]
    BY <1>1, <1>2, <2>2 DEF Splits
  <2> QED BY <1>2, <1>3, <2>3 DEF PropWord
<1>4. CASE \E i \in 1..Len(w) : w[i] \in Special
  <2>1. Replaced(w, QUOTE, <<QUOTE, QUOTE, QUOTE>>) = w
    <3>1. <<QUOTE, QUOTE, QUOTE>> \in Text
      BY SpecialChars DEF Text
    <3> QED BY <1>2, <3>1, NothingReplaced, SpecialChars
  <2>2. PropWord(w) = <<QUOTE>> \o w \o <<QUOTE>>
    BY <1>4, <2>1 DEF PropWord
  <2>3. /\ <<QUOTE>> \in Text /\ <<QUOTE>> \o w \in Text /\ PropWord(w) \in Text
        /\ s \o <<QUOTE>> \in Text /\ (s \o <<QUOTE>>) \o w \in Text
    BY <2>2, Joined, SpecialChars
  <2>4. s \o PropWord(w) = Append((s \o <<QUOTE>>) \o w, QUOTE)
    <3>1. s \o PropWord(w) = (s \o (<<QUOTE>> \o w)) \o <<QUOTE>>
      BY <2>2, <2>3, ConcatAssociative DEF Text
    <3>2. s \o (<<QUOTE>> \o w) = (s \o <<QUOTE>>) \o w
      BY <2>3, ConcatAssociative DEF Text
    <3> DEFINE a == (s \o <<QUOTE>>) \o w
    <3>3. a \in Text
      BY <2>3
    <3> HIDE DEF a
    <3>4. Append(a, QUOTE) = a \o <<QUOTE>>
      BY <3>3, SpecialChars, JoinStep
    <3> QED BY <3>1, <3>2, <3>4 DEF a
  <2>5. Split(s \o <<QUOTE>>) = [q EXCEPT !.quote = QUOTE, !.begun = TRUE]
    <3>1. s \o <<QUOTE>> = Append(s, QUOTE)
      BY SpecialChars, JoinStep
    <3>2. SplitChar(q, QUOTE) = [q EXCEPT !.quote = QUOTE, !.begun = TRUE]
      BY <1>1 DEF SplitChar, Outside, Splits, QUOTE, DQUOTE, SPACE, BACKSLASH
    <3> QED BY <3>1, <3>2, SpecialChars, SplitStep
  <2> DEFINE r == Split(s \o <<QUOTE>>)
  <2>6. Split((s \o <<QUOTE>>) \o w) = [r EXCEPT !.word = @ \o w, !.begun = @ \/ w # <<>>]
    <3>1. Inside(r)
      BY <1>1, <2>5 DEF Inside, Outside, Splits
    <3> QED BY <1>2, <2>3, <3>1, WordRead
  <2>7. Split((s \o <<QUOTE>>) \o w) = [q EXCEPT !.word = w, !.begun = TRUE, !.quote = QUOTE]
    <3>1. r = [q EXCEPT !.quote = QUOTE, !.begun = TRUE]
      BY <2>5
    <3> HIDE DEF q, r
    <3>2. q.word = <<>>
      BY DEF q
    <3> QED BY <1>1, <2>6, <3>1, <3>2 DEF Splits
  <2> DEFINE p == [q EXCEPT !.word = w, !.begun = TRUE, !.quote = QUOTE]
  <2>8. SplitChar(p, QUOTE) = [q EXCEPT !.word = w, !.begun = TRUE]
    BY <1>1 DEF SplitChar, Outside, Splits, QUOTE, DQUOTE, SPACE, BACKSLASH
  <2>9. Split(s \o PropWord(w)) = [q EXCEPT !.word = w, !.begun = TRUE]
    BY <2>3, <2>4, <2>7, <2>8, SpecialChars, SplitStep
  <2>10. Free(PropWord(w), {PERCENT})
    <3>1. Free(<<QUOTE>>, {PERCENT})
      BY DEF Free, QUOTE, PERCENT
    <3> QED BY <1>2, <2>2, <2>3, <3>1, FreeJoined
  <2> QED BY <2>3, <2>9, <2>10
<1> QED BY <1>3, <1>4

\* prop_to_command makes a text of a word.
LEMMA PropWordType == \A w \in Text : PropWord(w) \in Text
<1> SUFFICES ASSUME NEW w \in Text PROVE PropWord(w) \in Text
  OBVIOUS
<1> DEFINE r == Replaced(w, QUOTE, <<QUOTE, QUOTE, QUOTE>>)
<1>1. r \in Text
  <2> DEFINE by == <<QUOTE, QUOTE, QUOTE>>
  <2>1. by \in Text
    BY SpecialChars DEF Text
  <2> HIDE DEF by
  <2>2. Replaced(w, QUOTE, by) \in Text
    BY <2>1, ReplacedStep, SpecialChars
  <2> QED BY <2>2 DEF by
<1> HIDE DEF r
<1>2. <<QUOTE>> \o r \o <<QUOTE>> \in Text
  BY <1>1, Joined, SpecialChars
<1> QED BY <1>1, <1>2 DEF PropWord, r

\* One word more in a command
LEMMA PropToCommandStep ==
  /\ PropToCommand(<<>>) = <<>>
  /\ \A ws \in Seq(Text) : PropToCommand(ws) \in Text
  /\ \A w \in Text : PropToCommand(Append(<<>>, w)) = PropWord(w)
  /\ \A ws \in Seq(Text), w \in Text : ws # <<>> =>
       PropToCommand(Append(ws, w)) = Append(PropToCommand(ws), SPACE) \o PropWord(w)
<1> DEFINE Piece(i, w) == (IF i > 1 THEN <<SPACE>> ELSE <<>>) \o PropWord(w)
           Pieces(ws) == [i \in 1..Len(ws) |-> Piece(i, ws[i])]
<1>1. \A ws : PropToCommand(ws) = Concat(Pieces(ws))
  BY DEF PropToCommand
<1>2. \A i \in Nat, w \in Text : Piece(i, w) \in Text
  BY PropWordType, Joined, SpecialChars
<1>3. \A ws \in Seq(Text) : Pieces(ws) \in Seq(Text)
  <2> TAKE ws \in Seq(Text)
  <2>1. Len(ws) \in Nat /\ \A i \in 1..Len(ws) : ws[i] \in Text
    BY ElementOfSeq, LenProperties
  <2> HIDE DEF Piece
  <2>2. \A i \in 1..Len(ws) : i \in Nat /\ Piece(i, ws[i]) \in Text
    BY <1>2, <2>1
  <2> QED BY <2>1, <2>2
<1>4. Pieces(<<>>) = <<>>
  <2> HIDE DEF Piece
  <2> QED OBVIOUS
<1>5. ASSUME NEW ws \in Seq(Text), NEW w \in Text
      PROVE  Pieces(Append(ws, w)) = Append(Pieces(ws), Piece(Len(ws) + 1, w))
  <2>1. /\ Append(ws, w) \in Seq(Text) /\ Len(Append(ws, w)) = Len(ws) + 1 /\ Len(ws) \in Nat
        /\ Append(ws, w)[Len(ws) + 1] = w
        /\ \A i \in 1..Len(ws) : Append(ws, w)[i] = ws[i]
    BY AppendProperties, LenProperties
  <2>2. /\ Pieces(ws) \in Seq(Text) /\ Pieces(Append(ws, w)) \in Seq(Text)
        /\ Piece(Len(ws) + 1, w) \in Text
    <3> HIDE DEF Piece, Pieces
    <3>1. Len(ws) + 1 \in Nat
      BY <2>1
    <3> QED BY <1>2, <1>3, <2>1, <3>1
  <2>3. Len(Pieces(ws)) = Len(ws) /\ Len(Pieces(Append(ws, w))) = Len(ws) + 1
    <3> HIDE DEF Piece
    <3> QED BY <2>1
  <2>4. /\ \A i \in 1..Len(ws) : Pieces(Append(ws, w))[i] = Pieces(ws)[i]
        /\ Pieces(Append(ws, w))[Len(ws) + 1] = Piece(Len(ws) + 1, w)
    <3> HIDE DEF Piece
    <3> QED BY <2>1
  <2> HIDE DEF Piece, Pieces
  <2> QED BY <2>2, <2>3, <2>4, Appended
<1>6. ASSUME NEW ws \in Seq(Text), NEW w \in Text
      PROVE  PropToCommand(Append(ws, w)) = PropToCommand(ws) \o Piece(Len(ws) + 1, w)
  <2>1. Len(ws) + 1 \in Nat
    BY LenProperties
  <2>2. Pieces(ws) \in Seq(Text) /\ Piece(Len(ws) + 1, w) \in Text
    BY <1>2, <1>3, <2>1
  <2> HIDE DEF Pieces, Piece
  <2>3. Concat(Append(Pieces(ws), Piece(Len(ws) + 1, w))) =
          Concat(Pieces(ws)) \o Piece(Len(ws) + 1, w)
    BY <2>2, ConcatStep
  <2> QED BY <1>1, <1>5, <2>3
<1>7. PropToCommand(<<>>) = <<>>
  <2> HIDE DEF Pieces
  <2> QED BY <1>1, <1>4, ConcatStep
<1>8. ASSUME NEW ws \in Seq(Text) PROVE PropToCommand(ws) \in Text
  <2> HIDE DEF Pieces
  <2> QED BY <1>1, <1>3, ConcatStep
<1>9. ASSUME NEW w \in Text
      PROVE  PropToCommand(Append(<<>>, w)) = PropWord(w)
  <2>1. PropToCommand(Append(<<>>, w)) = PropToCommand(<<>>) \o Piece(Len(<<>>) + 1, w)
    <3> DEFINE ws == <<>>
    <3>1. ws \in Seq(Text)
      BY EmptySeq
    <3> HIDE DEF ws, Piece
    <3>2. PropToCommand(Append(ws, w)) = PropToCommand(ws) \o Piece(Len(ws) + 1, w)
      BY <1>6, <3>1
    <3> QED BY <3>2 DEF ws
  <2>2. Piece(Len(<<>>) + 1, w) = <<>> \o PropWord(w)
    <3>1. ~ (Len(<<>>) + 1 > 1)
      BY EmptySeq
    <3> QED BY <3>1
  <2>3. PropWord(w) \in Seq(Chars)
    BY PropWordType DEF Text
  <2> HIDE DEF Piece
  <2>4. <<>> \o (<<>> \o PropWord(w)) = PropWord(w)
    BY <2>3, ConcatEmptySeq
  <2> QED BY <1>7, <2>1, <2>2, <2>4
<1>10. ASSUME NEW ws \in Seq(Text), NEW w \in Text, ws # <<>>
       PROVE  PropToCommand(Append(ws, w)) = Append(PropToCommand(ws), SPACE) \o PropWord(w)
  <2> DEFINE s == PropToCommand(ws)
             t == PropWord(w)
  <2>1. s \in Text /\ t \in Text /\ <<SPACE>> \in Text
    BY <1>8, PropWordType, Joined, SpecialChars
  <2>2. Piece(Len(ws) + 1, w) = <<SPACE>> \o t
    <3>1. Len(ws) + 1 > 1
      BY <1>10, EmptySeq
    <3> QED BY <3>1
  <2>3. PropToCommand(Append(ws, w)) = s \o (<<SPACE>> \o t)
    BY <1>6, <2>2
  <2> HIDE DEF s, t
  <2>4. s \o (<<SPACE>> \o t) = (s \o <<SPACE>>) \o t
    BY <2>1, ConcatAssociative DEF Text
  <2>5. s \o <<SPACE>> = Append(s, SPACE)
    BY <2>1, SpecialChars, JoinStep
  <2> QED BY <2>3, <2>4, <2>5 DEF s, t
<1> QED BY <1>7, <1>8, <1>9, <1>10

\* g_shell_parse_argv between two words
Between(ws) == [words |-> ws, word |-> <<>>, begun |-> FALSE, escape |-> FALSE, quote |-> SPACE]

\* A command goes into the Exec line of a desktop file and comes back word by word.
LEMMA WordsComeBack ==
  ASSUME NEW words \in Seq(Text), \A i \in 1..Len(words) : Plain(words[i]),
         NEW file \in KeyFiles
  PROVE  ShellParse(PropToCommand(words)) = words /\ Argv(PropToCommand(words), file) = words
<1> DEFINE Line(ws) == PropToCommand(ws)
           Good(ws) == \A i \in 1..Len(ws) : Plain(ws[i])
           S == {ws \in Seq(Text) : Good(ws) =>
                   /\ Free(Line(ws), {PERCENT})
                   /\ Outside(Split(Line(ws))) /\ EndWord(Split(Line(ws))) = Between(ws)}
<1>1. <<>> \in S
  <2>1. <<>> \in Seq(Text)
    BY EmptySeq
  <2>2. Free(<<>>, {PERCENT})
    BY DEF Free
  <2>3. Outside(Unsplit) /\ EndWord(Unsplit) = Between(<<>>)
    BY DEF Outside, Unsplit, EndWord, Between
  <2> QED BY <2>1, <2>2, <2>3, PropToCommandStep, SplitStep
<1>2. ASSUME NEW ws \in Seq(Text), NEW w \in Text, ws \in S, Good(Append(ws, w))
      PROVE  LET t == Line(Append(ws, w))
             IN  /\ Free(t, {PERCENT})
                 /\ Outside(Split(t)) /\ EndWord(Split(t)) = Between(Append(ws, w))
  <2>1. Good(ws) /\ Plain(w)
    <3>1. /\ Len(Append(ws, w)) = Len(ws) + 1 /\ Len(ws) \in Nat
          /\ Append(ws, w)[Len(ws) + 1] = w
          /\ \A i \in 1..Len(ws) : Append(ws, w)[i] = ws[i]
      BY AppendProperties, LenProperties
    <3>2. /\ Len(ws) + 1 \in 1..Len(ws) + 1 /\ \A i \in 1..Len(ws) : i \in 1..Len(ws) + 1
      BY <3>1
    <3> HIDE DEF Plain
    <3> QED BY <1>2, <3>1, <3>2
  <2>2. PICK s \in Text : /\ Line(Append(ws, w)) = s \o PropWord(w)
                          /\ Free(s, {PERCENT}) /\ Split(s) = Between(ws)
    <3>1. CASE ws = <<>>
      <4>1. PropWord(w) \in Seq(Chars)
        BY PropWordType DEF Text
      <4>2. <<>> \o PropWord(w) = PropWord(w)
        BY <4>1, ConcatEmptySeq
      <4>3. Line(Append(ws, w)) = <<>> \o PropWord(w)
        BY <3>1, <4>2, PropToCommandStep
      <4>4. Free(<<>>, {PERCENT}) /\ <<>> \in Text
        BY Joined DEF Free
      <4>5. Split(<<>>) = Between(ws)
        BY <3>1, SplitStep DEF Unsplit, Between
      <4> QED BY <4>3, <4>4, <4>5
    <3>2. CASE ws # <<>>
      <4> DEFINE p == Line(ws)
                 s == Append(p, SPACE)
      <4>1. /\ Free(p, {PERCENT}) /\ Outside(Split(p)) /\ EndWord(Split(p)) = Between(ws)
            /\ p \in Text
        BY <1>2, <2>1, PropToCommandStep
      <4>2. Line(Append(ws, w)) = s \o PropWord(w)
        BY <3>2, PropToCommandStep
      <4> HIDE DEF p
      <4>3. s \in Text
        BY <4>1, JoinStep, SpecialChars
      <4>4. Free(s, {PERCENT})
        <5>1. SPACE # PERCENT
          BY DEF SPACE, PERCENT
        <5> QED BY <4>1, <5>1, FreeStep, SpecialChars
      <4>5. Split(s) = Between(ws)
        <5>1. Split(s) = SplitChar(Split(p), SPACE)
          BY <4>1, SplitStep, SpecialChars
        <5> DEFINE q == Split(p)
        <5>2. SplitChar(q, SPACE) = EndWord(q)
          <6>1. q.quote = SPACE /\ ~ q.escape
            BY <4>1 DEF Outside
          <6> HIDE DEF q
          <6> QED BY <6>1 DEF SplitChar, SPACE, BACKSLASH, QUOTE, DQUOTE
        <5> QED BY <4>1, <5>1, <5>2
      <4> QED BY <4>2, <4>3, <4>4, <4>5
    <3> QED BY <3>1, <3>2
  <2>3. Outside(Split(s)) /\ Split(s).word = <<>>
    BY <2>2 DEF Outside, Between
  <2>4. /\ PropWord(w) \in Text /\ Free(PropWord(w), {PERCENT})
        /\ Split(s \o PropWord(w)) = [Split(s) EXCEPT !.word = w, !.begun = TRUE]
    BY <2>1, <2>3, PropWordRead
  <2>5. Free(s \o PropWord(w), {PERCENT})
    BY <2>2, <2>4, FreeJoined
  <2>6. Split(s \o PropWord(w)) =
          [words |-> ws, word |-> w, begun |-> TRUE, escape |-> FALSE, quote |-> SPACE]
    <3>1. [Between(ws) EXCEPT !.word = w, !.begun = TRUE] =
            [words |-> ws, word |-> w, begun |-> TRUE, escape |-> FALSE, quote |-> SPACE]
      <4> DEFINE b == Between(ws)
                 a == [b EXCEPT !.word = w, !.begun = TRUE]
                 l == [words |-> ws, word |-> w, begun |-> TRUE, escape |-> FALSE, quote |-> SPACE]
      <4>1. b \in Splits /\ b.words = ws /\ b.escape = FALSE /\ b.quote = SPACE
        BY Joined DEF Between, Splits
      <4>2. l \in Splits
        BY DEF Splits
      <4> HIDE DEF b
      <4>3. /\ a \in Splits /\ a.words = l.words /\ a.word = l.word /\ a.begun = l.begun
            /\ a.escape = l.escape /\ a.quote = l.quote
        BY <4>1 DEF Splits
      <4>4. a = l
        <5> HIDE DEF a, l
        <5> QED BY <4>2, <4>3 DEF Splits
      <4> QED BY <4>4 DEF b
    <3> QED BY <2>2, <2>4, <3>1
  <2> DEFINE q == [words |-> ws, word |-> w, begun |-> TRUE, escape |-> FALSE, quote |-> SPACE]
  <2>7. Outside(q) /\ EndWord(q) = Between(Append(ws, w))
    BY DEF Outside, EndWord, Between
  <2> QED BY <2>2, <2>5, <2>6, <2>7
<1>3. \A ws \in Seq(Text), w \in Text : ws \in S => Append(ws, w) \in S
  BY <1>2, AppendProperties
<1>4. Seq(Text) \subseteq S
  <2> HIDE DEF S
  <2> QED BY <1>1, <1>3, Growing
<1> DEFINE line == Line(words)
<1>5. Free(line, {PERCENT}) /\ Outside(Split(line)) /\ EndWord(Split(line)) = Between(words)
  BY <1>4
<1>6. ParseExec(line, file) = line
  BY <1>5, PropToCommandStep, ParsedAsWritten
<1>7. ShellParse(line) = words
  <2> HIDE DEF line
  <2> QED BY <1>5 DEF ShellParse, Split, Outside, Between
<1> QED BY <1>6, <1>7 DEF Argv

-----------------------------------------------------------------------------
(* Texts that differ in a name *)

EscapedQuote == <<QUOTE, BACKSLASH, QUOTE, QUOTE>>

\* A text whose quotes are escaped, between single quotes
LEMMA EscapedRead ==
  ASSUME NEW s \in Text, NEW t \in Text, Inside(Split(s))
  PROVE  Split(s \o Replaced(t, QUOTE, EscapedQuote)) = [Split(s) EXCEPT !.word = @ \o t]
<1> DEFINE q == Split(s)
           Escaped(u) == Replaced(u, QUOTE, EscapedQuote)
           Read(u) == [q EXCEPT !.word = @ \o u]
           S == {u \in Text : Split(s \o Escaped(u)) = Read(u)}
<1>1. q \in Splits /\ q.quote = QUOTE /\ q.escape = FALSE /\ q.begun = TRUE
  BY SplitIs DEF Inside, Splits
<1>2. EscapedQuote \in Text
  BY SpecialChars DEF EscapedQuote, Text
<1>3. <<>> \in S
  <2>1. s \o <<>> = s /\ q.word \o <<>> = q.word
    BY <1>1, ConcatEmptySeq DEF Text, Splits
  <2>2. Read(<<>>) = q
    BY <1>1, <2>1 DEF Splits
  <2>3. Escaped(<<>>) = <<>>
    BY <1>2, ReplacedStep, SpecialChars
  <2> QED BY <2>1, <2>2, <2>3, Joined
<1>4. ASSUME NEW u \in Text, NEW c \in Chars, u \in S
      PROVE  Split(s \o Escaped(Append(u, c))) = Read(Append(u, c))
  <2> DEFINE r == Read(u)
             v == s \o Escaped(u)
  <2>1. Escaped(u) \in Text /\ v \in Text /\ Split(v) = r
    BY <1>2, <1>4, ReplacedStep, SpecialChars, Joined
  <2>2. /\ r \in Splits /\ r.quote = QUOTE /\ r.escape = FALSE /\ r.begun = TRUE
        /\ r.word = q.word \o u /\ r.words = q.words
    BY <1>1, Joined DEF Splits
  <2>3. Read(Append(u, c)) = [r EXCEPT !.word = Append(@, c)]
    <3> DEFINE p == q.word
    <3>1. p \in Text
      BY <1>1 DEF Splits
    <3> HIDE DEF p
    <3>2. Append(p \o u, c) = p \o Append(u, c)
      BY <3>1, JoinStep
    <3> QED BY <1>1, <3>2 DEF Splits, p
  <2> HIDE DEF r, v
  <2>4. CASE c # QUOTE
    <3>1. Escaped(Append(u, c)) = Append(Escaped(u), c)
      <4>1. c \in Chars \ {QUOTE}
        BY <2>4
      <4>2. QUOTE \in Chars
        BY SpecialChars
      <4> QED BY <1>2, <4>1, <4>2, NotReplaced
    <3>2. s \o Escaped(Append(u, c)) = Append(v, c)
      <4> DEFINE e == Escaped(u)
      <4> HIDE DEF e
      <4>1. s \o Append(e, c) = Append(s \o e, c)
        BY <2>1, JoinStep DEF e
      <4> QED BY <3>1, <4>1 DEF e, v
    <3>3. SplitChar(r, c) = [r EXCEPT !.word = Append(@, c)]
      BY <2>2, <2>4 DEF SplitChar, Splits, SPACE, QUOTE
    <3> QED BY <2>1, <2>3, <3>2, <3>3, SplitStep
  <2>5. CASE c = QUOTE
    <3> DEFINE v1 == Append(v, QUOTE)
               v2 == Append(v1, BACKSLASH)
               v3 == Append(v2, QUOTE)
               v4 == Append(v3, QUOTE)
               r1 == [r EXCEPT !.quote = SPACE]
               r2 == [r1 EXCEPT !.escape = TRUE]
               r3 == [r EXCEPT !.quote = SPACE, !.word = Append(@, c)]
               r4 == [r EXCEPT !.word = Append(@, c)]
    <3>1. Escaped(Append(u, c)) = Escaped(u) \o EscapedQuote
      BY <1>2, <2>5, ReplacedStep, SpecialChars
    <3>2. s \o Escaped(Append(u, c)) = v \o EscapedQuote
      <4> DEFINE e == Escaped(u)
      <4>1. e \in Text /\ v = s \o e
        BY <2>1 DEF v
      <4> HIDE DEF e
      <4>2. s \o (e \o EscapedQuote) = (s \o e) \o EscapedQuote
        BY <1>2, <4>1, JoinedTwice
      <4> QED BY <3>1, <4>1, <4>2 DEF e
    <3>3. v1 \in Text /\ v2 \in Text /\ v3 \in Text
      BY <2>1, JoinStep, SpecialChars
    <3>4. v \o EscapedQuote = v4
      BY <2>1 DEF EscapedQuote, Text
    <3>5. r1 \in Splits /\ r2 \in Splits /\ r3 \in Splits
      <4>1. Append(r.word, c) \in Text
        BY <2>2, JoinStep DEF Splits
      <4> QED BY <2>2, <4>1 DEF Splits
    <3>6. SplitChar(r, QUOTE) = r1
      BY <2>2 DEF SplitChar, Splits, SPACE, QUOTE, BACKSLASH
    <3>7. SplitChar(r1, BACKSLASH) = r2
      BY <2>2, <3>5 DEF SplitChar, Splits, SPACE, QUOTE, DQUOTE, BACKSLASH
    <3>8. SplitChar(r2, QUOTE) = r3
      BY <2>2, <2>5, <3>5 DEF SplitChar, Splits, SPACE, QUOTE, DQUOTE, BACKSLASH
    <3>9. SplitChar(r3, QUOTE) = r4
      BY <2>2, <2>5, <3>5 DEF SplitChar, Splits, SPACE, QUOTE, DQUOTE, BACKSLASH
    <3> HIDE DEF r1, r2, r3, r4, v1, v2, v3
    <3>10. Split(v1) = r1
      BY <2>1, <3>6, SplitStep, SpecialChars DEF v1
    <3>11. Split(v2) = r2
      BY <3>3, <3>7, <3>10, SplitStep, SpecialChars DEF v2
    <3>12. Split(v3) = r3
      BY <3>3, <3>8, <3>11, SplitStep, SpecialChars DEF v3
    <3>13. Split(v4) = r4
      BY <3>3, <3>9, <3>12, SplitStep, SpecialChars
    <3> QED BY <2>3, <3>2, <3>4, <3>13 DEF r4
  <2> QED BY <2>4, <2>5
<1>5. \A u \in Seq(Chars), c \in Chars : u \in S => Append(u, c) \in S
  BY <1>4, JoinStep DEF Text
<1> HIDE DEF S
<1>6. Seq(Chars) \subseteq S
  BY <1>3, <1>5, Growing
<1> QED BY <1>6 DEF Text, S

\* Two characters, one after the other
LEMMA Pair ==
  ASSUME NEW a \in Chars, NEW b \in Chars
  PROVE  <<a, b>> = <<a>> \o <<b>>
<1> DEFINE one == <<a>>
           two == <<a, b>>
<1>1. one \in Text /\ two \in Text /\ Len(one) = 1 /\ Len(two) = 2
  BY DEF Text
<1>2. one[1] = a /\ two[1] = a /\ two[2] = b
  OBVIOUS
<1> HIDE DEF one, two
<1>3. \A i \in 1..1 : two[i] = one[i]
  BY <1>2
<1>4. two = Append(one, b)
  <2>1. Len(one) + 1 = 2
    BY <1>1
  <2>2. \A i \in 1..Len(one) : two[i] = one[i]
    BY <1>1, <1>3
  <2>3. two[Len(one) + 1] = b
    BY <1>2, <2>1
  <2> QED BY <1>1, <2>1, <2>2, <2>3, Appended DEF Text
<1>5. Append(one, b) = one \o <<b>>
  BY <1>1, JoinStep
<1> QED BY <1>4, <1>5 DEF one, two

\* Two places of a line with the same parts are the same.
LEMMA SplitsEqual ==
  ASSUME NEW a \in Splits, NEW b \in Splits,
         a.words = b.words, a.word = b.word, a.begun = b.begun, a.escape = b.escape,
         a.quote = b.quote
  PROVE  a = b
BY DEF Splits

\* A text between its own quotes, between others
LEMMA Requoted ==
  ASSUME NEW s \in Text, NEW e \in Text
  PROVE  s \o (<<DQUOTE, QUOTE>> \o e \o <<QUOTE, DQUOTE>>) =
           ((s \o <<DQUOTE>>) \o (<<QUOTE>> \o e \o <<QUOTE>>)) \o <<DQUOTE>>
<1> DEFINE a == <<QUOTE>>
           d == <<DQUOTE>>
           ae == a \o e
           mid == ae \o a
           dm == d \o mid
           dae == d \o ae
<1>1. a \in Text /\ d \in Text /\ <<DQUOTE, QUOTE>> = d \o a /\ <<QUOTE, DQUOTE>> = a \o d
  BY Joined, Pair, SpecialChars
<1> HIDE DEF a, d
<1>2. ae \in Text
  BY <1>1, Joined
<1>3. (d \o a) \o e = dae
  BY <1>1, JoinedTwice
<1> HIDE DEF ae
<1>4. mid \in Text /\ dae \in Text
  BY <1>1, <1>2, Joined
<1>5. dae \o a = dm
  BY <1>1, <1>2, JoinedTwice
<1> HIDE DEF mid, dae
<1>6. dae \o (a \o d) = dm \o d
  <2>1. (dae \o a) \o d = dae \o (a \o d)
    BY <1>1, <1>4, JoinedTwice
  <2> QED BY <1>5, <2>1
<1>7. dm \in Text
  BY <1>1, <1>4, Joined
<1>8. (s \o d) \o mid = s \o dm
  BY <1>1, <1>4, JoinedTwice
<1> HIDE DEF dm
<1>9. (s \o dm) \o d = s \o (dm \o d)
  BY <1>1, <1>7, JoinedTwice
<1> QED BY <1>1, <1>3, <1>6, <1>8, <1>9 DEF mid, ae, a, d

\* append_quoted_word: whatever quotes the code is in, the text goes into the word.
LEMMA QuotedWordRead ==
  ASSUME NEW s \in Text, NEW t \in Text, ~ Split(s).escape,
         Split(s).quote # SPACE => Split(s).begun
  PROVE  Split(s \o QuotedWord(t, Split(s).quote = QUOTE, Split(s).quote = DQUOTE)) =
           [Split(s) EXCEPT !.word = @ \o t, !.begun = TRUE]
<1> DEFINE q == Split(s)
           escaped == Replaced(t, QUOTE, EscapedQuote)
           read == [q EXCEPT !.word = @ \o t, !.begun = TRUE]
<1>1. q \in Splits
  BY SplitIs
<1>2. escaped \in Text /\ <<QUOTE>> \in Text /\ <<DQUOTE>> \in Text
  <2>1. EscapedQuote \in Text
    BY SpecialChars DEF EscapedQuote, Text
  <2> QED BY <2>1, ReplacedStep, Joined, SpecialChars
<1>3. q.word \o t \in Text
  <2>1. q.word \in Text
    BY <1>1 DEF Splits
  <2> QED BY <2>1, Joined
<1>4. QUOTE # DQUOTE /\ QUOTE # SPACE /\ DQUOTE # SPACE
  BY DEF QUOTE, DQUOTE, SPACE
<1> HIDE DEF escaped
\* Between quotes of its own
<1>5. ASSUME NEW u \in Text, Outside(Split(u)), NEW v, v = Append(Append(u, QUOTE) \o escaped, QUOTE)
      PROVE  /\ Split(v) = [Split(u) EXCEPT !.word = @ \o t, !.begun = TRUE]
             /\ v = u \o (<<QUOTE>> \o escaped \o <<QUOTE>>) /\ v \in Text
  <2> DEFINE p == Split(u)
             u1 == Append(u, QUOTE)
             u2 == u1 \o escaped
             p1 == [p EXCEPT !.quote = QUOTE, !.begun = TRUE]
             p2 == [p1 EXCEPT !.word = @ \o t]
             p3 == [p EXCEPT !.word = @ \o t, !.begun = TRUE]
  <2>1. p \in Splits /\ p.quote = SPACE /\ p.escape = FALSE
    BY <1>5, SplitIs DEF Outside, Splits
  <2>2. u1 \in Text /\ u2 \in Text /\ v \in Text
    BY <1>2, <1>5, JoinStep, Joined, SpecialChars
  <2>3. p.word \o t \in Text
    <3>1. p.word \in Text
      BY <2>1 DEF Splits
    <3> QED BY <3>1, Joined
  <2>4. p1 \in Splits /\ p2 \in Splits /\ p3 \in Splits
    BY <2>1, <2>3 DEF Splits
  <2> HIDE DEF p
  <2>5. SplitChar(p, QUOTE) = p1
    BY <2>1 DEF SplitChar, Splits, SPACE, QUOTE, DQUOTE, BACKSLASH
  <2>6. Inside(p1)
    BY <2>1 DEF Inside, Splits
  <2>7. SplitChar(p2, QUOTE) = p3
    BY <2>1, <2>4 DEF SplitChar, Splits, SPACE, QUOTE, DQUOTE, BACKSLASH
  <2> HIDE DEF p1, p2, p3, u1, u2
  <2>8. Split(u1) = p1
    BY <2>5, SplitStep, SpecialChars DEF u1, p
  <2>9. Split(u2) = p2
    <3>1. Split(u1 \o escaped) = [Split(u1) EXCEPT !.word = @ \o t]
      BY <2>2, <2>6, <2>8, EscapedRead DEF escaped
    <3> QED BY <2>8, <3>1 DEF u2, p2
  <2>10. Split(Append(u2, QUOTE)) = p3
    BY <2>2, <2>7, <2>9, SplitStep, SpecialChars
  <2>11. v = Append(u2, QUOTE)
    BY <1>5 DEF u1, u2
  <2>12. v = u \o (<<QUOTE>> \o escaped \o <<QUOTE>>)
    <3>1. u1 = u \o <<QUOTE>> /\ Append(u2, QUOTE) = u2 \o <<QUOTE>>
      BY <2>2, JoinStep, SpecialChars DEF u1
    <3>2. (u \o <<QUOTE>>) \o escaped = u \o (<<QUOTE>> \o escaped)
      BY <1>2, JoinedTwice
    <3>3. <<QUOTE>> \o escaped \in Text
      BY <1>2, Joined
    <3>4. (u \o (<<QUOTE>> \o escaped)) \o <<QUOTE>> = u \o ((<<QUOTE>> \o escaped) \o <<QUOTE>>)
      <4> DEFINE a == <<QUOTE>>
                 e == <<QUOTE>> \o escaped
      <4>1. a \in Text /\ e \in Text
        BY <1>2, <3>3
      <4> HIDE DEF a, e
      <4>2. (u \o e) \o a = u \o (e \o a)
        BY <4>1, JoinedTwice
      <4> QED BY <4>2 DEF a, e
    <3> QED BY <2>11, <3>1, <3>2, <3>4 DEF u2
  <2> QED BY <2>2, <2>10, <2>11, <2>12 DEF p, p3
<1>6. CASE q.quote = QUOTE
  <2>1. Inside(q)
    BY <1>6 DEF Inside, QUOTE, SPACE
  <2>2. Split(s \o escaped) = [q EXCEPT !.word = @ \o t]
    BY <2>1, EscapedRead DEF escaped
  <2>3. QuotedWord(t, TRUE, FALSE) = escaped
    BY DEF QuotedWord, escaped, EscapedQuote
  <2>4. [q EXCEPT !.word = @ \o t] = read
    BY <1>1, <2>1 DEF Inside, Splits
  <2> QED BY <1>4, <1>6, <2>2, <2>3, <2>4
<1>7. CASE q.quote = SPACE
  <2> DEFINE v == Append(Append(s, QUOTE) \o escaped, QUOTE)
  <2>1. Outside(q)
    BY <1>7 DEF Outside
  <2>2. Split(v) = read /\ v = s \o (<<QUOTE>> \o escaped \o <<QUOTE>>)
    <3> HIDE DEF v
    <3> QED BY <1>5, <2>1 DEF v
  <2>3. QuotedWord(t, FALSE, FALSE) = <<QUOTE>> \o escaped \o <<QUOTE>>
    BY DEF QuotedWord, escaped, EscapedQuote
  <2> QED BY <1>4, <1>7, <2>2, <2>3
<1>8. CASE q.quote = DQUOTE
  <2> DEFINE u == Append(s, DQUOTE)
             v == Append(Append(u, QUOTE) \o escaped, QUOTE)
             p == [q EXCEPT !.quote = SPACE]
             mid == <<QUOTE>> \o escaped \o <<QUOTE>>
  <2>1. u \in Text
    BY JoinStep, SpecialChars
  <2>2. SplitChar(q, DQUOTE) = p
    BY <1>1, <1>8 DEF SplitChar, Splits, SPACE, QUOTE, DQUOTE, BACKSLASH
  <2>3. Split(u) = p
    BY <2>2, SplitStep, SpecialChars
  <2>4. p \in Splits /\ Outside(p)
    BY <1>1 DEF Splits, Outside
  <2> HIDE DEF u
  <2>5. Split(v) = [p EXCEPT !.word = @ \o t, !.begun = TRUE] /\ v = u \o mid /\ v \in Text
    <3> HIDE DEF v, p
    <3> QED BY <1>5, <2>1, <2>3, <2>4 DEF v
  <2> DEFINE p2 == [p EXCEPT !.word = @ \o t, !.begun = TRUE]
  <2>6. SplitChar(p2, DQUOTE) = read
    <3>1. /\ p2 \in Splits /\ p2.quote = SPACE /\ p2.escape = FALSE /\ p2.begun = TRUE
          /\ p2.words = q.words /\ p2.word = q.word \o t
      BY <1>1, <1>3 DEF Splits
    <3>2. /\ read \in Splits /\ read.quote = DQUOTE /\ read.escape = FALSE /\ read.begun = TRUE
          /\ read.words = q.words /\ read.word = q.word \o t
      BY <1>1, <1>3, <1>8 DEF Splits
    <3> HIDE DEF p2, read
    <3> DEFINE r == [p2 EXCEPT !.quote = DQUOTE, !.begun = TRUE]
    <3>3. SplitChar(p2, DQUOTE) = r
      BY <3>1 DEF SplitChar, Splits, SPACE, QUOTE, DQUOTE, BACKSLASH
    <3>4. /\ r \in Splits /\ r.quote = DQUOTE /\ r.escape = FALSE /\ r.begun = TRUE
          /\ r.words = p2.words /\ r.word = p2.word
      BY <3>1 DEF Splits
    <3> HIDE DEF r
    <3>5. /\ r.words = read.words /\ r.word = read.word /\ r.begun = read.begun
          /\ r.escape = read.escape /\ r.quote = read.quote
      BY <3>1, <3>2, <3>4
    <3>6. r = read
      BY <3>2, <3>4, <3>5, SplitsEqual
    <3> QED BY <3>3, <3>6
  <2>7. Split(Append(v, DQUOTE)) = read
    <3> HIDE DEF v
    <3> QED BY <2>5, <2>6, SplitStep, SpecialChars
  <2>8. QuotedWord(t, FALSE, TRUE) = <<DQUOTE, QUOTE>> \o escaped \o <<QUOTE, DQUOTE>>
    BY DEF QuotedWord, escaped, EscapedQuote
  <2>9. s \o (<<DQUOTE, QUOTE>> \o escaped \o <<QUOTE, DQUOTE>>) = Append(v, DQUOTE)
    <3>1. u = s \o <<DQUOTE>>
      BY JoinStep, SpecialChars DEF u
    <3>2. v \in Text /\ v = u \o mid
      BY <2>5
    <3> HIDE DEF v
    <3>3. Append(v, DQUOTE) = v \o <<DQUOTE>>
      BY <3>2, JoinStep, SpecialChars
    <3>4. s \o (<<DQUOTE, QUOTE>> \o escaped \o <<QUOTE, DQUOTE>>) =
            ((s \o <<DQUOTE>>) \o mid) \o <<DQUOTE>>
      BY <1>2, Requoted
    <3> QED BY <3>1, <3>2, <3>3, <3>4
  <2> QED BY <1>4, <1>8, <2>7, <2>8, <2>9
<1> QED BY <1>1, <1>6, <1>7, <1>8 DEF Splits

\* Some letter in a line that is split stands for a name.
NamedWords(words, x, by) == [i \in 1..Len(words) |-> Replaced(words[i], x, by)]
Named(q, x, by) == [q EXCEPT !.words = NamedWords(@, x, by), !.word = Replaced(@, x, by)]

\* Words with the name in them are words, and as many,
LEMMA NamedWordsType ==
  ASSUME NEW x \in Chars, NEW by \in Text, NEW ws \in Seq(Text)
  PROVE  NamedWords(ws, x, by) \in Seq(Text) /\ Len(NamedWords(ws, x, by)) = Len(ws)
<1>1. Len(ws) \in Nat /\ \A i \in 1..Len(ws) : ws[i] \in Text
  BY ElementOfSeq, LenProperties
<1>2. \A i \in 1..Len(ws) : Replaced(ws[i], x, by) \in Text
  BY <1>1, ReplacedStep
<1> QED BY <1>1, <1>2 DEF NamedWords

\* and one more is one more.
LEMMA NamedWordsStep ==
  ASSUME NEW x \in Chars, NEW by \in Text, NEW ws \in Seq(Text), NEW w \in Text
  PROVE  NamedWords(Append(ws, w), x, by) = Append(NamedWords(ws, x, by), Replaced(w, x, by))
<1> DEFINE us == Append(ws, w)
           p == NamedWords(ws, x, by)
           q == NamedWords(us, x, by)
           e == Replaced(w, x, by)
<1>1. /\ us \in Seq(Text) /\ Len(us) = Len(ws) + 1 /\ Len(ws) \in Nat
      /\ us[Len(ws) + 1] = w /\ \A i \in 1..Len(ws) : us[i] = ws[i]
  BY AppendProperties, LenProperties
<1>2. p \in Seq(Text) /\ Len(p) = Len(ws) /\ e \in Text
  BY NamedWordsType, ReplacedStep
<1> HIDE DEF us
<1>3. q \in Seq(Text) /\ Len(q) = Len(ws) + 1
  BY <1>1, NamedWordsType
<1>4. /\ \A i \in 1..Len(ws) : q[i] = p[i]
      /\ q[Len(ws) + 1] = e
  BY <1>1 DEF NamedWords
<1> HIDE DEF p, q, e
<1>5. q = Append(p, e)
  BY <1>2, <1>3, <1>4, Appended
<1> QED BY <1>5 DEF p, q, e, us

\* So is what has become of the line; only the texts differ.
LEMMA NamedType ==
  ASSUME NEW x \in Chars, NEW by \in Text, NEW q \in Splits
  PROVE  /\ Named(q, x, by) \in Splits
         /\ Named(q, x, by).words = NamedWords(q.words, x, by)
         /\ Named(q, x, by).word = Replaced(q.word, x, by)
         /\ Named(q, x, by).begun = q.begun /\ Named(q, x, by).escape = q.escape
         /\ Named(q, x, by).quote = q.quote
<1>1. q.words \in Seq(Text) /\ q.word \in Text
  BY DEF Splits
<1>2. NamedWords(q.words, x, by) \in Seq(Text) /\ Replaced(q.word, x, by) \in Text
  BY <1>1, NamedWordsType, ReplacedStep
<1> QED BY <1>1, <1>2 DEF Named, Splits

\* A word that ends is ended before or after the letter became a name.
LEMMA NamedEndWord ==
  ASSUME NEW x \in Chars, NEW by \in Text, NEW q \in Splits
  PROVE  EndWord(Named(q, x, by)) = Named(EndWord(q), x, by)
<1> DEFINE p == Named(q, x, by)
           e == EndWord(q)
<1>1. /\ p \in Splits /\ p.words = NamedWords(q.words, x, by)
      /\ p.word = Replaced(q.word, x, by)
      /\ p.begun = q.begun /\ p.escape = q.escape /\ p.quote = q.quote
  BY NamedType
<1>2. CASE ~ q.begun
  BY <1>1, <1>2 DEF EndWord
<1>3. CASE q.begun
  <2>1. q.words \in Seq(Text) /\ q.word \in Text
    BY DEF Splits
  <2>2. /\ e \in Splits /\ e.words = Append(q.words, q.word) /\ e.word = <<>>
        /\ e.begun = FALSE /\ e.escape = q.escape /\ e.quote = q.quote
    BY <1>3, <2>1, Joined, AppendProperties DEF EndWord, Splits
  <2> DEFINE f == EndWord(p)
             g == Named(e, x, by)
  <2>3. /\ f \in Splits /\ f.words = Append(p.words, p.word) /\ f.word = <<>>
        /\ f.begun = FALSE /\ f.escape = q.escape /\ f.quote = q.quote
    <3>1. p.words \in Seq(Text) /\ p.word \in Text
      BY <1>1 DEF Splits
    <3> HIDE DEF p
    <3> QED BY <1>1, <1>3, <3>1, Joined, AppendProperties DEF EndWord, Splits
  <2> HIDE DEF e
  <2>4. /\ g \in Splits /\ g.words = NamedWords(e.words, x, by)
        /\ g.word = Replaced(e.word, x, by)
        /\ g.begun = e.begun /\ g.escape = e.escape /\ g.quote = e.quote
    BY <2>2, NamedType
  <2>5. NamedWords(e.words, x, by) = Append(NamedWords(q.words, x, by), Replaced(q.word, x, by))
    BY <2>1, <2>2, NamedWordsStep
  <2>6. Replaced(<<>>, x, by) = <<>>
    BY ReplacedStep
  <2> HIDE DEF f, g, p
  <2>7. f.words = g.words /\ f.word = g.word /\ f.begun = g.begun /\ f.escape = g.escape
        /\ f.quote = g.quote
    BY <1>1, <2>2, <2>3, <2>4, <2>5, <2>6
  <2>8. f = g
    BY <2>3, <2>4, <2>7, SplitsEqual
  <2> QED BY <2>8 DEF f, g, p, e
<1> QED BY <1>2, <1>3

\* What has the parts of the line with the name is that line.
LEMMA NamedIs ==
  ASSUME NEW x \in Chars, NEW by \in Text, NEW q \in Splits, NEW p \in Splits,
         p.words = NamedWords(q.words, x, by), p.word = Replaced(q.word, x, by),
         p.begun = q.begun, p.escape = q.escape, p.quote = q.quote
  PROVE  p = Named(q, x, by)
BY NamedType, SplitsEqual

\* A text is put into the word.
Put(q, t) == [q EXCEPT !.word = @ \o t, !.begun = TRUE, !.escape = FALSE]

\* A text becomes another at the end of the word when the letter becomes a name.
Becomes(q, t, u, x, by) == Replaced(q.word \o t, x, by) = Replaced(q.word, x, by) \o u

\* One is put there before, or the other after the letter became a name.
LEMMA NamedPut ==
  ASSUME NEW x \in Chars, NEW by \in Text, NEW q \in Splits, NEW t \in Text, NEW u \in Text,
         Becomes(q, t, u, x, by)
  PROVE  Put(Named(q, x, by), u) = Named(Put(q, t), x, by)
<1> DEFINE p == Named(q, x, by)
           f == Put(p, u)
           r == Put(q, t)
<1>1. /\ p \in Splits /\ p.words = NamedWords(q.words, x, by)
      /\ p.word = Replaced(q.word, x, by)
      /\ p.begun = q.begun /\ p.escape = q.escape /\ p.quote = q.quote
  BY NamedType
<1>2. q.word \o t \in Text /\ p.word \o u \in Text
  <2>1. q.word \in Text /\ p.word \in Text
    BY <1>1 DEF Splits
  <2> HIDE DEF p
  <2> QED BY <2>1, Joined
<1> HIDE DEF p
<1>3. /\ r \in Splits /\ r.words = q.words /\ r.word = q.word \o t /\ r.begun = TRUE
      /\ r.escape = FALSE /\ r.quote = q.quote
  BY <1>2 DEF Splits, Put
<1>4. /\ f \in Splits /\ f.words = p.words /\ f.word = p.word \o u /\ f.begun = TRUE
      /\ f.escape = FALSE /\ f.quote = p.quote
  BY <1>1, <1>2 DEF Splits, Put
<1> HIDE DEF f, r
<1>5. /\ f.words = NamedWords(r.words, x, by) /\ f.word = Replaced(r.word, x, by)
      /\ f.begun = r.begun /\ f.escape = r.escape /\ f.quote = r.quote
  BY <1>1, <1>3, <1>4 DEF Becomes
<1>6. f = Named(r, x, by)
  BY <1>3, <1>4, <1>5, NamedIs
<1> QED BY <1>6 DEF f, r, p

\* What is free of the letter is kept, wherever it stands.
LEMMA LettersKept ==
  ASSUME NEW x \in Chars, NEW by \in Text, NEW w \in Text
  PROVE  \A t \in Text :
           Free(t, {x}) => Replaced(w \o t, x, by) = Replaced(w, x, by) \o t
<1> DEFINE r == Replaced(w, x, by)
           S == {t \in Text : Free(t, {x}) => Replaced(w \o t, x, by) = r \o t}
<1>1. r \in Text
  BY ReplacedStep
<1> HIDE DEF r
<1>2. <<>> \in S
  BY <1>1, Joined, JoinStep, ConcatEmptySeq DEF r, Text
<1>3. ASSUME NEW t \in Text, NEW c \in Chars, t \in S, Free(Append(t, c), {x})
      PROVE  Replaced(w \o Append(t, c), x, by) = r \o Append(t, c)
  <2>1. Free(t, {x}) /\ c \in Chars \ {x}
    BY <1>3, FreeStep
  <2> DEFINE wt == w \o t
  <2>2. w \o t \in Text
    BY Joined
  <2>7. w \o Append(t, c) = Append(w \o t, c)
    BY JoinStep
  <2>5. r \o Append(t, c) = Append(r \o t, c)
    BY <1>1, JoinStep
  <2>3. Replaced(wt, x, by) = r \o t
    BY <1>3, <2>1
  <2>6. wt \in Text
    BY <2>2
  <2> HIDE DEF wt
  <2>4. Replaced(Append(wt, c), x, by) = Append(Replaced(wt, x, by), c)
    BY <2>1, <2>6, NotReplaced
  <2> QED BY <2>2, <2>3, <2>4, <2>5, <2>7 DEF wt
<1>4. \A t \in Seq(Chars), c \in Chars : t \in S => Append(t, c) \in S
  BY <1>3, JoinStep DEF Text
<1> HIDE DEF S
<1>5. Seq(Chars) \subseteq S
  BY <1>2, <1>4, Growing
<1> QED BY <1>5 DEF Text, S, r

\* A text without the letter is put there before or after as well,
LEMMA NamedKept ==
  ASSUME NEW x \in Chars, NEW by \in Text, NEW q \in Splits
  PROVE  \A t \in Text : Free(t, {x}) => Put(Named(q, x, by), t) = Named(Put(q, t), x, by)
<1> SUFFICES ASSUME NEW t \in Text, Free(t, {x})
             PROVE  Put(Named(q, x, by), t) = Named(Put(q, t), x, by)
  OBVIOUS
<1> DEFINE w == q.word
<1>1. w \in Text
  BY DEF Splits
<1> HIDE DEF w
<1>2. Replaced(w \o t, x, by) = Replaced(w, x, by) \o t
  BY <1>1, LettersKept
<1>3. Becomes(q, t, t, x, by)
  BY <1>2 DEF w, Becomes
<1> QED BY <1>3, NamedPut

\* and g_shell_parse_argv takes a character other than the letter before or after.
LEMMA NamedSplitChar ==
  ASSUME NEW x \in Chars \ Special, NEW by \in Text, NEW q \in Splits, NEW c \in Chars \ {x}
  PROVE  SplitChar(Named(q, x, by), c) = Named(SplitChar(q, c), x, by)
<1> DEFINE p == Named(q, x, by)
<1>1. /\ p \in Splits /\ p.words = NamedWords(q.words, x, by)
      /\ p.word = Replaced(q.word, x, by)
      /\ p.begun = q.begun /\ p.escape = q.escape /\ p.quote = q.quote
  BY NamedType
<1>2. q.word \in Text /\ p.word \in Text /\ BACKSLASH \in Chars \ {x}
      /\ Append(q.word, c) = q.word \o <<c>> /\ Append(p.word, c) = p.word \o <<c>>
      /\ <<c>> \in Text /\ <<BACKSLASH, c>> \in Text
  <2>1. q.word \in Text /\ p.word \in Text
    BY <1>1 DEF Splits
  <2>2. BACKSLASH \in Chars \ {x}
    BY SpecialChars DEF Special
  <2> HIDE DEF p
  <2>3. Append(q.word, c) = q.word \o <<c>> /\ Append(p.word, c) = p.word \o <<c>>
    BY <2>1, JoinStep
  <2>4. <<c>> \in Text /\ <<BACKSLASH, c>> \in Text
    BY <2>2 DEF Text
  <2> QED BY <2>1, <2>2, <2>3, <2>4
<1>3. /\ Put(p, <<c>>) = Named(Put(q, <<c>>), x, by)
       /\ Put(p, <<BACKSLASH, c>>) = Named(Put(q, <<BACKSLASH, c>>), x, by)
  <2>1. Free(<<c>>, {x}) /\ Free(<<BACKSLASH, c>>, {x})
    BY <1>2 DEF Free
  <2>2. x \in Chars
    OBVIOUS
  <2> QED BY <1>2, <2>1, <2>2, NamedKept
<1>4. EndWord(p) = Named(EndWord(q), x, by)
  BY NamedEndWord
<1>5. ASSUME NEW quote \in {SPACE, QUOTE, DQUOTE}, NEW begun \in BOOLEAN, NEW escape \in BOOLEAN
      PROVE  [p EXCEPT !.quote = quote, !.begun = begun, !.escape = escape] =
               Named([q EXCEPT !.quote = quote, !.begun = begun, !.escape = escape], x, by)
  <2> DEFINE f == [p EXCEPT !.quote = quote, !.begun = begun, !.escape = escape]
             r == [q EXCEPT !.quote = quote, !.begun = begun, !.escape = escape]
  <2> HIDE DEF p
  <2>1. /\ r \in Splits /\ r.words = q.words /\ r.word = q.word /\ r.begun = begun
        /\ r.escape = escape /\ r.quote = quote
    BY DEF Splits
  <2>2. /\ f \in Splits /\ f.words = p.words /\ f.word = p.word /\ f.begun = begun
        /\ f.escape = escape /\ f.quote = quote
    BY <1>1 DEF Splits
  <2> HIDE DEF f, r
  <2>3. f = Named(r, x, by)
    BY <1>1, <2>1, <2>2, NamedIs
  <2> QED BY <2>3 DEF f, r
<1> DEFINE Set(s, quote, begun, escape) ==
             [s EXCEPT !.quote = quote, !.begun = begun, !.escape = escape]
\* What a character does, of a line in either form
<1>6. ASSUME NEW s \in Splits, Append(s.word, c) = s.word \o <<c>>
      PROVE  /\ s.escape /\ s.quote = DQUOTE /\ c \notin {DQUOTE, BACKSLASH} =>
                  SplitChar(s, c) = Put(s, <<BACKSLASH, c>>)
             /\ s.escape /\ ~ (s.quote = DQUOTE /\ c \notin {DQUOTE, BACKSLASH}) =>
                  SplitChar(s, c) = Put(s, <<c>>)
             /\ ~ s.escape /\ c = BACKSLASH /\ s.quote # QUOTE =>
                  SplitChar(s, c) = Set(s, s.quote, s.begun, TRUE)
             /\ ~ s.escape /\ c = s.quote /\ c # SPACE =>
                  SplitChar(s, c) = Set(s, SPACE, s.begun, FALSE)
             /\ ~ s.escape /\ s.quote = SPACE /\ c \in {QUOTE, DQUOTE} =>
                  SplitChar(s, c) = Set(s, c, TRUE, FALSE)
             /\ ~ s.escape /\ s.quote = SPACE /\ c = SPACE => SplitChar(s, c) = EndWord(s)
             /\ ( /\ ~ s.escape /\ ~ (c = BACKSLASH /\ s.quote # QUOTE)
                  /\ ~ (c = s.quote /\ c # SPACE) /\ ~ (s.quote = SPACE /\ c \in {QUOTE, DQUOTE})
                  /\ ~ (s.quote = SPACE /\ c = SPACE) ) => SplitChar(s, c) = Put(s, <<c>>)
  <2> DEFINE put == [s EXCEPT !.word = Append(@, c), !.begun = TRUE, !.escape = FALSE]
  <2>0. /\ s.escape \in BOOLEAN /\ s.begun \in BOOLEAN /\ s.quote \in {SPACE, QUOTE, DQUOTE}
        /\ QUOTE # DQUOTE /\ QUOTE # SPACE /\ DQUOTE # SPACE
        /\ BACKSLASH \notin {QUOTE, DQUOTE, SPACE}
    BY DEF Splits, SPACE, QUOTE, DQUOTE, BACKSLASH
  <2>1. put = Put(s, <<c>>)
    BY <1>6 DEF Put
  <2>2. ASSUME ~ s.escape
        PROVE  /\ [s EXCEPT !.escape = TRUE] = Set(s, s.quote, s.begun, TRUE)
               /\ [s EXCEPT !.quote = SPACE] = Set(s, SPACE, s.begun, FALSE)
               /\ [s EXCEPT !.quote = c, !.begun = TRUE] = Set(s, c, TRUE, FALSE)
    BY <2>0, <2>2 DEF Splits
  <2>3. s.escape /\ s.quote = DQUOTE /\ c \notin {DQUOTE, BACKSLASH} =>
          SplitChar(s, c) = Put(s, <<BACKSLASH, c>>)
    BY <2>0 DEF SplitChar, Splits, Put
  <2>4. s.escape /\ ~ (s.quote = DQUOTE /\ c \notin {DQUOTE, BACKSLASH}) =>
          SplitChar(s, c) = Put(s, <<c>>)
    BY <2>0, <2>1 DEF SplitChar
  <2>5. ~ s.escape /\ c = BACKSLASH /\ s.quote # QUOTE =>
          SplitChar(s, c) = Set(s, s.quote, s.begun, TRUE)
    BY <2>0, <2>2 DEF SplitChar
  <2>6. ~ s.escape /\ c = s.quote /\ c # SPACE =>
          SplitChar(s, c) = Set(s, SPACE, s.begun, FALSE)
    BY <2>0, <2>2 DEF SplitChar
  <2>7. ~ s.escape /\ s.quote = SPACE /\ c \in {QUOTE, DQUOTE} =>
          SplitChar(s, c) = Set(s, c, TRUE, FALSE)
    BY <2>0, <2>2 DEF SplitChar
  <2>8. ~ s.escape /\ s.quote = SPACE /\ c = SPACE => SplitChar(s, c) = EndWord(s)
    BY <2>0 DEF SplitChar
  <2>9. ( /\ ~ s.escape /\ ~ (c = BACKSLASH /\ s.quote # QUOTE)
          /\ ~ (c = s.quote /\ c # SPACE) /\ ~ (s.quote = SPACE /\ c \in {QUOTE, DQUOTE})
          /\ ~ (s.quote = SPACE /\ c = SPACE) ) => SplitChar(s, c) = Put(s, <<c>>)
    <3> SUFFICES ASSUME /\ ~ s.escape /\ ~ (c = BACKSLASH /\ s.quote # QUOTE)
                        /\ ~ (c = s.quote /\ c # SPACE)
                        /\ ~ (s.quote = SPACE /\ c \in {QUOTE, DQUOTE})
                        /\ ~ (s.quote = SPACE /\ c = SPACE)
                 PROVE  SplitChar(s, c) = Put(s, <<c>>)
      OBVIOUS
    <3>1. SplitChar(s, c) = put
      BY <2>0 DEF SplitChar
    <3> HIDE DEF put
    <3> QED BY <2>1, <3>1
  <2> HIDE DEF put, Set
  <2> QED BY <2>3, <2>4, <2>5, <2>6, <2>7, <2>8, <2>9
<1>7. /\ q.escape \in BOOLEAN /\ q.begun \in BOOLEAN /\ q.quote \in {SPACE, QUOTE, DQUOTE}
      /\ SPACE \in {SPACE, QUOTE, DQUOTE}
  BY DEF Splits
<1>8. \A quote \in {SPACE, QUOTE, DQUOTE}, begun, escape \in BOOLEAN :
        Set(p, quote, begun, escape) = Named(Set(q, quote, begun, escape), x, by)
  <2> HIDE DEF p
  <2> QED BY <1>5 DEF p
<1> HIDE DEF p, Set
<1> USE <1>1, <1>2, <1>3, <1>6, <1>7, <1>8
<1>9. CASE q.escape
  BY <1>9 DEF p
<1>10. CASE ~ q.escape /\ c = BACKSLASH /\ q.quote # QUOTE
  <2>1. SplitChar(q, c) = Set(q, q.quote, q.begun, TRUE)
    BY <1>10
  <2>2. SplitChar(p, c) = Set(p, q.quote, q.begun, TRUE)
    BY <1>10
  <2>3. Set(p, q.quote, q.begun, TRUE) = Named(Set(q, q.quote, q.begun, TRUE), x, by)
    OBVIOUS
  <2> QED BY <2>1, <2>2, <2>3 DEF p
<1>11. CASE ~ q.escape /\ c = q.quote /\ c # SPACE
  <2>1. SplitChar(q, c) = Set(q, SPACE, q.begun, FALSE)
    BY <1>11
  <2>2. SplitChar(p, c) = Set(p, SPACE, q.begun, FALSE)
    BY <1>11
  <2>3. Set(p, SPACE, q.begun, FALSE) = Named(Set(q, SPACE, q.begun, FALSE), x, by)
    OBVIOUS
  <2> QED BY <2>1, <2>2, <2>3 DEF p
<1>12. CASE ~ q.escape /\ q.quote = SPACE /\ c \in {QUOTE, DQUOTE}
  BY <1>12 DEF p
<1>13. CASE ~ q.escape /\ q.quote = SPACE /\ c = SPACE
  BY <1>4, <1>13 DEF p
<1>14. CASE /\ ~ q.escape /\ ~ (c = BACKSLASH /\ q.quote # QUOTE)
            /\ ~ (c = q.quote /\ c # SPACE) /\ ~ (q.quote = SPACE /\ c \in {QUOTE, DQUOTE})
            /\ ~ (q.quote = SPACE /\ c = SPACE)
  BY <1>14 DEF p
<1> QED BY <1>9, <1>10, <1>11, <1>12, <1>13, <1>14

\* do_parse_exec is in the same quotes as g_shell_parse_argv of what it has put out.
Aligned(p, q) ==
  /\ p.single = (q.quote = QUOTE) /\ p.double = (q.quote = DQUOTE)
  /\ p.escape = q.escape
  /\ p.code => ~ p.escape
  /\ q.quote # SPACE => q.begun

\* They stay so over a character that is no code,
LEMMA AlignedChar ==
  ASSUME NEW p \in Parses, NEW q \in Splits, Aligned(p, q), ~ p.code, NEW c \in Chars,
         NEW file, p.escape \/ c # PERCENT
  PROVE  Aligned(ParseChar(p, c, file), SplitChar(q, c))
<1>1. /\ p.single \in BOOLEAN /\ p.double \in BOOLEAN /\ p.escape \in BOOLEAN
      /\ q.escape \in BOOLEAN /\ q.begun \in BOOLEAN /\ q.quote \in {SPACE, QUOTE, DQUOTE}
      /\ p.escape = q.escape /\ p.code = FALSE
  BY DEF Parses, Splits, Aligned
<1>2. /\ QUOTE # DQUOTE /\ QUOTE # SPACE /\ DQUOTE # SPACE
      /\ BACKSLASH \notin {QUOTE, DQUOTE, SPACE, PERCENT} /\ PERCENT \notin {QUOTE, DQUOTE, SPACE}
  BY DEF SPACE, QUOTE, DQUOTE, BACKSLASH, PERCENT
<1> DEFINE a == ParseChar(p, c, file)
           b == SplitChar(q, c)
<1>3. CASE p.escape
  <2>1. a.single = p.single /\ a.double = p.double /\ a.escape = FALSE /\ a.code = FALSE
    BY <1>1, <1>3 DEF ParseChar, Parses
  <2>2. b.quote = q.quote /\ b.escape = FALSE /\ b.begun = TRUE
    BY <1>1, <1>3 DEF SplitChar, Splits
  <2> HIDE DEF a, b
  <2>3. Aligned(a, b)
    BY <2>1, <2>2 DEF Aligned
  <2> QED BY <2>3 DEF a, b
<1>4. CASE ~ p.escape /\ c = BACKSLASH
  <2>1. a.single = p.single /\ a.double = p.double /\ a.escape = ~ p.single /\ a.code = FALSE
    BY <1>1, <1>2, <1>4 DEF ParseChar, Parses
  <2>2. CASE q.quote = QUOTE
    <3>1. b.quote = q.quote /\ b.escape = FALSE /\ b.begun = TRUE
      BY <1>1, <1>2, <1>4, <2>2 DEF SplitChar, Splits
    <3>2. p.single = TRUE
      BY <1>1, <2>2 DEF Aligned
    <3> HIDE DEF a, b
    <3>3. Aligned(a, b)
      BY <2>1, <3>1, <3>2 DEF Aligned
    <3> QED BY <3>3 DEF a, b
  <2>3. CASE q.quote # QUOTE
    <3>1. b.quote = q.quote /\ b.escape = TRUE /\ b.begun = q.begun
      BY <1>1, <1>2, <1>4, <2>3 DEF SplitChar, Splits
    <3>2. p.single = FALSE
      BY <1>1, <2>3 DEF Aligned
    <3> HIDE DEF a, b
    <3>3. Aligned(a, b)
      BY <2>1, <3>1, <3>2 DEF Aligned
    <3> QED BY <3>3 DEF a, b
  <2> QED BY <2>2, <2>3
<1>5. CASE ~ p.escape /\ c \in {QUOTE, DQUOTE}
  <2>1. /\ a.single = (IF c = QUOTE THEN ~ p.single /\ ~ p.double ELSE p.single)
        /\ a.double = (IF c = DQUOTE THEN ~ p.single /\ ~ p.double ELSE p.double)
        /\ a.escape = FALSE /\ a.code = FALSE
    BY <1>1, <1>2, <1>5 DEF ParseChar, Parses
  <2>2. CASE q.quote = c
    <3>1. b.quote = SPACE /\ b.escape = FALSE
      BY <1>1, <1>2, <1>5, <2>2 DEF SplitChar, Splits
    <3>2. /\ p.single = (c = QUOTE) /\ p.double = (c = DQUOTE)
      BY <2>2 DEF Aligned
    <3> HIDE DEF a, b
    <3>3. a.single = FALSE /\ a.double = FALSE
      BY <1>2, <1>5, <2>1, <3>2
    <3>4. Aligned(a, b)
      BY <1>2, <2>1, <3>1, <3>3 DEF Aligned
    <3> QED BY <3>4 DEF a, b
  <2>3. CASE q.quote = SPACE
    <3>1. b.quote = c /\ b.escape = FALSE /\ b.begun = TRUE
      BY <1>1, <1>2, <1>5, <2>3 DEF SplitChar, Splits
    <3>2. p.single = FALSE /\ p.double = FALSE
      BY <1>1, <1>2, <2>3 DEF Aligned
    <3> HIDE DEF a, b
    <3>3. a.single = (c = QUOTE) /\ a.double = (c = DQUOTE)
      BY <1>2, <1>5, <2>1, <3>2
    <3>4. Aligned(a, b)
      BY <2>1, <3>1, <3>3 DEF Aligned
    <3> QED BY <3>4 DEF a, b
  <2>4. CASE q.quote \notin {SPACE, c}
    <3>1. b.quote = q.quote /\ b.escape = FALSE /\ b.begun = TRUE
      BY <1>1, <1>2, <1>5, <2>4 DEF SplitChar, Splits
    <3>2. /\ p.single = (c = DQUOTE) /\ p.double = (c = QUOTE)
          /\ (q.quote = QUOTE) = (c = DQUOTE) /\ (q.quote = DQUOTE) = (c = QUOTE)
      BY <1>1, <1>2, <1>5, <2>4 DEF Aligned
    <3> HIDE DEF a, b
    <3>3. a.single = (c = DQUOTE) /\ a.double = (c = QUOTE)
      BY <1>2, <1>5, <2>1, <3>2
    <3>4. Aligned(a, b)
      BY <2>1, <3>1, <3>2, <3>3 DEF Aligned
    <3> QED BY <3>4 DEF a, b
  <2> QED BY <2>2, <2>3, <2>4
<1>6. CASE ~ p.escape /\ c \notin {BACKSLASH, QUOTE, DQUOTE}
  <2>1. a.single = p.single /\ a.double = p.double /\ a.escape = FALSE /\ a.code = FALSE
    BY <1>1, <1>2, <1>6 DEF ParseChar, Parses
  <2>2. b.quote = q.quote /\ b.escape = FALSE /\ (q.begun => b.begun \/ q.quote = SPACE)
    <3>1. CASE c = SPACE /\ q.quote = SPACE
      BY <1>1, <1>2, <1>6, <3>1 DEF SplitChar, Splits, EndWord
    <3>2. CASE ~ (c = SPACE /\ q.quote = SPACE)
      BY <1>1, <1>2, <1>6, <3>2 DEF SplitChar, Splits
    <3> QED BY <3>1, <3>2
  <2> HIDE DEF a, b
  <2>3. Aligned(a, b)
    BY <2>1, <2>2 DEF Aligned
  <2> QED BY <2>3 DEF a, b
<1> QED BY <1>3, <1>4, <1>5, <1>6

\* Two states of do_parse_exec in the same place of the line
Alike(p, o) ==
  p.code = o.code /\ p.escape = o.escape /\ p.single = o.single /\ p.double = o.double

\* What they have put out is split alike, but for the letter that is a name in one.
NamedAlike(p, o, x, by) ==
  /\ p \in Parses /\ o \in Parses
  /\ Alike(p, o)
  /\ Aligned(p, Split(p.out))
  /\ Split(o.out) = Named(Split(p.out), x, by)

\* append_quoted_word in the quotes that do_parse_exec knows of
LEMMA QuotedWordPut ==
  ASSUME NEW p \in Parses, NEW t \in Text, NEW q \in Splits, q = Split(p.out),
         Aligned(p, q), p.code
  PROVE  /\ Split(p.out \o QuotedWord(t, p.single, p.double)) = Put(q, t)
         /\ Put(q, t) \in Splits
         /\ Put(q, t).quote = q.quote /\ Put(q, t).escape = q.escape /\ Put(q, t).begun = TRUE
<1> DEFINE s == p.out
<1>1. s \in Text /\ q.word \in Text /\ q.escape = FALSE
  BY DEF Parses, Splits, Aligned
<1>2. q.word \o t \in Text
  <2> DEFINE w == q.word
  <2>1. w \in Text
    BY <1>1
  <2> HIDE DEF w
  <2>2. w \o t \in Text
    BY <2>1, Joined
  <2> QED BY <2>2 DEF w
<1>3. Put(q, t) = [q EXCEPT !.word = @ \o t, !.begun = TRUE]
  BY <1>1, <1>2 DEF Put, Splits
<1>4. p.single = (q.quote = QUOTE) /\ p.double = (q.quote = DQUOTE)
      /\ (q.quote # SPACE => q.begun) /\ q = Split(s)
  BY DEF Aligned
<1> HIDE DEF s
<1>5. Split(s \o QuotedWord(t, Split(s).quote = QUOTE, Split(s).quote = DQUOTE)) =
        [Split(s) EXCEPT !.word = @ \o t, !.begun = TRUE]
  <2>1. s \in Text /\ ~ Split(s).escape /\ (Split(s).quote # SPACE => Split(s).begun)
    BY <1>1, <1>4
  <2> QED BY <2>1, QuotedWordRead
<1>6. Split(s \o QuotedWord(t, p.single, p.double)) = Put(q, t)
  BY <1>3, <1>4, <1>5
<1>7. /\ Put(q, t) \in Splits
      /\ Put(q, t).quote = q.quote /\ Put(q, t).escape = q.escape /\ Put(q, t).begun = TRUE
  BY <1>1, <1>2 DEF Put, Splits
<1> QED BY <1>6, <1>7 DEF s

\* append_quoted_word of the letter in one line, and of the name in the other
LEMMA NamedCode ==
  ASSUME NEW x \in Chars \ Special, NEW by \in Text, NEW p, NEW o, NamedAlike(p, o, x, by),
         NEW t \in Text, NEW u \in Text, Becomes(Split(p.out), t, u, x, by), p.code
  PROVE  NamedAlike([p EXCEPT !.out = @ \o QuotedWord(t, p.single, p.double), !.code = FALSE],
                    [o EXCEPT !.out = @ \o QuotedWord(u, o.single, o.double), !.code = FALSE],
                    x, by)
<1> DEFINE q == Split(p.out)
           r == Split(o.out)
           a == [p EXCEPT !.out = @ \o QuotedWord(t, p.single, p.double), !.code = FALSE]
           b == [o EXCEPT !.out = @ \o QuotedWord(u, o.single, o.double), !.code = FALSE]
<1> HIDE DEF a, b
<1>1. /\ p \in Parses /\ o \in Parses /\ Alike(p, o) /\ Aligned(p, q) /\ r = Named(q, x, by)
      /\ p.out \in Text /\ o.out \in Text /\ x \in Chars
  BY DEF NamedAlike, Parses
<1>2. q \in Splits /\ r \in Splits
  <2> DEFINE s == p.out
             v == o.out
  <2>1. s \in Text /\ v \in Text
    BY <1>1
  <2> HIDE DEF s, v
  <2>2. Split(s) \in Splits /\ Split(v) \in Splits
    BY <2>1, SplitIs
  <2> QED BY <2>2 DEF s, v
<1>3. Aligned(o, r) /\ o.code
  <2>1. r.quote = q.quote /\ r.escape = q.escape /\ r.begun = q.begun
    BY <1>1, <1>2, NamedType
  <2> HIDE DEF q, r
  <2> QED BY <1>1, <2>1 DEF Aligned, Alike
<1>4. Becomes(q, t, u, x, by)
  OBVIOUS
<1> DEFINE y == QuotedWord(t, p.single, p.double)
           z == QuotedWord(u, o.single, o.double)
<1>5. /\ Split(p.out \o y) = Put(q, t) /\ Put(q, t) \in Splits
      /\ Put(q, t).quote = q.quote /\ Put(q, t).escape = q.escape /\ Put(q, t).begun = TRUE
  <2>1. q = Split(p.out)
    OBVIOUS
  <2> HIDE DEF q
  <2> QED BY <1>1, <1>2, <2>1, QuotedWordPut
<1>6. Split(o.out \o z) = Put(r, u)
  <2>1. r = Split(o.out)
    OBVIOUS
  <2> HIDE DEF r
  <2> QED BY <1>1, <1>2, <1>3, <2>1, QuotedWordPut
<1> HIDE DEF q, r
<1>7. Put(r, u) = Named(Put(q, t), x, by)
  <2>1. x \in Chars /\ q \in Splits
    BY <1>1, <1>2
  <2>2. Put(Named(q, x, by), u) = Named(Put(q, t), x, by)
    BY <1>4, <2>1, NamedPut
  <2> QED BY <1>1, <2>2
<1>8. y \in Text /\ z \in Text
  <2>1. /\ p.single \in BOOLEAN /\ p.double \in BOOLEAN /\ o.single \in BOOLEAN
        /\ o.double \in BOOLEAN
    BY <1>1 DEF Parses
  <2> QED BY <2>1, QuotedWordType
<1>9. p.out \o y \in Text /\ o.out \o z \in Text
  <2> DEFINE s == p.out
             v == o.out
  <2>1. s \in Text /\ v \in Text
    BY <1>1
  <2> HIDE DEF s, v, y, z
  <2>2. s \o y \in Text /\ v \o z \in Text
    BY <1>8, <2>1, Joined
  <2> QED BY <2>2 DEF s, v
<1> HIDE DEF y, z
<1>10. /\ a \in Parses /\ a.out = p.out \o y /\ a.code = FALSE /\ a.escape = p.escape
       /\ a.single = p.single /\ a.double = p.double
       /\ b \in Parses /\ b.out = o.out \o z /\ b.code = FALSE /\ b.escape = o.escape
       /\ b.single = o.single /\ b.double = o.double
  BY <1>1, <1>9 DEF a, b, y, z, Parses
<1>11. Aligned(a, Put(q, t))
  BY <1>1, <1>5, <1>10 DEF Aligned
<1>12. Alike(a, b)
  BY <1>1, <1>10 DEF Alike
<1>13. Split(b.out) = Named(Split(a.out), x, by) /\ Split(a.out) = Put(q, t)
  BY <1>5, <1>6, <1>7, <1>10
<1>14. NamedAlike(a, b, x, by)
  BY <1>1, <1>10, <1>11, <1>12, <1>13 DEF NamedAlike
<1> QED BY <1>14 DEF a, b

\* A file in which the name is a letter, and one in which it is a name
LetterFile(x) == [i |-> None, c |-> Append(<<>>, x), k |-> <<"k">>]
NameFile(by) == [i |-> None, c |-> by, k |-> <<"k">>]

\* Both are files of which parse_exec can be asked.
LEMMA FilesAre ==
  ASSUME NEW x \in Chars, NEW by \in Text
  PROVE  /\ LetterFile(x) \in KeyFiles /\ NameFile(by) \in KeyFiles
         /\ LetterFile(x)["c"] = Append(<<>>, x) /\ NameFile(by)["c"] = by
         /\ LetterFile(x)["k"] = <<"k">> /\ NameFile(by)["k"] = <<"k">>
         /\ LetterFile(x).i = <<>> /\ NameFile(by).i = <<>>
         /\ <<"k">> \in Text /\ Append(<<>>, x) \in Text
<1>1. <<"k">> \in Text
  BY DEF Text, Chars
<1>2. Append(<<>>, x) \in Text
  BY JoinStep, Joined
<1> QED BY <1>1, <1>2 DEF LetterFile, NameFile, KeyFiles, None

\* What do_percent_subst puts out for a code
LEMMA CodeIs ==
  ASSUME NEW p, NEW c, NEW file, file.i = <<>>
  PROVE  /\ c \in {"c", "k"} =>
              PercentSubst(p, c, file) = QuotedWord(file[c], p.single, p.double)
         /\ c = PERCENT => PercentSubst(p, c, file) = <<PERCENT>>
         /\ c \notin {"c", "k", PERCENT} => PercentSubst(p, c, file) = <<>>
BY DEF PercentSubst, PERCENT

\* A text that is free of the letter is kept behind any other.
LEMMA FreeBecomes ==
  ASSUME NEW x \in Chars, NEW by \in Text, NEW q \in Splits, NEW t \in Text, Free(t, {x})
  PROVE  Becomes(q, t, t, x, by)
<1> DEFINE w == q.word
<1>1. w \in Text
  BY DEF Splits
<1> HIDE DEF w
<1>2. Replaced(w \o t, x, by) = Replaced(w, x, by) \o t
  BY <1>1, LettersKept
<1> QED BY <1>2 DEF w, Becomes

\* The letter becomes the name behind any text.
LEMMA LetterBecomes ==
  ASSUME NEW x \in Chars, NEW by \in Text, NEW q \in Splits
  PROVE  Becomes(q, Append(<<>>, x), by, x, by)
<1> DEFINE w == q.word
<1>1. w \in Text
  BY DEF Splits
<1> HIDE DEF w
<1>2. w \o Append(<<>>, x) = Append(w, x)
  <2>1. w \o Append(<<>>, x) = Append(w \o <<>>, x) /\ w \o <<>> = w
    BY <1>1, Joined, JoinStep
  <2> QED BY <2>1
<1>3. Replaced(Append(w, x), x, by) = Replaced(w, x, by) \o by
  BY <1>1, ReplacedStep
<1> QED BY <1>2, <1>3 DEF w, Becomes

\* A code is put out for the letter in one line, for the name in the other.
LEMMA NamedParseCode ==
  ASSUME NEW x \in Chars \ Special, x # "k", NEW by \in Text, NEW p, NEW o,
         NamedAlike(p, o, x, by), p.code, NEW c \in {"c", "k"}
  PROVE  NamedAlike(ParseChar(p, c, LetterFile(x)), ParseChar(o, c, NameFile(by)), x, by)
<1> DEFINE t == LetterFile(x)[c]
           u == NameFile(by)[c]
           q == Split(p.out)
<1>1. /\ p \in Parses /\ o \in Parses /\ p.out \in Text /\ o.code /\ x \in Chars
  BY DEF NamedAlike, Parses, Alike
<1>2. q \in Splits
  <2> DEFINE s == p.out
  <2>1. s \in Text
    BY <1>1
  <2> HIDE DEF s
  <2>2. Split(s) \in Splits
    BY <2>1, SplitIs
  <2> QED BY <2>2 DEF s
<1> HIDE DEF q
<1>3. t \in Text /\ u \in Text
  BY <1>1, FilesAre
<1>4. Becomes(q, t, u, x, by)
  <2>1. CASE c = "c"
    <3>1. t = Append(<<>>, x) /\ u = by
      BY <1>1, <2>1, FilesAre
    <3> HIDE DEF t, u
    <3>2. Becomes(q, Append(<<>>, x), by, x, by)
      BY <1>1, <1>2, LetterBecomes
    <3> QED BY <3>1, <3>2
  <2>2. CASE c = "k"
    <3>1. t = <<"k">> /\ u = <<"k">>
      BY <1>1, <2>2, FilesAre
    <3>2. Free(<<"k">>, {x})
      BY DEF Free
    <3> HIDE DEF t, u
    <3>3. Free(t, {x}) /\ t = u
      BY <3>1, <3>2
    <3>4. Becomes(q, t, t, x, by)
      BY <1>1, <1>2, <1>3, <3>3, FreeBecomes
    <3> QED BY <3>3, <3>4
  <2> QED BY <2>1, <2>2
<1>5. /\ ParseChar(p, c, LetterFile(x)) =
           [p EXCEPT !.out = @ \o QuotedWord(t, p.single, p.double), !.code = FALSE]
      /\ ParseChar(o, c, NameFile(by)) =
           [o EXCEPT !.out = @ \o QuotedWord(u, o.single, o.double), !.code = FALSE]
  <2>1. /\ PercentSubst(p, c, LetterFile(x)) = QuotedWord(t, p.single, p.double)
        /\ PercentSubst(o, c, NameFile(by)) = QuotedWord(u, o.single, o.double)
    <3>1. LetterFile(x).i = <<>> /\ NameFile(by).i = <<>>
      BY <1>1, FilesAre
    <3> QED BY <3>1, CodeIs
  <2> HIDE DEF t, u
  <2> QED BY <1>1, <2>1 DEF ParseChar
<1> HIDE DEF t, u
<1>6. Becomes(Split(p.out), t, u, x, by)
  BY <1>4 DEF q
<1>7. NamedAlike([p EXCEPT !.out = @ \o QuotedWord(t, p.single, p.double), !.code = FALSE],
                 [o EXCEPT !.out = @ \o QuotedWord(u, o.single, o.double), !.code = FALSE],
                 x, by)
  BY <1>3, <1>6, NamedCode
<1> QED BY <1>5, <1>7

\* A character is put out as it is.
LEMMA NamedParsePut ==
  ASSUME NEW x \in Chars \ Special, NEW by \in Text, NEW p, NEW o,
         NamedAlike(p, o, x, by), NEW c \in Chars \ {x},
         NEW a \in Parses, NEW b \in Parses, Alike(a, b),
         a.out = Append(p.out, c), b.out = Append(o.out, c),
         Aligned(a, SplitChar(Split(p.out), c))
  PROVE  NamedAlike(a, b, x, by)
<1> DEFINE s == p.out
           v == o.out
<1>1. s \in Text /\ v \in Text /\ Split(v) = Named(Split(s), x, by)
  BY DEF NamedAlike, Parses
<1>2. a.out = Append(s, c) /\ b.out = Append(v, c) /\ Aligned(a, SplitChar(Split(s), c))
  OBVIOUS
<1> HIDE DEF s, v
<1>3. Split(a.out) = SplitChar(Split(s), c) /\ Split(b.out) = SplitChar(Split(v), c)
  BY <1>1, <1>2, SplitStep
<1>4. SplitChar(Named(Split(s), x, by), c) = Named(SplitChar(Split(s), c), x, by)
  <2>1. Split(s) \in Splits
    BY <1>1, SplitIs
  <2> QED BY <2>1, NamedSplitChar
<1> QED BY <1>1, <1>2, <1>3, <1>4 DEF NamedAlike

\* Every character but the letter is taken alike.
LEMMA NamedStep ==
  ASSUME NEW x \in Chars \ Special, x # "k", NEW by \in Text, NEW p, NEW o,
         NamedAlike(p, o, x, by), NEW c \in Chars \ {x}
  PROVE  NamedAlike(ParseChar(p, c, LetterFile(x)), ParseChar(o, c, NameFile(by)), x, by)
<1> DEFINE a == ParseChar(p, c, LetterFile(x))
           b == ParseChar(o, c, NameFile(by))
           q == Split(p.out)
<1>1. /\ p \in Parses /\ o \in Parses /\ p.out \in Text /\ o.out \in Text /\ x \in Chars
      /\ Alike(p, o) /\ Aligned(p, q) /\ q \in Splits
  <2> DEFINE s == p.out
  <2>1. /\ p \in Parses /\ o \in Parses /\ s \in Text /\ o.out \in Text
        /\ Alike(p, o) /\ Aligned(p, q)
    BY DEF NamedAlike, Parses
  <2> HIDE DEF s
  <2>2. Split(s) \in Splits
    BY <2>1, SplitIs
  <2> QED BY <2>1, <2>2 DEF s
<1>2. a \in Parses /\ b \in Parses
  BY <1>1, FilesAre, ParseCharType
<1>3. LetterFile(x).i = <<>> /\ NameFile(by).i = <<>>
  BY <1>1, FilesAre
<1>4. p.code = o.code /\ p.escape = o.escape /\ p.single = o.single /\ p.double = o.double
      /\ p.code \in BOOLEAN /\ p.escape \in BOOLEAN
  BY <1>1 DEF Alike, Parses
<1>5. CASE p.code /\ c \in {"c", "k"}
  BY <1>5, NamedParseCode
<1>6. CASE p.code /\ c \notin {"c", "k", PERCENT}
  <2>1. /\ PercentSubst(p, c, LetterFile(x)) = <<>> /\ PercentSubst(o, c, NameFile(by)) = <<>>
        /\ p.out \o <<>> = p.out /\ o.out \o <<>> = o.out
    BY <1>1, <1>3, <1>6, CodeIs, ConcatEmptySeq DEF Text
  <2>2. /\ a.out = p.out /\ a.code = FALSE /\ a.escape = p.escape /\ a.single = p.single
        /\ a.double = p.double
        /\ b.out = o.out /\ b.code = FALSE /\ b.escape = o.escape /\ b.single = o.single
        /\ b.double = o.double
    BY <1>1, <1>4, <1>6, <2>1 DEF ParseChar, Parses
  <2> HIDE DEF a, b
  <2>3. NamedAlike(a, b, x, by)
    BY <1>1, <1>2, <1>4, <2>2 DEF NamedAlike, Alike, Aligned
  <2> QED BY <2>3 DEF a, b
<1>7. CASE p.code /\ c = PERCENT
  <2>1. /\ PercentSubst(p, c, LetterFile(x)) = <<PERCENT>>
        /\ PercentSubst(o, c, NameFile(by)) = <<PERCENT>>
    BY <1>3, <1>7, CodeIs
  <2>2. p.out \o <<PERCENT>> = Append(p.out, c) /\ o.out \o <<PERCENT>> = Append(o.out, c)
    BY <1>1, <1>7, AppendIsConcat, SpecialChars DEF Text
  <2>3. /\ a.out = Append(p.out, c) /\ a.code = FALSE /\ a.escape = p.escape
        /\ a.single = p.single /\ a.double = p.double
        /\ b.out = Append(o.out, c) /\ b.code = FALSE /\ b.escape = o.escape
        /\ b.single = o.single /\ b.double = o.double
    BY <1>1, <1>4, <1>7, <2>1, <2>2 DEF ParseChar, Parses
  <2> DEFINE r == SplitChar(q, c)
  <2>4. r.quote = q.quote /\ r.escape = FALSE /\ r.begun = TRUE /\ q.escape = FALSE
        /\ p.escape = FALSE
    <3>1. q.escape = FALSE /\ p.escape = FALSE
      BY <1>1, <1>4, <1>7 DEF Aligned
    <3> HIDE DEF q
    <3> QED BY <1>1, <1>7, <3>1
        DEF SplitChar, Splits, SPACE, QUOTE, DQUOTE, BACKSLASH, PERCENT
  <2> HIDE DEF a, b, r
  <2>5. Aligned(a, r)
    BY <1>1, <2>3, <2>4 DEF Aligned
  <2>6. Alike(a, b)
    BY <1>4, <2>3 DEF Alike
  <2>7. NamedAlike(a, b, x, by)
    BY <1>2, <2>3, <2>5, <2>6, NamedParsePut DEF r
  <2> QED BY <2>7 DEF a, b
<1>8. CASE ~ p.code /\ ~ p.escape /\ c = PERCENT
  <2>1. /\ a.out = p.out /\ a.code = TRUE /\ a.escape = p.escape /\ a.single = p.single
        /\ a.double = p.double
        /\ b.out = o.out /\ b.code = TRUE /\ b.escape = o.escape /\ b.single = o.single
        /\ b.double = o.double
    BY <1>1, <1>4, <1>8 DEF ParseChar, Parses, BACKSLASH, QUOTE, DQUOTE, PERCENT
  <2> HIDE DEF a, b
  <2>2. NamedAlike(a, b, x, by)
    BY <1>1, <1>2, <1>4, <1>8, <2>1 DEF NamedAlike, Alike, Aligned
  <2> QED BY <2>2 DEF a, b
<1>9. CASE ~ p.code /\ (p.escape \/ c # PERCENT)
  <2>1. a.out = Append(p.out, c) /\ b.out = Append(o.out, c)
    BY <1>1, <1>4, <1>9 DEF ParseChar, Parses
  <2>2. Alike(a, b)
    <3>1. /\ QUOTE # DQUOTE /\ BACKSLASH \notin {QUOTE, DQUOTE, PERCENT}
          /\ PERCENT \notin {QUOTE, DQUOTE}
      BY DEF QUOTE, DQUOTE, BACKSLASH, PERCENT
    <3>2. /\ p.code = FALSE /\ o.code = FALSE /\ o.escape = p.escape
          /\ p.single \in BOOLEAN /\ p.double \in BOOLEAN /\ p.escape \in BOOLEAN
          /\ o.single = p.single /\ o.double = p.double
      BY <1>1, <1>4, <1>9 DEF Parses
    <3>3. CASE p.escape
      BY <1>1, <3>1, <3>2, <3>3 DEF ParseChar, Parses, Alike
    <3>4. CASE ~ p.escape /\ c = BACKSLASH
      BY <1>1, <3>1, <3>2, <3>4 DEF ParseChar, Parses, Alike
    <3>5. CASE ~ p.escape /\ c = QUOTE
      BY <1>1, <3>1, <3>2, <3>5 DEF ParseChar, Parses, Alike
    <3>6. CASE ~ p.escape /\ c = DQUOTE
      BY <1>1, <3>1, <3>2, <3>6 DEF ParseChar, Parses, Alike
    <3>7. CASE ~ p.escape /\ c \notin {BACKSLASH, QUOTE, DQUOTE}
      BY <1>1, <1>9, <3>1, <3>2, <3>7 DEF ParseChar, Parses, Alike
    <3> QED BY <3>3, <3>4, <3>5, <3>6, <3>7
  <2>3. Aligned(a, SplitChar(q, c))
    BY <1>1, <1>9, AlignedChar
  <2> HIDE DEF a, b
  <2>4. NamedAlike(a, b, x, by)
    BY <1>2, <2>1, <2>2, <2>3, NamedParsePut
  <2> QED BY <2>4 DEF a, b
<1> QED BY <1>4, <1>5, <1>6, <1>7, <1>8, <1>9

\* The line is parsed alike for the letter and for the name.
LEMMA NamedParse ==
  ASSUME NEW x \in Chars \ Special, x # "k", NEW by \in Text
  PROVE  \A t \in Text : Free(t, {x}) =>
           NamedAlike(Parse(t, LetterFile(x)), Parse(t, NameFile(by)), x, by)
<1> DEFINE f == LetterFile(x)
           g == NameFile(by)
           S == {t \in Text : Free(t, {x}) =>
                                NamedAlike(Parse(t, LetterFile(x)), Parse(t, NameFile(by)), x, by)}
<1>1. f \in KeyFiles /\ g \in KeyFiles /\ x \in Chars
  BY FilesAre
<1>2. <<>> \in S
  <2>1. Parse(<<>>, f) = Unparsed /\ Parse(<<>>, g) = Unparsed
    BY <1>1, ParseStep
  <2>2. Unparsed \in Parses /\ Unparsed.out = <<>> /\ <<>> \in Text
    BY Joined DEF Unparsed, Parses
  <2>3. Split(<<>>) = Unsplit
    BY SplitStep
  <2>4. Aligned(Unparsed, Unsplit)
    BY DEF Aligned, Unparsed, Unsplit, SPACE, QUOTE, DQUOTE
  <2>5. Unsplit = Named(Unsplit, x, by)
    <3> DEFINE none == <<>>
    <3>1. /\ Unsplit \in Splits /\ Unsplit.words = none /\ Unsplit.word = <<>>
          /\ none \in Seq(Text) /\ Len(none) = 0
      BY Joined DEF Unsplit, Splits
    <3>2. NamedWords(none, x, by) = none
      <4> HIDE DEF none
      <4>1. NamedWords(none, x, by) \in Seq(Text) /\ Len(NamedWords(none, x, by)) = 0
        BY <1>1, <3>1, NamedWordsType
      <4> QED BY <3>1, <4>1, EmptySeq
    <3>3. Replaced(<<>>, x, by) = <<>>
      BY <1>1, ReplacedStep
    <3> HIDE DEF none
    <3> QED BY <1>1, <3>1, <3>2, <3>3, NamedIs
  <2>6. NamedAlike(Unparsed, Unparsed, x, by)
    BY <2>2, <2>3, <2>4, <2>5 DEF NamedAlike, Alike
  <2> QED BY <2>1, <2>2, <2>6
<1>3. ASSUME NEW t \in Text, NEW c \in Chars, t \in S, Free(Append(t, c), {x})
      PROVE  NamedAlike(Parse(Append(t, c), f), Parse(Append(t, c), g), x, by)
  <2>1. Free(t, {x}) /\ c \in Chars \ {x}
    BY <1>3, FreeStep
  <2>2. NamedAlike(Parse(t, f), Parse(t, g), x, by)
    BY <1>3, <2>1
  <2>3. NamedAlike(ParseChar(Parse(t, f), c, f), ParseChar(Parse(t, g), c, g), x, by)
    BY <2>1, <2>2, NamedStep
  <2> HIDE DEF f, g
  <2>4. /\ Parse(Append(t, c), f) = ParseChar(Parse(t, f), c, f)
        /\ Parse(Append(t, c), g) = ParseChar(Parse(t, g), c, g)
    BY <1>1, ParseStep
  <2> QED BY <2>3, <2>4
<1>4. \A t \in Seq(Chars), c \in Chars : t \in S => Append(t, c) \in S
  BY <1>3, JoinStep DEF Text
<1> HIDE DEF S
<1>5. Seq(Chars) \subseteq S
  BY <1>2, <1>4, Growing
<1> QED BY <1>5 DEF Text, S

\* What is put out at the end is split alike.
LEMMA NamedExec ==
  ASSUME NEW x \in Chars \ Special, x # "k", NEW by \in Text,
         NEW exec \in Text, Free(exec, {x})
  PROVE  /\ Split(ParseExec(exec, LetterFile(x))) \in Splits
         /\ Split(ParseExec(exec, NameFile(by))) =
              Named(Split(ParseExec(exec, LetterFile(x))), x, by)
<1> DEFINE p == Parse(exec, LetterFile(x))
           o == Parse(exec, NameFile(by))
           s == p.out
           v == o.out
<1>1. NamedAlike(p, o, x, by)
  BY NamedParse
<1>2. /\ ParseExec(exec, LetterFile(x)) = IF p.code THEN Append(s, PERCENT) ELSE s
      /\ ParseExec(exec, NameFile(by)) = IF o.code THEN Append(v, PERCENT) ELSE v
  BY DEF ParseExec, Parse
<1> HIDE DEF p, o
<1>3. /\ s \in Text /\ v \in Text /\ p.code = o.code
      /\ Split(v) = Named(Split(s), x, by)
  BY <1>1 DEF NamedAlike, Alike, Parses
<1> HIDE DEF s, v
<1>4. Split(s) \in Splits /\ PERCENT \in Chars /\ PERCENT \in Chars \ {x}
  BY <1>3, SplitIs, SpecialChars DEF Special
<1>5. CASE p.code
  <2>1. /\ Split(Append(s, PERCENT)) = SplitChar(Split(s), PERCENT)
        /\ Split(Append(v, PERCENT)) = SplitChar(Split(v), PERCENT)
    BY <1>3, <1>4, SplitStep
  <2>2. SplitChar(Named(Split(s), x, by), PERCENT) = Named(SplitChar(Split(s), PERCENT), x, by)
    BY <1>4, NamedSplitChar
  <2>3. SplitChar(Split(s), PERCENT) \in Splits
    BY <1>4, SplitCharType
  <2> QED BY <1>2, <1>3, <1>5, <2>1, <2>2, <2>3
<1>6. CASE ~ p.code
  BY <1>2, <1>3, <1>4, <1>6
<1> QED BY <1>5, <1>6

\* The arguments are those of the letter, with the name in its place.
LEMMA NamedArgv ==
  ASSUME NEW x \in Chars \ Special, x # "k", NEW by \in Text,
         NEW exec \in Text, Free(exec, {x})
  PROVE  Argv(exec, NameFile(by)) = NamedWords(Argv(exec, LetterFile(x)), x, by)
<1> DEFINE q == Split(ParseExec(exec, LetterFile(x)))
           r == Split(ParseExec(exec, NameFile(by)))
<1>1. q \in Splits /\ r = Named(q, x, by)
  BY NamedExec
<1>2. /\ Argv(exec, LetterFile(x)) =
           IF q.quote # SPACE \/ q.escape THEN <<>> ELSE EndWord(q).words
      /\ Argv(exec, NameFile(by)) =
           IF r.quote # SPACE \/ r.escape THEN <<>> ELSE EndWord(r).words
  BY DEF Argv, ShellParse, Split
<1> HIDE DEF q, r
<1>3. x \in Chars /\ r.quote = q.quote /\ r.escape = q.escape
  BY <1>1, NamedType
<1>4. EndWord(r).words = NamedWords(EndWord(q).words, x, by)
  <2>1. EndWord(q) \in Splits
    <3>1. q.words \in Seq(Text) /\ q.word \in Text
      BY <1>1 DEF Splits
    <3> QED BY <1>1, <3>1, Joined, AppendProperties DEF EndWord, Splits
  <2>2. EndWord(r) = Named(EndWord(q), x, by)
    BY <1>1, <1>3, NamedEndWord
  <2> QED BY <1>3, <2>1, <2>2, NamedType
<1>5. NamedWords(<<>>, x, by) = <<>>
  <2> DEFINE none == <<>>
  <2>1. none \in Seq(Text) /\ Len(none) = 0
    OBVIOUS
  <2> HIDE DEF none
  <2>2. NamedWords(none, x, by) \in Seq(Text) /\ Len(NamedWords(none, x, by)) = 0
    BY <1>3, <2>1, NamedWordsType
  <2>3. NamedWords(none, x, by) = none
    BY <2>1, <2>2, EmptySeq
  <2> QED BY <2>3 DEF none
<1> QED BY <1>2, <1>3, <1>4, <1>5

-----------------------------------------------------------------------------
(* The theorems *)

\* The inductive invariant: types, the new files in the middle of a save
\* (csm_session_save, save_one_client), and the states that the clients and the
\* files name (csm_session_clear_one_client, csm_xsmp_client's discard command).
THEOREM SaveInvariantHolds == Spec => []SaveInv
<1>1. Init => SaveInv
  <2>1. Init => SaveTypeOK
    BY SaveInitType
  <2>2. Init => Current
    BY DEF Init, Current
  <2>3. Init => Survives
    BY SessionSaveAssumption
    DEF Init, Survives, SavedSurvive, RunningSurvive, Lasting, Unset, Numbers, NoFiles
  <2> QED BY <2>1, <2>2, <2>3 DEF SaveInv
<1>2. SaveInv /\ [Next]_vars => SaveInv'
  <2> SUFFICES ASSUME SaveInv, [Next]_vars PROVE SaveInv'
    OBVIOUS
  <2>1. SaveTypeOK /\ Current /\ Survives
    BY DEF SaveInv
  <2>2. SaveTypeOK'
    <3>1. CASE Next
      BY <2>1, <3>1, SaveNextType
    <3>2. CASE UNCHANGED vars
      BY <2>1, <3>2 DEF vars, SaveTypeOK, IsSaved
    <3> QED BY <3>1, <3>2
  <2> QED BY <2>1, <2>2, CurrentStep, SurvivesStep DEF SaveInv
<1> QED BY <1>1, <1>2, PTL DEF Spec

\* What csm_session_save renames over the saved session is one file for every
\* client that is to be saved, and nothing of a save that was killed or has failed.
THEOREM NewSessionIsCurrentHolds == Spec => []NewSessionIsCurrent
<1>1. SaveInv => NewSessionIsCurrent
  BY DEF SaveInv, Current, FilesOf, SavedOf, NewSessionIsCurrent
<1> QED BY <1>1, SaveInvariantHolds, PTL

\* No discard command that csm_session_clear_one_client runs removes a state that
\* the saved session names, through any number of sessions, unless a save has
\* failed or was killed while it cleared the old session.
THEOREM SavedStateIsKeptHolds == Spec => []SavedStateIsKept
<1>1. SaveInv => SavedStateIsKept
  BY DEF SaveInv, Survives, SavedSurvive, Lasting, Kept, SavedStateIsKept
<1> QED BY <1>1, SaveInvariantHolds, PTL

-----------------------------------------------------------------------------
(* The commands that come back *)

\* Words such that a desktop file keeps them: not empty, without quotes and percent
\* signs
PlainWords(words) == words \in Seq(Text) /\ \A i \in 1..Len(words) : Plain(words[i])

PlainCommands == \A c \in Clients, n \in Numbers : PlainWords(RestartCommand(c, n))
PlainDiscards == \A c \in Clients, n \in Numbers : PlainWords(DiscardCommand(c, n))

\* A client names a state of its own in a command, and no two in the same.
OwnCommands ==
  /\ \A c \in Clients, n, k \in Numbers : RestartCommand(c, n) = RestartCommand(c, k) => k = n
  /\ \A c, d \in Clients, n, k \in Numbers :
       DiscardCommand(c, n) = DiscardCommand(d, k) => c = d /\ n = k

\* What is on disk are files of clients in some state, however a save has ended.
SavedFiles == \A c \in DOMAIN saved : \E n \in Numbers : saved[c] = File(c, n)

\* No step puts another file there.
LEMMA SavedFilesStep == SaveTypeOK /\ Current /\ SavedFiles /\ [Next]_vars => SavedFiles'
<1> SUFFICES ASSUME SaveTypeOK, Current, SavedFiles, [Next]_vars PROVE SavedFiles'
  OBVIOUS
<1>1. CASE RenameDir
  <2>1. pc = "clearing" /\ saved' = new
    BY <1>1 DEF RenameDir
  <2>2. \A c \in DOMAIN new : new[c] = File(c, props[c].state) /\ props[c].state \in Numbers
    BY <2>1, FileOfState DEF Current, FilesOf, SavedOf, SaveTypeOK
  <2> QED BY <2>1, <2>2 DEF SavedFiles, File
<1>2. ASSUME NEW c \in Clients, UnlinkOne(c) PROVE SavedFiles'
  BY <1>2 DEF UnlinkOne, Without, SavedFiles, File
<1>3. CASE UNCHANGED saved
  BY <1>3 DEF SavedFiles, File
<1>4. CASE \/ Login \/ SaveSession \/ EndWithoutSaving \/ AllSaved
           \/ ClearedNew \/ Killed \/ DiscardRuns
  BY <1>3, <1>4
  DEF Login, SaveSession, EndWithoutSaving, AllSaved, ClearedNew, Killed, DiscardRuns, Disk
<1>5. ASSUME NEW c \in Clients,
             \/ SetProperties(c) \/ ClientGone(c) \/ SaveOneClient(c)
             \/ SaveFails(c) \/ DiscardOne(c) \/ ClearNew(c)
      PROVE  SavedFiles'
  BY <1>3, <1>5
  DEF SetProperties, ClientGone, SaveOneClient, SaveFails, DiscardOne, ClearNew, Disk
<1> QED BY <1>1, <1>2, <1>3, <1>4, <1>5 DEF Next, vars

\* The codes of a client's file stand for texts.
LEMMA ClientFileType == ClientFile \in KeyFiles
<1>1. <<"n">> \in Text /\ <<"k">> \in Text
  BY DEF Text, Chars
<1> QED BY <1>1 DEF ClientFile, KeyFiles

\* What a client's file has in its Exec line is the command that it was made of.
LEMMA CommandComesBack ==
  ASSUME PlainCommands, NEW c \in Clients, NEW n \in Numbers
  PROVE  Argv(File(c, n).exec, ClientFile) = RestartCommand(c, n)
<1> DEFINE words == RestartCommand(c, n)
<1>1. words \in Seq(Text) /\ \A i \in 1..Len(words) : Plain(words[i])
  BY DEF PlainCommands, PlainWords
<1>2. File(c, n).exec = PropToCommand(words)
  BY DEF File
<1> HIDE DEF words
<1>3. Argv(PropToCommand(words), ClientFile) = words
  BY <1>1, ClientFileType, WordsComeBack
<1> QED BY <1>2, <1>3 DEF words

\* What is assumed of the commands that are read back follows for plain ones from
\* what the clients do: prop_to_command and g_shell_parse_argv give every command
\* back, so that two are the same in the file only if they were from the start.
THEOREM CommandsAreTheirOwn ==
  ASSUME PlainCommands, PlainDiscards, OwnCommands
  PROVE  /\ \A c \in Clients, n, k \in Numbers :
              Argv(PropToCommand(RestartCommand(c, n)), ClientFile) = RestartCommand(c, k) => k = n
         /\ \A c \in Clients, n \in Numbers :
              Discarded(PropToCommand(DiscardCommand(c, n))) \subseteq {<<c, n>>}
         /\ Discarded(None) = {}
<1>1. ASSUME NEW c \in Clients, NEW n \in Numbers
      PROVE  Argv(PropToCommand(RestartCommand(c, n)), ClientFile) = RestartCommand(c, n)
  BY CommandComesBack DEF File
<1>2. ASSUME NEW c \in Clients, NEW n \in Numbers
      PROVE  Discarded(PropToCommand(DiscardCommand(c, n))) \subseteq {<<c, n>>}
  <2> DEFINE words == DiscardCommand(c, n)
  <2>1. words \in Seq(Text) /\ \A i \in 1..Len(words) : Plain(words[i])
    BY DEF PlainDiscards, PlainWords
  <2>2. ShellParse(PropToCommand(words)) = words
    <3> HIDE DEF words
    <3> QED BY <2>1, ClientFileType, WordsComeBack
  <2>3. ASSUME NEW d \in Clients \X Numbers,
               ShellParse(PropToCommand(words)) = DiscardCommand(d[1], d[2])
        PROVE  d = <<c, n>>
    <3>1. d[1] \in Clients /\ d[2] \in Numbers /\ d = <<d[1], d[2]>>
      OBVIOUS
    <3>2. words = DiscardCommand(d[1], d[2])
      BY <2>2, <2>3
    <3>3. c = d[1] /\ n = d[2]
      <4> HIDE DEF DiscardCommand
      <4> QED BY <3>1, <3>2 DEF OwnCommands
    <3> QED BY <3>1, <3>3
  <2> QED BY <2>3 DEF Discarded
<1>3. Discarded(None) = {}
  <2>1. Split(<<>>) = Unsplit
    BY SplitStep
  <2>2. ShellParse(<<>>) = <<>>
    BY <2>1 DEF ShellParse, Split, Unsplit, EndWord
  <2>3. \A d \in Clients \X Numbers : DiscardCommand(d[1], d[2]) # <<>>
    BY DEF DiscardCommand
  <2> QED BY <2>2, <2>3 DEF Discarded, None
<1> QED BY <1>1, <1>2, <1>3 DEF OwnCommands

\* The restart command of a client, written by prop_to_command into the Exec line of
\* its saved file, comes out of parse_exec and g_shell_parse_argv as the very words
\* the client has set: true of words of any length and number, if they are not
\* empty and have neither quotes nor percent signs.
THEOREM SavedCommandIsKeptHolds ==
  ASSUME PlainCommands
  PROVE  Spec => []SavedCommandIsKept
<1>1. Init => SavedFiles
  BY DEF Init, SavedFiles, NoFiles
<1>2. SaveInv /\ SavedFiles /\ [Next]_vars => SavedFiles'
  BY SavedFilesStep DEF SaveInv
<1>3. SaveInv /\ SavedFiles => SavedCommandIsKept
  <2> SUFFICES ASSUME SaveInv, SavedFiles, NEW c \in DOMAIN saved
               PROVE  \E n \in Numbers : Argv(saved[c].exec, ClientFile) = RestartCommand(c, n)
    BY DEF SavedCommandIsKept
  <2>1. PICK n \in Numbers : saved[c] = File(c, n)
    BY DEF SavedFiles
  <2>2. c \in Clients
    BY DEF SaveInv, SaveTypeOK
  <2> QED BY <2>1, <2>2, CommandComesBack
<1> QED BY <1>1, <1>2, <1>3, SaveInvariantHolds, PTL DEF Spec

-----------------------------------------------------------------------------
(* The names that stay one argument *)

\* The hypothesis about the file: with some plain letter where the name belongs, its
\* words are AutostartWords.  The letter is nowhere else, so that it tells the places.
StandsForName(x) ==
  /\ AutostartExec \in Text /\ AutostartWords \in Seq(Text) /\ Names \subseteq Text
  /\ x \in Chars \ Special /\ x # "k"
  /\ Free(AutostartExec, {x}) /\ \A i \in 1..Len(AutostartWords) : Free(AutostartWords[i], {x})
  /\ Argv(AutostartExec, LetterFile(x)) =
       [i \in 1..Len(AutostartWords) |->
          IF AutostartWords[i] = <<"%", "c">> THEN Append(<<>>, x) ELSE AutostartWords[i]]

\* An application is started with the name its file has, and with no other.
StartedByName ==
  name \in Names /\ (started = None \/ started = Argv(AutostartExec, AutostartFile))

\* Nor does it change its name while it runs.
LEMMA StartedByNameStep == StartedByName /\ [Next]_vars => StartedByName'
<1> SUFFICES ASSUME StartedByName, [Next]_vars PROVE StartedByName'
  OBVIOUS
<1> USE DEF StartedByName
<1>1. CASE Login
  BY <1>1 DEF Login, AutostartFile
<1>2. CASE UNCHANGED <<name, started>>
  BY <1>2 DEF AutostartFile
<1>3. CASE name' = name /\ started' = None
  BY <1>3 DEF AutostartFile
<1>4. CASE \/ EndWithoutSaving \/ ClearedNew \/ Killed \/ SaveSession \/ AllSaved
           \/ RenameDir \/ DiscardRuns
  BY <1>2, <1>3, <1>4
  DEF SaveSession, EndWithoutSaving, AllSaved, RenameDir, ClearedNew, Killed, DiscardRuns,
      SessionOver, Launches
<1>5. ASSUME NEW c \in Clients,
             \/ SetProperties(c) \/ ClientGone(c) \/ SaveOneClient(c) \/ SaveFails(c)
             \/ DiscardOne(c) \/ UnlinkOne(c) \/ ClearNew(c)
      PROVE  StartedByName'
  BY <1>2, <1>3, <1>5
  DEF SetProperties, ClientGone, SaveOneClient, SaveFails, DiscardOne, UnlinkOne, ClearNew,
      SessionOver, Launches
<1> QED BY <1>1, <1>2, <1>4, <1>5 DEF Next, vars

\* A code in the Exec line of an autostart file (egg_desktop_file_launchv) is one
\* argument whatever the name is: what holds of a plain letter in its place holds of
\* every text, with quotes, spaces, backslashes or percent signs, however long.
THEOREM FieldCodesAreOneWordHolds ==
  ASSUME NEW x, StandsForName(x)
  PROVE  Spec => []FieldCodesAreOneWord
<1>1. Init => StartedByName
  BY DEF Init, StartedByName
<1>2. StartedByName => FieldCodesAreOneWord
  <2> SUFFICES ASSUME StartedByName
               PROVE  Argv(AutostartExec, AutostartFile) =
                        [i \in 1..Len(AutostartWords) |->
                           IF AutostartWords[i] = <<"%", "c">> THEN name ELSE AutostartWords[i]]
    BY DEF FieldCodesAreOneWord, StartedByName
  <2> DEFINE words == AutostartWords
             code == <<"%", "c">>
  <2>1. /\ x \in Chars \ Special /\ x # "k" /\ Free(AutostartExec, {x})
        /\ \A i \in 1..Len(words) : Free(words[i], {x})
        /\ Argv(AutostartExec, LetterFile(x)) =
             [i \in 1..Len(words) |-> IF words[i] = code THEN Append(<<>>, x) ELSE words[i]]
    BY DEF StandsForName
  <2> DEFINE letters == Argv(AutostartExec, LetterFile(x))
  <2>2. words \in Seq(Text) /\ name \in Text /\ AutostartExec \in Text /\ x \in Chars
    BY DEF StandsForName, StartedByName
  <2> DEFINE args == Argv(AutostartExec, AutostartFile)
  <2>3. args = Argv(AutostartExec, NameFile(name))
    BY DEF AutostartFile, NameFile
  <2>4. args = NamedWords(letters, x, name)
    BY <2>1, <2>2, <2>3, NamedArgv
  <2> HIDE DEF words, code, args
  <2>5. Len(words) \in Nat /\ \A i \in 1..Len(words) : words[i] \in Text
    BY <2>2, ElementOfSeq, LenProperties
  <2>6. Len(letters) = Len(words)
    <3> HIDE DEF letters
    <3> QED BY <2>1, <2>5 DEF letters
  <2>7. Replaced(Append(<<>>, x), x, name) = name
    <3> DEFINE none == <<>>
    <3>1. none \in Text /\ Replaced(none, x, name) = none /\ none \o name = name
      BY <2>2, Joined, ReplacedStep, ConcatEmptySeq DEF Text
    <3> HIDE DEF none
    <3>2. Replaced(Append(none, x), x, name) = Replaced(none, x, name) \o name
      BY <2>2, <3>1, ReplacedStep
    <3> QED BY <3>1, <3>2 DEF none
  <2>8. ASSUME NEW i \in 1..Len(words)
        PROVE  Replaced(letters[i], x, name) = IF words[i] = code THEN name ELSE words[i]
    <3>1. letters[i] = IF words[i] = code THEN Append(<<>>, x) ELSE words[i]
      BY <2>1
    <3>2. Replaced(words[i], x, name) = words[i]
      BY <2>1, <2>2, <2>5, NothingReplaced
    <3> HIDE DEF letters
    <3> QED BY <2>7, <3>1, <3>2
  <2> HIDE DEF letters
  <2>9. args = [i \in 1..Len(words) |-> IF words[i] = code THEN name ELSE words[i]]
    BY <2>4, <2>6, <2>8 DEF NamedWords
  <2> QED BY <2>9 DEF words, code, args
<1> QED BY <1>1, <1>2, StartedByNameStep, PTL DEF Spec
=============================================================================
