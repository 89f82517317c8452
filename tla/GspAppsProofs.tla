---------------------------- MODULE GspAppsProofs ----------------------------
(***************************************************************************)
(* What the user edits in the capplet is kept, and the positions of an     *)
(* application are current, proved for any number of directories, files,   *)
(* changes by others and events under way.                                 *)
(*                                                                         *)
(* As the code has it this needs a monitor that tells of changes in time,  *)
(* a user's directory that nobody else writes to, and that no application  *)
(* was dropped too early: Polite and ~ dropped.                            *)
(***************************************************************************)
EXTENDS GspApps, FiniteSetTheorems, WellFoundedInduction, TLAPS

Polite == TimelyMonitor /\ USER \notin ExternalDirs

System == 1..SystemDirs
Files == Contents \cup {Missing}
Events == [dir : Dirs, what : {"changed", "deleted"}]

\* What the monitor has yet to tell: some news of the directory, ...
News(q, d) == \E k \in 1..Len(q) : q[k].dir = d

\* ... which is not true of the file ...
Tells(e, file) == e.what = "deleted" <=> file = Missing

\* ... only if other news of the directory follows.
NewsIsNew(q, files) ==
  \A k \in 1..Len(q) :
    ~ Tells(q[k], files[q[k].dir]) => \E j \in k + 1..Len(q) : q[j].dir = q[k].dir

\* The dialog's own news is heard first, for it writes when it has heard all.
OwnNewsFirst(q) == \A k \in 2..Len(q) : q[k].dir # USER

OwnNews(q, what) == q # <<>> /\ q[1] = Event(USER, what)

\* A directory has the file, and is the first one that has it.
There(files, d) == d \in Dirs /\ files[d] # Missing
Counts(files, d) == There(files, d) /\ \A o \in Dirs : There(files, o) => d <= o

\* The file that a save is laid over
From(a) == IF a.old = -1 THEN a.path ELSE a.old

\* A file has what was chosen, but for some fields.
Has(file, choice, fields) == \A f \in DOMAIN choice \ fields : file[f] = choice[f]

GspTypeOK ==
  /\ disk \in [Dirs -> Files]
  /\ events \in Seq(Events)
  /\ app \in App \cup {NoApp}
  /\ open \in BOOLEAN /\ aborted \in BOOLEAN /\ dropped \in BOOLEAN
  /\ DOMAIN chosen \subseteq Fields /\ chosen = [f \in DOMAIN chosen |-> chosen[f]]
  /\ changes \in Nat
  /\ ~ open => app = NoApp /\ events = <<>> /\ ~ aborted

\* What was chosen is in the file that counts, ...
Settled(files, choice) ==
  DOMAIN choice # {} => \E d \in Dirs : Counts(files, d) /\ Has(files[d], choice, {})

\* ... or it is what the application is, and is to be saved over the file that counts.
\* Of that one nothing is news, if it is not the user's.
Pending(a, files, q, choice) ==
  /\ Has(a.values, choice, {})
  /\ a.timer # "due" => DOMAIN choice \cap a.mask = {}
  /\ DOMAIN choice \ a.mask # {} =>
       /\ Counts(files, From(a)) /\ Has(files[From(a)], choice, a.mask)
       /\ ~ There(files, USER) => \A k \in 1..Len(q) : q[k].dir = USER

\* Without an application every file is news.
Unknown(files, q) ==
  /\ ~ There(files, USER) /\ ~ OwnNews(q, "changed")
  /\ \A d \in System : There(files, d) => News(q, d)

\* The position of the system is that of its first file, but for what is news.
SystemPosition(a, files, q) ==
  /\ a.sys >= 1
  /\ \A d \in System : There(files, d) /\ d < a.sys => News(q, d)
  /\ a.sys \in System /\ ~ There(files, a.sys) => News(q, a.sys)

\* Where the application is, by what is going to happen to it
Place(a, files) ==
  /\ a.pos = USER =>
       a.path = USER /\ (a.timer = "none" /\ a.mask = {} => There(files, USER))
  /\ a.pos \in System =>
       /\ a.path = a.pos /\ a.old = -1 /\ ~ There(files, USER) /\ a.sys <= a.pos
       /\ a.timer # "due" /\ (a.timer = "none" => a.sys = a.pos)
  /\ a.pos = MAXUINT =>
       a.path = USER /\ (a.skip \/ (~ There(files, USER) /\ (a.timer = "due" \/ a.mask # {})))
  /\ a.timer = "due" => a.path = USER /\ a.pos \in {USER, MAXUINT} /\ a.mask # {}
  /\ a.timer = "stale" => a.pos \in System /\ a.mask = {}

\* What the dialog has yet to hear of its own
OwnNewsAwaited(a, files, q) ==
  /\ a.skip => OwnNews(q, "changed") /\ There(files, USER) /\ a.pos \in {USER, MAXUINT}
  /\ OwnNews(q, "changed") => a.skip /\ (a.timer = "none" \/ a.pos = USER)
  /\ OwnNews(q, "deleted") =>
       /\ a.sys \in System /\ ~ a.skip
       /\ a.timer = "stale" \/ (a.timer = "due" /\ a.pos = USER)

Tracked(a, files, q) ==
  SystemPosition(a, files, q) /\ Place(a, files) /\ OwnNewsAwaited(a, files, q)

GspInv ==
  /\ GspTypeOK /\ NewsIsNew(events, disk) /\ OwnNewsFirst(events)
  /\ ~ dropped =>
       /\ ~ open => Settled(disk, chosen)
       /\ open /\ app = NoApp => DOMAIN chosen = {}
       /\ app # NoApp => Pending(app, disk, events, chosen)
       /\ open /\ ~ aborted /\ app = NoApp => Unknown(disk, events)
       /\ ~ aborted /\ app # NoApp => Tracked(app, disk, events)

-----------------------------------------------------------------------------
(* Files, applications and directories *)

LEMMA Kinds == Missing \notin Contents /\ NoApp \notin App
<1>1. "hidden" \notin DOMAIN Missing /\ \A c \in Contents : "hidden" \in DOMAIN c
  BY DEF Missing, Contents
<1>2. "none" \in DOMAIN NoApp /\ \A a \in App : "none" \notin DOMAIN a
  BY DEF NoApp, App
<1> QED BY <1>1, <1>2

LEMMA Numbers ==
  /\ SystemDirs \in Nat /\ SystemDirs >= 1 /\ USER = 0 /\ MAXUINT = SystemDirs + 1
  /\ Dirs = 0..SystemDirs /\ System = 1..SystemDirs
BY GspAssumption DEF USER, MAXUINT, Dirs, System

\* Of some directories one is the first.
LEMMA FirstOfSome ==
  ASSUME NEW found \in SUBSET Dirs, found # {}
  PROVE  \E d \in found : \A o \in found : d <= o
<1> DEFINE below(d) == {o \in found : o < d}
           belows == {below(d) : d \in found}
<1>1. IsWellFoundedOn(StrictSubsetOrdering(Dirs), SUBSET Dirs)
  <2>1. IsFiniteSet(Dirs)
    BY Numbers, FS_Interval
  <2>2. FiniteSubsetsOf(Dirs) = SUBSET Dirs
    BY <2>1, FS_FiniteSubsetsOfFinite
  <2> QED BY <2>2, FS_StrictSubsetOrderingWellFounded
<1>2. belows \subseteq SUBSET Dirs /\ belows # {}
  OBVIOUS
<1>3. PICK b \in belows : \A c \in belows : <<c, b>> \notin StrictSubsetOrdering(Dirs)
  <2> HIDE DEF belows
  <2> QED BY <1>1, <1>2, WFMin
<1>4. PICK d \in found : b = below(d)
  OBVIOUS
<1>5. ASSUME NEW o \in found, ~ (d <= o) PROVE FALSE
  <2>1. o \in Nat /\ d \in Nat /\ found \subseteq Nat
    BY Numbers
  <2>2. o < d /\ ~ (o < o) /\ \A p \in Nat : p < o => p < d
    BY <1>5, <2>1
  <2>3. below(o) \subseteq below(d) /\ o \in below(d) /\ o \notin below(o)
    BY <2>1, <2>2
  <2>4. below(o) \in SUBSET Dirs /\ below(d) \in SUBSET Dirs /\ below(o) # below(d)
    BY <2>3
  <2>5. <<below(o), below(d)>> \in StrictSubsetOrdering(Dirs)
    <3> HIDE DEF below
    <3> QED BY <2>3, <2>4 DEF StrictSubsetOrdering
  <2>6. below(o) \in belows
    BY <1>5
  <2> QED BY <1>3, <1>4, <2>5, <2>6
<1> QED BY <1>5

\* _gsp_app_manager_find_dir_with_basename finds the first directory after another.
LEMMA FindDirFinds ==
  ASSUME NEW above \in Int
  PROVE  LET d == FindDir(above)
         IN  \/ d = MAXUINT /\ \A o \in Dirs : above < o => ~ There(disk, o)
             \/ /\ d \in Dirs /\ above < d /\ There(disk, d)
                /\ \A o \in Dirs : above < o /\ There(disk, o) => d <= o
<1> DEFINE found == {d \in Dirs : above < d /\ There(disk, d)}
<1>1. CASE found = {}
  BY <1>1 DEF FindDir, Exists, There
<1>2. CASE found # {}
  <2>1. FindDir(above) = Min(found)
    BY <1>2 DEF FindDir, Exists, There
  <2>2. Min(found) \in found /\ \A o \in found : Min(found) <= o
    <3>1. found \in SUBSET Dirs
      OBVIOUS
    <3> HIDE DEF found
    <3>2. \E d \in found : \A o \in found : d <= o
      BY <1>2, <3>1, FirstOfSome
    <3> QED BY <3>2 DEF Min
  <2> HIDE DEF found
  <2>3. FindDir(above) \in found /\ \A o \in found : FindDir(above) <= o
    BY <2>1, <2>2
  <2> QED BY <2>3 DEF found
<1> QED BY <1>1, <1>2

-----------------------------------------------------------------------------
(* What is under way *)

\* A change is told after those that are under way.
LEMMA NewsAppended ==
  ASSUME NEW q \in Seq(Events), NEW files, NEW files2, NEW e \in Events,
         NewsIsNew(q, files), OwnNewsFirst(q), e.dir = USER => q = <<>>,
         \A o \in Dirs \ {e.dir} : files2[o] = files[o], Tells(e, files2[e.dir]),
         NEW r, r = Append(q, e)
  PROVE  /\ r \in Seq(Events) /\ NewsIsNew(r, files2) /\ OwnNewsFirst(r)
         /\ News(r, e.dir) /\ \A o \in Dirs : News(q, o) => News(r, o)
<1> DEFINE n == Len(q)
<1>1. /\ n \in Nat /\ Len(r) = n + 1 /\ r \in Seq(Events) /\ r[n + 1] = e
      /\ \A k \in 1..n : r[k] = q[k] /\ q[k] \in Events
      /\ q = <<>> <=> n = 0
  OBVIOUS
<1>2. News(r, e.dir) /\ \A o \in Dirs : News(q, o) => News(r, o)
  BY <1>1 DEF News
<1>3. NewsIsNew(r, files2)
  <2> SUFFICES ASSUME NEW k \in 1..n + 1, ~ Tells(r[k], files2[r[k].dir])
               PROVE  \E j \in k + 1..n + 1 : r[j].dir = r[k].dir
    BY <1>1 DEF NewsIsNew
  <2>1. k \in 1..n /\ r[k] = q[k] /\ q[k].dir \in Dirs
    BY <1>1 DEF Events
  <2>2. CASE q[k].dir = e.dir
    BY <1>1, <2>1, <2>2
  <2>3. CASE q[k].dir # e.dir
    <3>1. PICK j \in k + 1..n : q[j].dir = q[k].dir
      BY <2>1, <2>3 DEF NewsIsNew
    <3> QED BY <1>1, <2>1, <3>1
  <2> QED BY <2>2, <2>3
<1>4. OwnNewsFirst(r)
  BY <1>1 DEF OwnNewsFirst
<1> QED BY <1>1, <1>2, <1>3, <1>4

\* The first news is heard.  If it was not true any more, other news is under way.
LEMMA NewsHeard ==
  ASSUME NEW q \in Seq(Events), NEW files, q # <<>>, NewsIsNew(q, files), OwnNewsFirst(q)
  PROVE  LET e == Head(q)
             r == Tail(q)
         IN  /\ e \in Events /\ e = q[1]
             /\ r \in Seq(Events) /\ NewsIsNew(r, files) /\ OwnNewsFirst(r)
             /\ \A what : ~ OwnNews(r, what)
             /\ \A d \in Dirs : News(q, d) /\ d # e.dir => News(r, d)
             /\ ~ Tells(e, files[e.dir]) => News(r, e.dir)
             /\ (\A k \in 1..Len(q) : q[k].dir = USER) => r = <<>>
             /\ ~ News(r, USER)
<1> DEFINE n == Len(q)
           r == Tail(q)
           e == Head(q)
<1>1. /\ n \in Nat /\ n >= 1 /\ Len(r) = n - 1 /\ r \in Seq(Events) /\ e = q[1] /\ e \in Events
      /\ \A k \in 1..n - 1 : r[k] = q[k + 1]
      /\ r = <<>> <=> n = 1
  <2>1. n \in Nat /\ n >= 1 /\ e = q[1] /\ e \in Events
    OBVIOUS
  <2>2. Len(r) = n - 1 /\ r \in Seq(Events) /\ \A k \in 1..n - 1 : r[k] = q[k + 1]
    OBVIOUS
  <2> HIDE DEF r, n, e
  <2>3. r = <<>> <=> n = 1
    BY <2>1, <2>2
  <2> QED BY <2>1, <2>2, <2>3
<1> HIDE DEF n, r, e
<1>2. \A k \in 1..Len(r) : r[k].dir # USER
  BY <1>1 DEF OwnNewsFirst, n
<1>3. OwnNewsFirst(r)
  BY <1>1, <1>2 DEF OwnNewsFirst
<1>4. \A what : ~ OwnNews(r, what)
  BY <1>1, <1>2 DEF OwnNews, Event
<1>5. NewsIsNew(r, files)
  <2> SUFFICES ASSUME NEW k \in 1..n - 1, ~ Tells(r[k], files[r[k].dir])
               PROVE  \E j \in k + 1..n - 1 : r[j].dir = r[k].dir
    BY <1>1 DEF NewsIsNew
  <2>1. k + 1 \in 1..Len(q) /\ r[k] = q[k + 1]
    BY <1>1 DEF n
  <2>2. PICK j \in k + 1 + 1..Len(q) : q[j].dir = q[k + 1].dir
    BY <2>1 DEF NewsIsNew
  <2>3. j - 1 \in k + 1..n - 1 /\ r[j - 1] = q[j]
    BY <1>1, <2>2 DEF n
  <2> QED BY <2>1, <2>2, <2>3
<1>6. ASSUME NEW d, NEW j \in 2..n, q[j].dir = d PROVE News(r, d)
  <2>1. j - 1 \in 1..n - 1 /\ r[j - 1] = q[j]
    BY <1>1, <1>6
  <2> QED BY <1>1, <1>6, <2>1 DEF News
<1>7. ASSUME NEW d \in Dirs, News(q, d), d # e.dir PROVE News(r, d)
  <2>1. PICK j \in 1..n : q[j].dir = d
    BY <1>7 DEF News, n
  <2>2. j \in 2..n
    BY <1>1, <1>7, <2>1
  <2> QED BY <1>6, <2>1, <2>2
<1>8. ASSUME ~ Tells(e, files[e.dir]) PROVE News(r, e.dir)
  <2>1. 1 \in 1..Len(q)
    BY <1>1 DEF n
  <2>2. PICK j \in 1 + 1..Len(q) : q[j].dir = e.dir
    BY <1>1, <1>8, <2>1 DEF NewsIsNew
  <2>3. j \in 2..n
    BY <1>1, <2>2 DEF n
  <2> QED BY <1>6, <2>2, <2>3
<1>9. ASSUME \A k \in 1..Len(q) : q[k].dir = USER PROVE r = <<>>
  BY <1>1, <1>9 DEF OwnNewsFirst, n
<1>10. ~ News(r, USER)
  BY <1>2 DEF News
<1> QED BY <1>1, <1>3, <1>4, <1>5, <1>7, <1>8, <1>9, <1>10 DEF n, r, e

-----------------------------------------------------------------------------
(* GspApp *)

\* _gsp_app_queue_save makes it an application of the user, due to be written.
LEMMA QueueSaveQueues ==
  ASSUME NEW a \in App
  PROVE  LET b == QueueSave(a)
         IN  /\ b \in App /\ b.timer = "due" /\ b.pos = USER
             /\ b.sys = a.sys /\ b.values = a.values /\ b.mask = a.mask /\ b.skip = a.skip
             /\ a.pos = USER => b.path = a.path
             /\ a.pos # USER => b.path = USER
             /\ From(b) = From(a)
<1>1. USER \in 0..MAXUINT /\ USER \in Dirs /\ a.path # -1 /\ a.path \in {-1} \cup Dirs
  BY Numbers DEF App
<1>2. CASE a.pos = USER
  <2>1. QueueSave(a) = [a EXCEPT !.timer = "due"]
    BY <1>2 DEF QueueSave
  <2> QED BY <1>2, <2>1 DEF App, From
<1>3. CASE a.pos # USER
  <2> DEFINE old == IF a.old = -1 THEN a.path ELSE a.old
  <2>1. QueueSave(a) = [a EXCEPT !.timer = "due", !.pos = USER, !.path = USER, !.old = old]
    BY <1>3 DEF QueueSave
  <2>2. old \in {-1} \cup Dirs /\ old # -1
    BY <1>1 DEF App
  <2> HIDE DEF old
  <2>3. QueueSave(a) \in App /\ QueueSave(a).old = old
    BY <1>1, <2>1, <2>2 DEF App
  <2>4. From(QueueSave(a)) = From(a)
    BY <2>2, <2>3 DEF From, old
  <2> QED BY <1>3, <2>1, <2>3, <2>4 DEF App
<1> QED BY <1>2, <1>3

\* What gsp_app_new makes of an application it has
LEMMA AppNewChanges ==
  ASSUME NEW a \in App, NEW d \in Dirs
  PROVE  LET b == AppNew(a, d)
         IN  \/ a.pos = d /\ a.skip /\ b = [a EXCEPT !.skip = FALSE]
             \/ /\ ~ (a.pos = d /\ a.skip) /\ (a.pos < d \/ a.timer # "none")
                /\ b = [a EXCEPT !.sys = IF d < a.sys THEN d ELSE a.sys]
             \/ /\ ~ (a.pos = d /\ a.skip) /\ d <= a.pos /\ a.timer = "none" /\ Exists(d)
                /\ b = Load(a, d)
             \/ /\ ~ (a.pos = d /\ a.skip) /\ d <= a.pos /\ a.timer = "none" /\ ~ Exists(d)
                /\ b = a
<1>1. a # NoApp /\ a.pos \in Int /\ d \in Int
  BY Kinds, Numbers DEF App
<1> QED BY <1>1 DEF AppNew, NotOfInterest

-----------------------------------------------------------------------------
(* The steps of the user and of others *)

LEMMA FileIsThere ==
  ASSUME NEW files \in [Dirs -> Files], NEW d, There(files, d)
  PROVE  d \in Dirs /\ files[d] \in Contents
BY DEF There, Files

LEMMA GspInit == Init => GspInv
<1> SUFFICES ASSUME Init PROVE GspInv
  OBVIOUS
<1>1. /\ disk \in [Dirs -> Files] /\ events = <<>> /\ app = NoApp /\ open = FALSE
      /\ chosen = NoChoice /\ changes = 0 /\ aborted = FALSE /\ dropped = FALSE
  BY DEF Init, Files
<1>2. DOMAIN chosen = {} /\ chosen = [f \in DOMAIN chosen |-> chosen[f]]
  BY <1>1 DEF NoChoice
<1>3. <<>> \in Seq(Events) /\ Len(<<>>) = 0
  OBVIOUS
<1>4. GspTypeOK
  BY <1>1, <1>2, <1>3 DEF GspTypeOK
<1>5. NewsIsNew(events, disk) /\ OwnNewsFirst(events)
  BY <1>1, <1>3 DEF NewsIsNew, OwnNewsFirst
<1> QED BY <1>1, <1>2, <1>4, <1>5 DEF GspInv, Settled

\* What the first directories up to d make of the list of applications
FilledFrom(d) ==
  LET first == FindDir(USER - 1)
  IN  IF first <= d
      THEN [values |-> disk[first], pos |-> first, path |-> first,
            sys |-> IF FindDir(USER) <= d THEN FindDir(USER) ELSE MAXUINT,
            old |-> -1, mask |-> {}, timer |-> "none", skip |-> FALSE]
      ELSE NoApp

LEMMA FilledFromStep ==
  ASSUME NEW d \in Dirs, disk \in [Dirs -> Files]
  PROVE  FilledFrom(d) = IF Exists(d) THEN AppNew(FilledFrom(d - 1), d) ELSE FilledFrom(d - 1)
<1> DEFINE first == FindDir(USER - 1)
           sys == FindDir(USER)
           sys1 == IF sys <= d - 1 THEN sys ELSE MAXUINT
           sys2 == IF sys <= d THEN sys ELSE MAXUINT
           a(s) == [values |-> disk[first], pos |-> first, path |-> first, sys |-> s,
                    old |-> -1, mask |-> {}, timer |-> "none", skip |-> FALSE]
<1>1. /\ first \in 0..MAXUINT /\ (Exists(d) => first <= d) /\ (first = d => Exists(d))
      /\ \A o \in Dirs : There(disk, o) => first <= o
      /\ first # MAXUINT => first \in Dirs /\ There(disk, first)
  <2>1. \A o \in Dirs : USER - 1 < o
    BY Numbers
  <2>2. USER - 1 \in Int
    BY Numbers
  <2>3. \/ first = MAXUINT /\ \A o \in Dirs : ~ There(disk, o)
        \/ /\ first \in Dirs /\ There(disk, first)
           /\ \A o \in Dirs : There(disk, o) => first <= o
    BY <2>1, <2>2, FindDirFinds
  <2>4. Exists(d) <=> There(disk, d)
    BY DEF Exists, There
  <2> HIDE DEF first
  <2> QED BY <2>3, <2>4, Numbers
<1>2. /\ sys \in 1..MAXUINT /\ (Exists(d) /\ d # USER => sys <= d) /\ (sys = d => Exists(d))
      /\ sys # MAXUINT => sys \in Dirs /\ There(disk, sys)
  <2>1. USER \in Int
    BY Numbers
  <2>2. \/ sys = MAXUINT /\ \A o \in Dirs : USER < o => ~ There(disk, o)
        \/ /\ sys \in Dirs /\ USER < sys /\ There(disk, sys)
           /\ \A o \in Dirs : USER < o /\ There(disk, o) => sys <= o
    BY <2>1, FindDirFinds
  <2>4. Exists(d) <=> There(disk, d)
    BY DEF Exists, There
  <2> HIDE DEF sys
  <2> QED BY <2>2, <2>4, Numbers
<1>3. /\ FilledFrom(d) = IF first <= d THEN a(sys2) ELSE NoApp
      /\ FilledFrom(d - 1) = IF first <= d - 1 THEN a(sys1) ELSE NoApp
  BY DEF FilledFrom
<1> HIDE DEF first, sys
<1>4. CASE ~ Exists(d)
  <2>1. (first <= d <=> first <= d - 1) /\ sys1 = sys2
    BY <1>1, <1>2, <1>4, Numbers
  <2> HIDE DEF sys1, sys2, a
  <2> QED BY <1>3, <1>4, <2>1
<1>5. CASE Exists(d) /\ first = d
  <2>1. ~ (first <= d - 1) /\ first <= d /\ sys2 = IF d > USER THEN d ELSE MAXUINT
    <3>1. sys # MAXUINT => d <= sys
      BY <1>1, <1>2, <1>5
    <3> QED BY <1>1, <1>2, <1>5, <3>1, Numbers
  <2>2. FilledFrom(d - 1) = NoApp /\ FilledFrom(d) = a(sys2)
    <3> HIDE DEF a, sys1, sys2
    <3> QED BY <1>3, <2>1
  <2>3. AppNew(NoApp, d) = Fresh(d)
    BY <1>5 DEF AppNew
  <2> HIDE DEF sys2
  <2>4. Fresh(d) = a(sys2)
    BY <1>5, <2>1 DEF Fresh
  <2> QED BY <1>5, <2>2, <2>3, <2>4
<1>6. CASE Exists(d) /\ first # d
  <2>1. first <= d - 1 /\ first < d /\ first <= d /\ d # USER
    BY <1>1, <1>6, Numbers
  <2>2. sys2 = (IF d < sys1 THEN d ELSE sys1) /\ sys1 \in 0..MAXUINT /\ first \in Dirs
    BY <1>1, <1>2, <1>6, <2>1, Numbers
  <2> HIDE DEF sys1, sys2
  <2>3. FilledFrom(d - 1) = a(sys1) /\ FilledFrom(d) = a(sys2)
    <3> HIDE DEF a
    <3> QED BY <1>3, <2>1
  <2>4. a(sys1) \in App
    <3>1. disk[first] \in Contents
      BY <1>1, <2>2, FileIsThere, Numbers
    <3> QED BY <1>1, <2>2, <3>1 DEF App
  <2> DEFINE b == a(sys1)
  <2>5. b.pos = first /\ b.sys = sys1 /\ b.skip = FALSE /\ b.timer = "none"
    OBVIOUS
  <2>6. [b EXCEPT !.sys = IF d < sys1 THEN d ELSE sys1] = a(sys2)
    <3> DEFINE c == a(sys2)
               e == [b EXCEPT !.sys = sys2]
    <3>1. sys2 \in 0..MAXUINT
      BY <2>2, Numbers
    <3>2. c \in App
      <4>1. disk[first] \in Contents
        BY <1>1, <2>2, FileIsThere, Numbers
      <4> QED BY <1>1, <2>2, <3>1, <4>1 DEF App
    <3>3. /\ c.values = b.values /\ c.pos = b.pos /\ c.path = b.path /\ c.sys = sys2
          /\ c.old = b.old /\ c.mask = b.mask /\ c.timer = b.timer /\ c.skip = b.skip
      OBVIOUS
    <3> HIDE DEF a, c
    <3>4. b \in App
      BY <2>4
    <3> HIDE DEF b
    <3>5. e = c
      BY <3>1, <3>2, <3>3, <3>4 DEF App
    <3> QED BY <2>2, <3>5 DEF c
  <2> HIDE DEF b
  <2>7. ~ (d <= b.pos)
    BY <1>1, <2>1, <2>5, Numbers
  <2>8. AppNew(b, d) = [b EXCEPT !.sys = IF d < sys1 THEN d ELSE sys1]
    <3>1. b \in App
      BY <2>4 DEF b
    <3> HIDE DEF a
    <3> QED BY <2>5, <2>7, <3>1, AppNewChanges
  <2> QED BY <1>6, <2>3, <2>6, <2>8 DEF b
<1> QED BY <1>4, <1>5, <1>6

\* The loop of gsp_app_manager_fill ends so: a function that does is the one it is
\* defined by, and there is no first directory where two of them differ.
LEMMA FilledUpToIs ==
  ASSUME disk \in [Dirs -> Files]
  PROVE  \A d \in USER - 1..SystemDirs : FilledUpTo[d] = FilledFrom(d)
<1> DEFINE D == USER - 1..SystemDirs
           Loops(f) == f = [d \in D |-> IF d < USER THEN NoApp
                                        ELSE IF Exists(d) THEN AppNew(f[d - 1], d) ELSE f[d - 1]]
           g == [d \in D |-> FilledFrom(d)]
<1>1. D = Dirs \cup {USER - 1} /\ \A d \in Dirs : d \in D /\ d - 1 \in D /\ ~ (d < USER)
  BY Numbers
<1>2. FilledFrom(USER - 1) = NoApp
  <2>1. ~ (FindDir(USER - 1) <= USER - 1)
    <3>1. USER - 1 \in Int /\ \A o \in Dirs : ~ (o <= USER - 1)
      BY Numbers
    <3>2. ~ (MAXUINT <= USER - 1)
      BY Numbers
    <3> QED BY <3>1, <3>2, FindDirFinds
  <2> QED BY <2>1 DEF FilledFrom
<1>3. Loops(g)
  <2>1. ASSUME NEW d \in D
        PROVE  g[d] = IF d < USER THEN NoApp
                      ELSE IF Exists(d) THEN AppNew(g[d - 1], d) ELSE g[d - 1]
    <3>1. CASE d \in Dirs
      BY <1>1, <3>1, FilledFromStep
    <3>2. CASE d = USER - 1
      <4>1. USER - 1 < USER
        BY Numbers
      <4> QED BY <1>2, <3>2, <4>1
    <3> QED BY <1>1, <3>1, <3>2
  <2> HIDE DEF D
  <2> QED BY <2>1
<1>4. Loops(FilledUpTo)
  <2>1. FilledUpTo = CHOOSE f : Loops(f)
    BY DEF FilledUpTo
  <2> HIDE DEF Loops, g
  <2> QED BY <1>3, <2>1
<1> DEFINE differ == {d \in Dirs : FilledUpTo[d] # g[d]}
<1>5. FilledUpTo[USER - 1] = g[USER - 1]
  <2>1. USER - 1 < USER
    BY Numbers
  <2> QED BY <1>1, <1>3, <1>4, <2>1
<1>6. differ = {}
  <2> SUFFICES ASSUME differ # {} PROVE FALSE
    OBVIOUS
  <2>1. PICK d \in differ : \A o \in differ : d <= o
    <3>1. differ \in SUBSET Dirs
      OBVIOUS
    <3> HIDE DEF differ
    <3> QED BY <3>1, FirstOfSome
  <2>2. FilledUpTo[d - 1] = g[d - 1]
    <3>1. d - 1 \notin differ
      BY <2>1, Numbers
    <3> QED BY <1>1, <1>5, <2>1, <3>1
  <2>3. d \in Dirs /\ d \in D
    BY <1>1
  <2> QED BY <1>3, <1>4, <2>2, <2>3
<1> QED BY <1>1, <1>5, <1>6

\* The application that gsp_app_manager_fill ends with
LEMMA FilledIsFirst ==
  ASSUME disk \in [Dirs -> Files]
  PROVE  \/ Filled = NoApp /\ \A d \in Dirs : ~ There(disk, d)
         \/ /\ Filled \in App /\ Counts(disk, Filled.pos)
            /\ Filled.path = Filled.pos /\ Filled.values = disk[Filled.pos]
            /\ Filled.old = -1 /\ Filled.mask = {} /\ Filled.timer = "none" /\ ~ Filled.skip
            /\ Filled.sys = FindDir(USER)
<1> DEFINE first == FindDir(USER - 1)
           sys == IF FindDir(USER) <= SystemDirs THEN FindDir(USER) ELSE MAXUINT
<1>1. \A d \in Dirs : USER - 1 < d
  BY Numbers
<1>2. FindDir(USER) \in 0..MAXUINT /\ sys = FindDir(USER)
  BY FindDirFinds, Numbers
<1>3. Filled = FilledFrom(SystemDirs)
  BY FilledUpToIs, Numbers DEF Filled
<1>4. CASE first = MAXUINT
  <2>1. \A d \in Dirs : ~ There(disk, d)
    <3>1. MAXUINT \notin Dirs
      BY Numbers
    <3> QED BY <1>1, <1>4, <3>1, FindDirFinds, Numbers
  <2>2. ~ (first <= SystemDirs)
    BY <1>4, Numbers
  <2> QED BY <1>3, <2>1, <2>2 DEF FilledFrom
<1>5. CASE first # MAXUINT
  <2>1. first \in Dirs /\ There(disk, first) /\ \A d \in Dirs : There(disk, d) => first <= d
    BY <1>1, <1>5, FindDirFinds, Numbers
  <2>2. first <= SystemDirs /\ first \in 0..MAXUINT
    BY <2>1, Numbers
  <2>3. Filled = [values |-> disk[first], pos |-> first, path |-> first, sys |-> sys,
                  old |-> -1, mask |-> {}, timer |-> "none", skip |-> FALSE]
    BY <1>3, <2>2 DEF FilledFrom
  <2>4. disk[first] \in Contents
    BY <2>1, FileIsThere
  <2> HIDE DEF first, sys
  <2>5. Filled \in App
    BY <1>2, <2>1, <2>2, <2>3, <2>4 DEF App
  <2> QED BY <1>2, <2>1, <2>3, <2>5 DEF Counts
<1> QED BY <1>4, <1>5

LEMMA OpenKeeps ==
  ASSUME GspInv, Open
  PROVE  GspInv'
<1>1. /\ GspTypeOK /\ ~ open /\ app = NoApp /\ events = <<>> /\ ~ aborted
      /\ disk \in [Dirs -> Files]
  BY DEF GspInv, GspTypeOK, Open
<1>2. /\ open' /\ app' = Filled
      /\ UNCHANGED <<disk, events, chosen, changes, aborted, dropped>>
  BY DEF Open
<1>3. NewsIsNew(events', disk') /\ OwnNewsFirst(events')
  BY <1>2 DEF GspInv
<1>4. GspTypeOK'
  BY <1>1, <1>2, FilledIsFirst DEF GspTypeOK
<1>5. ASSUME ~ dropped, Filled = NoApp, \A d \in Dirs : ~ There(disk, d)
      PROVE  DOMAIN chosen = {} /\ Unknown(disk, events)
  <2>1. DOMAIN chosen = {}
    BY <1>1, <1>5 DEF GspInv, Settled, Counts
  <2> QED BY <1>1, <1>5, <2>1, Numbers DEF Unknown, OwnNews
<1>6. ASSUME ~ dropped, NEW a \in App, a = Filled, Counts(disk, a.pos),
             a.path = a.pos, a.values = disk[a.pos],
             a.old = -1, a.mask = {}, a.timer = "none", ~ a.skip, a.sys = FindDir(USER)
      PROVE  Pending(a, disk, events, chosen) /\ Tracked(a, disk, events)
  <2>1. Has(a.values, chosen, {})
    <3>1. SUFFICES ASSUME DOMAIN chosen # {} PROVE Has(a.values, chosen, {})
      BY DEF Has
    <3>2. PICK d \in Dirs : Counts(disk, d) /\ Has(disk[d], chosen, {})
      BY <1>1, <1>6, <3>1 DEF GspInv, Settled
    <3>3. d = a.pos
      BY <1>6, <3>2, Numbers DEF Counts, There
    <3> QED BY <1>6, <3>2, <3>3
  <2>2. From(a) = a.pos
    BY <1>6 DEF From
  <2>3. Pending(a, disk, events, chosen)
    BY <1>1, <1>6, <2>1, <2>2 DEF Pending
  <2>4. \/ a.sys = MAXUINT /\ \A o \in Dirs : USER < o => ~ There(disk, o)
        \/ /\ a.sys \in Dirs /\ USER < a.sys /\ There(disk, a.sys)
           /\ \A o \in Dirs : USER < o /\ There(disk, o) => a.sys <= o
    BY <1>6, FindDirFinds, Numbers
  <2>5. SystemPosition(a, disk, events)
    BY <2>4, Numbers DEF SystemPosition
  <2>6. Place(a, disk)
    <3>1. a.pos \in Dirs /\ There(disk, a.pos) /\ \A o \in Dirs : There(disk, o) => a.pos <= o
      BY <1>6 DEF Counts, There
    <3>2. a.pos # MAXUINT
      BY <3>1, Numbers
    <3>3. ASSUME a.pos \in System PROVE ~ There(disk, USER) /\ a.sys = a.pos
      BY <2>4, <3>1, <3>3, Numbers
    <3> QED BY <1>6, <3>1, <3>2, <3>3, Numbers DEF Place
  <2>7. OwnNewsAwaited(a, disk, events)
    BY <1>1, <1>6 DEF OwnNewsAwaited, OwnNews
  <2> QED BY <2>3, <2>5, <2>6, <2>7 DEF Tracked
<1>7. Filled \in App => app' # NoApp
  BY <1>2, Kinds
<1>8. CASE Filled = NoApp /\ \A d \in Dirs : ~ There(disk, d)
  BY <1>2, <1>3, <1>4, <1>5, <1>8 DEF GspInv
<1>9. CASE /\ Filled \in App /\ Counts(disk, Filled.pos)
           /\ Filled.path = Filled.pos /\ Filled.values = disk[Filled.pos]
           /\ Filled.old = -1 /\ Filled.mask = {} /\ Filled.timer = "none" /\ ~ Filled.skip
           /\ Filled.sys = FindDir(USER)
  BY <1>2, <1>3, <1>4, <1>6, <1>7, <1>9 DEF GspInv
<1> QED BY <1>1, <1>8, <1>9, FilledIsFirst

\* A choice is queued on what the application was.
LEMMA ChooseKeeps ==
  ASSUME GspInv, Shown, NEW field \in Fields, NEW value, Choose(field, value),
         [app.values EXCEPT ![field] = value] \in Contents
  PROVE  GspInv'
<1> DEFINE a == app
           b == [a EXCEPT !.values[field] = value, !.mask = @ \cup {field}]
           c == QueueSave(b)
           choice == [f \in DOMAIN chosen \cup {field} |-> IF f = field THEN value ELSE chosen[f]]
<1>1. /\ GspTypeOK /\ open /\ ~ aborted /\ a # NoApp /\ a \in App
  BY DEF GspInv, GspTypeOK, Shown, Runs
<1>2. app' = c /\ chosen' = choice /\ UNCHANGED <<disk, events, open, changes, aborted, dropped>>
  BY DEF Choose
<1>3. DOMAIN choice = DOMAIN chosen \cup {field} /\ DOMAIN choice \subseteq Fields
  BY <1>1 DEF GspTypeOK
<1>4. /\ b \in App /\ b.pos = a.pos /\ b.path = a.path /\ b.old = a.old /\ b.skip = a.skip
      /\ b.sys = a.sys /\ b.mask = a.mask \cup {field}
      /\ b.values = [a.values EXCEPT ![field] = value]
  BY <1>1 DEF App
<1>5. /\ \A f \in DOMAIN chosen : f \in DOMAIN a.values
      /\ DOMAIN a.values = Fields
  BY <1>1 DEF App, Contents, Fields, GspTypeOK
<1> HIDE DEF b
<1>6. /\ c \in App /\ c.timer = "due" /\ c.pos = USER
      /\ c.sys = a.sys /\ c.values = b.values /\ c.mask = b.mask /\ c.skip = a.skip
      /\ a.pos = USER => c.path = a.path
      /\ a.pos # USER => c.path = USER
      /\ From(c) = From(b) /\ From(b) = From(a)
  BY <1>4, QueueSaveQueues DEF From
<1> HIDE DEF c, a
<1>7. GspTypeOK'
  <2>1. choice = [f \in DOMAIN choice |-> choice[f]]
    OBVIOUS
  <2> HIDE DEF choice
  <2> QED BY <1>1, <1>2, <1>3, <1>6, <2>1 DEF GspTypeOK
<1>8. ASSUME Pending(a, disk, events, chosen) PROVE Pending(c, disk, events, choice)
  <2>1. Has(c.values, choice, {})
    BY <1>3, <1>4, <1>5, <1>6, <1>8 DEF Pending, Has
  <2>2. DOMAIN choice \ c.mask \subseteq DOMAIN chosen \ a.mask
    BY <1>3, <1>4, <1>6
  <2>3. \A f \in DOMAIN choice \ c.mask : choice[f] = chosen[f]
    BY <1>3, <1>4, <1>6
  <2> HIDE DEF choice
  <2> QED BY <1>6, <1>8, <2>1, <2>2, <2>3 DEF Pending, Has
<1>9. ASSUME Tracked(a, disk, events) PROVE Tracked(c, disk, events)
  <2>1. USER \notin System /\ USER # MAXUINT
    BY Numbers
  <2>2. SystemPosition(c, disk, events)
    BY <1>6, <1>9 DEF Tracked, SystemPosition
  <2>3. Place(c, disk)
    <3>1. c.mask # {}
      BY <1>4, <1>6
    <3> QED BY <1>6, <1>9, <2>1, <3>1 DEF Tracked, Place
  <2>4. OwnNewsAwaited(c, disk, events)
    BY <1>6, <1>9 DEF Tracked, OwnNewsAwaited
  <2> QED BY <2>2, <2>3, <2>4 DEF Tracked
<1>10. c # NoApp
  BY <1>6, Kinds
<1> QED BY <1>1, <1>2, <1>7, <1>8, <1>9, <1>10 DEF GspInv, a

LEMMA UserChoiceKeeps ==
  ASSUME GspInv,
         \/ \E enabled \in BOOLEAN : SetEnabled(enabled)
         \/ \E exec \in Execs : Update(exec)
         \/ HideApp
  PROVE  GspInv'
<1>1. Shown => app.values \in Contents
  BY DEF GspInv, GspTypeOK, Shown, App
<1>2. ASSUME NEW enabled \in BOOLEAN, SetEnabled(enabled) PROVE GspInv'
  <2>1. Shown /\ Choose("enabled", enabled)
    BY <1>2 DEF SetEnabled
  <2>2. [app.values EXCEPT !["enabled"] = enabled] \in Contents /\ "enabled" \in Fields
    BY <1>1, <2>1 DEF Contents, Fields
  <2> QED BY <2>1, <2>2, ChooseKeeps
<1>3. ASSUME NEW exec \in Execs, Update(exec) PROVE GspInv'
  <2>1. Shown /\ Choose("exec", exec)
    BY <1>3 DEF Update
  <2>2. [app.values EXCEPT !["exec"] = exec] \in Contents /\ "exec" \in Fields
    BY <1>1, <2>1 DEF Contents, Fields
  <2> QED BY <2>1, <2>2, ChooseKeeps
<1>4. ASSUME HideApp PROVE GspInv'
  <2>1. Shown /\ Choose("hidden", TRUE)
    BY <1>4 DEF HideApp
  <2>2. [app.values EXCEPT !["hidden"] = TRUE] \in Contents /\ "hidden" \in Fields
    BY <1>1, <2>1 DEF Contents, Fields
  <2> QED BY <2>1, <2>2, ChooseKeeps
<1> QED BY <1>2, <1>3, <1>4

LEMMA CreateKeeps ==
  ASSUME GspInv, Polite, NEW exec \in Execs, Create(exec)
  PROVE  GspInv'
<1> DEFINE new == [Populated EXCEPT !.exec = exec]
           b == [values |-> new, pos |-> USER, sys |-> MAXUINT, path |-> USER,
                 old |-> -1, mask |-> Fields, timer |-> "none", skip |-> FALSE]
           c == QueueSave(b)
<1>1. GspTypeOK /\ open /\ ~ aborted /\ app = NoApp /\ events = <<>>
  BY DEF GspInv, Create, Runs, UpToDate, Polite
<1>2. app' = c /\ chosen' = new /\ UNCHANGED <<disk, events, open, changes, aborted, dropped>>
  BY DEF Create
<1>3. new \in Contents /\ DOMAIN new = Fields /\ new = [f \in DOMAIN new |-> new[f]]
  BY DEF Populated, Contents, Fields
<1> HIDE DEF new
<1>4. b \in App
  BY <1>3, Numbers DEF App
<1>5. /\ c \in App /\ c.timer = "due" /\ c.pos = USER /\ c.path = USER
      /\ c.sys = MAXUINT /\ c.values = new /\ c.mask = Fields /\ c.skip = FALSE
  <2>1. /\ b.pos = USER /\ b.path = USER /\ b.sys = MAXUINT /\ b.values = new
        /\ b.mask = Fields /\ b.skip = FALSE
    OBVIOUS
  <2> HIDE DEF b
  <2> QED BY <1>4, <2>1, QueueSaveQueues
<1> HIDE DEF c
<1>6. GspTypeOK'
  BY <1>1, <1>2, <1>3, <1>5 DEF GspTypeOK
<1>7. Pending(c, disk, events, new)
  BY <1>3, <1>5 DEF Pending, Has
<1>8. ASSUME ~ dropped PROVE Tracked(c, disk, events)
  <2>1. Unknown(disk, events) /\ \A d : ~ News(events, d)
    BY <1>1, <1>8 DEF GspInv, News
  <2>2. SystemPosition(c, disk, events)
    BY <1>5, <2>1, Numbers DEF SystemPosition, Unknown
  <2>3. Place(c, disk)
    <3>1. c.mask # {}
      BY <1>5 DEF Fields
    <3> QED BY <1>5, <3>1, Numbers DEF Place
  <2>4. OwnNewsAwaited(c, disk, events)
    BY <1>1, <1>5 DEF OwnNewsAwaited, OwnNews
  <2> QED BY <2>2, <2>3, <2>4 DEF Tracked
<1>9. c # NoApp
  BY <1>5, Kinds
<1> QED BY <1>1, <1>2, <1>6, <1>7, <1>8, <1>9 DEF GspInv

\* The user's file is removed, as no other is known of.
LEMMA DeleteUserAppKeeps ==
  ASSUME GspInv, Polite, DeleteUserApp
  PROVE  GspInv'
<1> DEFINE e == Event(USER, "deleted")
<1>1. /\ GspTypeOK /\ open /\ ~ aborted /\ app # NoApp /\ app \in App /\ events = <<>>
      /\ app.pos = USER /\ app.sys = MAXUINT
  BY DEF GspInv, GspTypeOK, DeleteUserApp, Shown, Runs, UpToDate, Polite
<1>2. /\ app' = NoApp /\ chosen' = NoChoice /\ UNCHANGED <<open, changes, aborted, dropped>>
      /\ disk' = [disk EXCEPT ![app.path] = Missing]
      /\ events' = IF Exists(app.path) THEN Append(events, Event(app.path, "deleted")) ELSE events
  BY DEF DeleteUserApp
<1>3. DOMAIN NoChoice = {} /\ NoChoice = [f \in DOMAIN NoChoice |-> NoChoice[f]]
  BY DEF NoChoice
<1>4. disk' \in [Dirs -> Files]
  BY <1>1, <1>2 DEF GspTypeOK, Files
<1>5. /\ <<>> \in Seq(Events) /\ NewsIsNew(<<>>, disk') /\ OwnNewsFirst(<<>>)
      /\ NewsIsNew(<<>>, disk)
      /\ \A d : ~ News(<<>>, d)
      /\ \A what : ~ OwnNews(<<>>, what)
  BY DEF NewsIsNew, OwnNewsFirst, News, OwnNews
<1>6. ASSUME app.path = USER
      PROVE  /\ events' \in Seq(Events) /\ NewsIsNew(events', disk') /\ OwnNewsFirst(events')
             /\ ~ OwnNews(events', "changed")
  <2>1. CASE Exists(USER)
    <3>1. e \in Events /\ e.dir = USER /\ e.what = "deleted"
      BY Numbers DEF Event, Events
    <3>2. Tells(e, disk'[e.dir]) /\ \A o \in Dirs \ {e.dir} : disk'[o] = disk[o]
      BY <1>1, <1>2, <1>6, <3>1, Numbers DEF Tells, GspTypeOK
    <3>3. events' = Append(events, e)
      BY <1>2, <1>6, <2>1
    <3> HIDE DEF e
    <3>4. events' \in Seq(Events) /\ NewsIsNew(events', disk') /\ OwnNewsFirst(events')
          /\ events'[1] = e
      <4> DEFINE q == events
                 files == disk
                 files2 == disk'
                 r == events'
      <4>1. q \in Seq(Events) /\ NewsIsNew(q, files) /\ OwnNewsFirst(q) /\ q = <<>>
        BY <1>1 DEF GspInv, GspTypeOK
      <4>2. r = Append(q, e) /\ Tells(e, files2[e.dir]) /\ \A o \in Dirs \ {e.dir} : files2[o] = files[o]
        BY <3>2, <3>3
      <4> HIDE DEF q, files, files2, r
      <4>3. r \in Seq(Events) /\ NewsIsNew(r, files2) /\ OwnNewsFirst(r)
        BY <3>1, <4>1, <4>2, NewsAppended
      <4>4. r[1] = e
        BY <4>1, <4>2
      <4> QED BY <4>3, <4>4 DEF r, files2
    <3> QED BY <3>1, <3>4 DEF OwnNews, Event
  <2>2. CASE ~ Exists(USER)
    BY <1>1, <1>2, <1>5, <1>6, <2>2
  <2> QED BY <2>1, <2>2
<1>7. CASE dropped
  \* Even then what is removed is the file of some directory.
  <2>1. events' \in Seq(Events) /\ NewsIsNew(events', disk') /\ OwnNewsFirst(events')
    <3> DEFINE d == app.path
               g == Event(d, "deleted")
    <3>1. g \in Events /\ g.dir = d /\ g.what = "deleted" /\ d \in Dirs
      BY <1>1 DEF Event, Events, App
    <3>2. Tells(g, disk'[g.dir]) /\ \A o \in Dirs \ {g.dir} : disk'[o] = disk[o]
      BY <1>1, <1>2, <3>1 DEF Tells, GspTypeOK
    <3>3. events' = IF Exists(d) THEN Append(events, g) ELSE events
      BY <1>2
    <3> HIDE DEF g, d
    <3>4. CASE Exists(d)
      <4> DEFINE q == events
                 files == disk
                 files2 == disk'
                 r == events'
      <4>1. q \in Seq(Events) /\ NewsIsNew(q, files) /\ OwnNewsFirst(q) /\ q = <<>>
        BY <1>1 DEF GspInv, GspTypeOK
      <4>2. r = Append(q, g) /\ Tells(g, files2[g.dir]) /\ \A o \in Dirs \ {g.dir} : files2[o] = files[o]
        BY <3>2, <3>3, <3>4
      <4> HIDE DEF q, files, files2, r
      <4>3. r \in Seq(Events) /\ NewsIsNew(r, files2) /\ OwnNewsFirst(r)
        BY <3>1, <4>1, <4>2, NewsAppended
      <4> QED BY <4>3 DEF r, files2
    <3>5. CASE ~ Exists(d)
      BY <1>1, <1>5, <3>3, <3>5
    <3> QED BY <3>4, <3>5
  <2> QED BY <1>1, <1>2, <1>3, <1>4, <1>7, <2>1 DEF GspInv, GspTypeOK
<1>8. CASE ~ dropped
  <2>1. Tracked(app, disk, events)
    BY <1>1, <1>8 DEF GspInv
  <2>2. app.path = USER /\ \A d \in System : ~ There(disk, d)
    BY <1>1, <1>5, <2>1, Numbers DEF Tracked, Place, SystemPosition
  <2>3. \A d \in Dirs : ~ There(disk', d)
    BY <1>1, <1>2, <2>2, Numbers DEF There, GspTypeOK
  <2>4. Unknown(disk', events')
    BY <1>6, <2>2, <2>3, Numbers DEF Unknown
  <2> QED BY <1>1, <1>2, <1>3, <1>4, <1>6, <2>2, <2>4 DEF GspInv, GspTypeOK
<1> QED BY <1>7, <1>8

LEMMA CountsAlone ==
  ASSUME NEW files, NEW d, NEW o, Counts(files, d), Counts(files, o)
  PROVE  d = o
BY Numbers DEF Counts, There

\* Others change a file of the system.
LEMMA ExternalKeeps ==
  ASSUME GspInv, NEW d \in System, External(d)
  PROVE  GspInv'
<1>1. GspTypeOK /\ d \in Dirs /\ d # USER
  BY Numbers DEF GspInv
<1>2. PICK file \in Files :
        /\ disk' = [disk EXCEPT ![d] = file]
        /\ events' = IF open THEN Append(events, Event(d, IF file = Missing THEN "deleted" ELSE "changed"))
                     ELSE events
  BY DEF External, Files
<1>3. /\ changes' = changes + 1 /\ UNCHANGED <<app, open, aborted, dropped>>
      /\ chosen' = IF d # USER /\ Exists(USER) THEN chosen
                   ELSE IF app # NoApp /\ app.timer = "due" THEN Unchosen(Fields \ app.mask)
                   ELSE NoChoice
  BY DEF External
<1>4. /\ disk' \in [Dirs -> Files] /\ disk'[d] = file /\ \A o \in Dirs \ {d} : disk'[o] = disk[o]
      /\ There(disk', USER) <=> There(disk, USER)
  BY <1>1, <1>2, Numbers DEF GspTypeOK, There
<1>5. /\ events' \in Seq(Events) /\ NewsIsNew(events', disk') /\ OwnNewsFirst(events')
      /\ open => /\ News(events', d) /\ \A o \in Dirs : News(events, o) => News(events', o)
                 /\ events # <<>> => events' # <<>> /\ events'[1] = events[1]
                 /\ \A what : OwnNews(events', what) => OwnNews(events, what)
  <2>1. CASE open
    <3> DEFINE what == IF file = Missing THEN "deleted" ELSE "changed"
               e == Event(d, what)
    <3>1. e \in Events /\ e.dir = d /\ Tells(e, disk'[e.dir])
      BY <1>1, <1>4 DEF Event, Events, Tells
    <3>2. events' = Append(events, e)
      BY <1>2, <2>1
    <3> HIDE DEF e
    <3>3. /\ events' \in Seq(Events) /\ NewsIsNew(events', disk') /\ OwnNewsFirst(events')
          /\ News(events', d) /\ \A o \in Dirs : News(events, o) => News(events', o)
          /\ events = <<>> => events'[1] = e
          /\ events # <<>> => events' # <<>> /\ events'[1] = events[1]
      <4> DEFINE q == events
                 files == disk
                 files2 == disk'
                 r == events'
      <4>1. q \in Seq(Events) /\ NewsIsNew(q, files) /\ OwnNewsFirst(q)
        BY DEF GspInv, GspTypeOK
      <4>2. /\ r = Append(q, e) /\ Tells(e, files2[e.dir]) /\ (e.dir = USER => q = <<>>)
            /\ \A o \in Dirs \ {e.dir} : files2[o] = files[o]
        BY <1>1, <1>4, <3>1, <3>2
      <4> HIDE DEF q, files, files2, r
      <4>3. /\ r \in Seq(Events) /\ NewsIsNew(r, files2) /\ OwnNewsFirst(r)
            /\ News(r, e.dir) /\ \A o \in Dirs : News(q, o) => News(r, o)
        BY <3>1, <4>1, <4>2, NewsAppended
      <4>4. q = <<>> => r[1] = e
        BY <4>1, <4>2
      <4>5. q # <<>> => r # <<>> /\ r[1] = q[1]
        BY <4>1, <4>2
      <4> QED BY <3>1, <4>3, <4>4, <4>5 DEF q, r, files2
    <3>4. ASSUME NEW w, OwnNews(events', w) PROVE OwnNews(events, w)
      BY <1>1, <3>1, <3>3, <3>4 DEF OwnNews, Event
    <3> QED BY <3>3, <3>4
  <2>2. CASE ~ open
    BY <1>1, <1>2, <2>2 DEF GspTypeOK, NewsIsNew, OwnNewsFirst
  <2> QED BY <2>1, <2>2
<1>6. /\ chosen' = [f \in DOMAIN chosen' |-> chosen'[f]] /\ DOMAIN chosen' \subseteq DOMAIN chosen
      /\ \A f \in DOMAIN chosen' : chosen'[f] = chosen[f]
      /\ There(disk, USER) => chosen' = chosen
      /\ ~ There(disk, USER) =>
           IF app # NoApp /\ app.timer = "due" THEN DOMAIN chosen' \subseteq app.mask
           ELSE DOMAIN chosen' = {}
  <2>1. CASE There(disk, USER)
    BY <1>1, <1>3, <2>1 DEF GspTypeOK, There, Exists
  <2>2. CASE ~ There(disk, USER)
    BY <1>1, <1>3, <2>2, Numbers DEF GspTypeOK, There, Exists, Unchosen, NoChoice
  <2> QED BY <2>1, <2>2
<1>7. GspTypeOK'
  <2>1. changes' \in Nat /\ (~ open => events' = <<>>)
    BY <1>1, <1>2, <1>3 DEF GspTypeOK
  <2> QED BY <1>1, <1>3, <1>4, <1>5, <1>6, <2>1 DEF GspTypeOK
<1>8. ASSUME NEW o, Counts(disk, o), There(disk, USER) PROVE Counts(disk', o) /\ o = USER
  BY <1>4, <1>8, Numbers DEF Counts, There
<1>9. ASSUME Settled(disk, chosen), app = NoApp PROVE Settled(disk', chosen')
  <2>1. CASE There(disk, USER)
    BY <1>1, <1>4, <1>6, <1>8, <1>9, <2>1, Numbers DEF Settled
  <2>2. CASE ~ There(disk, USER)
    BY <1>6, <1>9, <2>2 DEF Settled
  <2> QED BY <2>1, <2>2
<1>10. ASSUME app \in App, Pending(app, disk, events, chosen)
       PROVE  Pending(app, disk', events', chosen')
  <2>1. Has(app.values, chosen', {}) /\ (app.timer # "due" => DOMAIN chosen' \cap app.mask = {})
    BY <1>6, <1>10 DEF Pending, Has
  <2>2. CASE There(disk, USER)
    <3>1. ASSUME DOMAIN chosen \ app.mask # {}
          PROVE  Counts(disk', From(app)) /\ disk'[From(app)] = disk[From(app)]
      BY <1>1, <1>4, <1>8, <1>10, <2>2, <3>1, Numbers DEF Pending
    <3> QED BY <1>4, <1>6, <1>10, <2>1, <2>2, <3>1 DEF Pending
  <2>3. CASE ~ There(disk, USER)
    <3>1. DOMAIN chosen' \ app.mask = {}
      BY <1>6, <2>3
    <3> QED BY <2>1, <3>1 DEF Pending
  <2> QED BY <2>2, <2>3
<1>11. ASSUME open, Unknown(disk, events) PROVE Unknown(disk', events')
  <2>1. ASSUME NEW o \in System, There(disk', o) PROVE News(events', o)
    BY <1>4, <1>5, <1>11, <2>1, Numbers DEF Unknown, There
  <2> QED BY <1>4, <1>5, <1>11, <2>1 DEF Unknown
<1>12. ASSUME open, app \in App, Tracked(app, disk, events) PROVE Tracked(app, disk', events')
  <2>1. SystemPosition(app, disk', events')
    <3>1. ASSUME NEW o \in System, o < app.sys, There(disk', o) PROVE News(events', o)
      BY <1>4, <1>5, <1>12, <3>1, Numbers DEF Tracked, SystemPosition, There
    <3>2. ASSUME app.sys \in System, ~ There(disk', app.sys) PROVE News(events', app.sys)
      BY <1>4, <1>5, <1>12, <3>2, Numbers DEF Tracked, SystemPosition, There
    <3> QED BY <1>12, <3>1, <3>2 DEF Tracked, SystemPosition
  <2>2. Place(app, disk')
    BY <1>4, <1>12 DEF Tracked, Place
  <2>3. OwnNewsAwaited(app, disk', events')
    <3>1. ASSUME NEW what, OwnNews(events, what) PROVE OwnNews(events', what)
      BY <1>5, <1>12, <3>1 DEF OwnNews
    <3> QED BY <1>4, <1>5, <1>12, <3>1 DEF Tracked, OwnNewsAwaited
  <2> QED BY <2>1, <2>2, <2>3 DEF Tracked
<1>13. app # NoApp => open /\ app \in App
  BY <1>1 DEF GspTypeOK
<1> QED
  BY <1>1, <1>3, <1>5, <1>6, <1>7, <1>9, <1>10, <1>11, <1>12, <1>13 DEF GspInv, GspTypeOK

-----------------------------------------------------------------------------
(* Saving *)

\* The news of the dialog's own writing
LEMMA OwnNewsTold ==
  ASSUME NEW files, NEW e \in Events, e.dir = USER, Tells(e, files[USER]),
         NEW r, r = Append(<<>>, e)
  PROVE  /\ r \in Seq(Events) /\ NewsIsNew(r, files) /\ OwnNewsFirst(r)
         /\ r # <<>> /\ r[1] = e /\ \A k \in 1..Len(r) : r[k].dir = USER
<1>1. r \in Seq(Events) /\ Len(r) = 1 /\ r[1] = e /\ r # <<>>
  OBVIOUS
<1>2. \A k \in 1..Len(r) : r[k] = e
  BY <1>1
<1> QED BY <1>1, <1>2 DEF NewsIsNew, OwnNewsFirst

\* What _gsp_app_save writes is a file, and has what was chosen.
LEMMA SavedHas ==
  ASSUME NEW a \in App, disk \in [Dirs -> Files], DOMAIN chosen \subseteq Fields,
         Has(a.values, chosen, {}),
         DOMAIN chosen \ a.mask # {} =>
           There(disk, From(a)) /\ Has(disk[From(a)], chosen, a.mask)
  PROVE  Has(Saved(a), chosen, {})
<1>1. \A f \in Fields : Saved(a)[f] =
        IF f \in a.mask THEN a.values[f]
        ELSE (IF Exists(From(a)) THEN disk[From(a)] ELSE Populated)[f]
  BY DEF Saved, From
<1>2. ASSUME NEW f \in DOMAIN chosen PROVE Saved(a)[f] = chosen[f]
  <2>1. CASE f \in a.mask
    BY <1>1, <2>1 DEF Has
  <2>2. CASE f \notin a.mask
    <3>1. Exists(From(a)) /\ disk[From(a)][f] = chosen[f]
      BY <2>2 DEF Has, There, Exists
    <3> QED BY <1>1, <2>2, <3>1
  <2> QED BY <2>1, <2>2
<1> QED BY <1>2 DEF Has

LEMMA SavedIsContents ==
  ASSUME NEW a \in App, disk \in [Dirs -> Files]
  PROVE  Saved(a) \in Contents
<1>1. a.values \in Contents /\ Populated \in Contents
  <2>1. a.values \in Contents
    BY DEF App
  <2>2. (CHOOSE x \in Execs : TRUE) \in Execs
    BY <2>1 DEF Contents
  <2> QED BY <2>1, <2>2 DEF Populated, Contents
<1>2. ASSUME NEW d, Exists(d) PROVE disk[d] \in Contents
  BY <1>2 DEF Exists, Files
<1> DEFINE from == IF a.old = -1 THEN a.path ELSE a.old
           base == IF Exists(from) THEN disk[from] ELSE Populated
<1>3. base \in Contents
  BY <1>1, <1>2
<1> HIDE DEF base
<1>4. Saved(a) = [f \in Fields |-> IF f \in a.mask THEN a.values[f] ELSE base[f]]
  BY DEF Saved, base
<1> QED BY <1>1, <1>3, <1>4 DEF Contents, Fields

\* Nothing is under way at a save, and what is known of the application is so.
LEMMA AtSave ==
  ASSUME GspInv, app # NoApp, events = <<>>
  PROVE  /\ GspTypeOK /\ app \in App /\ open /\ disk \in [Dirs -> Files]
         /\ NewsIsNew(<<>>, disk) /\ OwnNewsFirst(<<>>) /\ <<>> \in Seq(Events)
         /\ ~ dropped => Pending(app, disk, events, chosen)
         /\ ~ dropped /\ ~ aborted =>
              /\ app.sys >= 1 /\ ~ app.skip /\ Place(app, disk)
              /\ \A d \in System : There(disk, d) => ~ (d < app.sys)
              /\ app.sys \in System => There(disk, app.sys)
<1>1. GspTypeOK /\ app \in App /\ open /\ disk \in [Dirs -> Files]
  BY DEF GspInv, GspTypeOK
<1>2. <<>> \in Seq(Events) /\ \A d : ~ News(events, d)
  BY DEF News
<1> QED BY <1>1, <1>2 DEF GspInv, Tracked, SystemPosition, OwnNewsAwaited, OwnNews

LEMMA SaveRemovesKeeps ==
  ASSUME GspInv, ~ aborted, app # NoApp, app.timer = "due", events = <<>>, SaveRemoves(app),
         app' = [Done(app) EXCEPT !.path = app.sys, !.pos = app.sys, !.timer = "stale"],
         UNCHANGED <<chosen, open, changes, aborted, dropped>>
  PROVE  GspInv'
<1> DEFINE a == app
           b == app'
           e == Event(USER, "deleted")
<1>1. /\ GspTypeOK /\ a \in App /\ open /\ disk \in [Dirs -> Files]
      /\ NewsIsNew(<<>>, disk) /\ OwnNewsFirst(<<>>) /\ <<>> \in Seq(Events)
      /\ ~ dropped => Pending(a, disk, events, chosen)
      /\ ~ dropped =>
           /\ a.sys >= 1 /\ ~ a.skip /\ Place(a, disk)
           /\ \A d \in System : There(disk, d) => ~ (d < a.sys)
  BY AtSave
<1>2. There(disk, a.sys) /\ a.sys \in Dirs /\ disk[a.sys] = a.values
  BY DEF SaveRemoves, UserEqualsSystem, Exists, There
<1>3. /\ b \in App /\ b.path = a.sys /\ b.pos = a.sys /\ b.sys = a.sys /\ b.timer = "stale"
      /\ b.old = -1 /\ b.mask = {} /\ b.skip = a.skip /\ b.values = a.values
  <2>1. b = [a EXCEPT !.mask = {}, !.old = -1, !.path = a.sys, !.pos = a.sys, !.timer = "stale"]
    BY <1>1 DEF Done, App
  <2>2. a.sys \in 0..MAXUINT /\ a.sys \in Dirs
    BY <1>1, <1>2 DEF App
  <2> HIDE DEF a, b
  <2> QED BY <1>1, <2>1, <2>2 DEF App
<1>4. /\ IF a.path = USER /\ Exists(USER)
         THEN disk' = [disk EXCEPT ![USER] = Missing] /\ events' = Append(events, e)
         ELSE UNCHANGED <<disk, events>>
  BY DEF SaveRemoves
<1> HIDE DEF a, b
<1>5. disk' \in [Dirs -> Files] /\ \A d \in Dirs \ {USER} : disk'[d] = disk[d]
  BY <1>1, <1>4 DEF Files
<1>6. /\ events' \in Seq(Events) /\ NewsIsNew(events', disk') /\ OwnNewsFirst(events')
      /\ \A k \in 1..Len(events') : events'[k].dir = USER
      /\ ~ OwnNews(events', "changed")
  <2>1. CASE a.path = USER /\ Exists(USER)
    <3> DEFINE files == disk'
               r == events'
    <3>1. e \in Events /\ e.dir = USER /\ e.what = "deleted"
      BY Numbers DEF Event, Events
    <3>2. Tells(e, files[USER])
      BY <1>1, <1>4, <2>1, <3>1, Numbers DEF Tells
    <3>3. r = Append(<<>>, e)
      BY <1>4, <2>1
    <3> HIDE DEF e, r, files
    <3>4. r \in Seq(Events) /\ NewsIsNew(r, files) /\ OwnNewsFirst(r) /\ r[1] = e
      BY <3>1, <3>2, <3>3, OwnNewsTold
    <3>5. \A k \in 1..Len(r) : r[k].dir = USER
      BY <3>1, <3>2, <3>3, OwnNewsTold
    <3> QED BY <3>1, <3>4, <3>5 DEF OwnNews, Event, r, files
  <2>2. CASE ~ (a.path = USER /\ Exists(USER))
    <3>1. UNCHANGED <<disk, events>>
      BY <1>4, <2>2
    <3>2. Len(<<>>) = 0
      OBVIOUS
    <3> QED BY <1>1, <3>1, <3>2 DEF OwnNews
  <2> QED BY <2>1, <2>2
<1>7. GspTypeOK'
  BY <1>1, <1>3, <1>5, <1>6 DEF GspTypeOK, b
<1>8. ASSUME ~ dropped PROVE Pending(b, disk', events', chosen') /\ Tracked(b, disk', events')
  <2>1. a.path = USER /\ a.sys \in System /\ a.timer = "due"
    BY <1>1, <1>2, <1>8, Numbers DEF Place, a
  <2>2. ~ There(disk', USER)
    BY <1>1, <1>4, <2>1, Numbers DEF There, Exists
  <2>3. Counts(disk', a.sys) /\ disk'[a.sys] = a.values
    <3>1. There(disk', a.sys) /\ disk'[a.sys] = a.values
      BY <1>2, <1>5, <2>1, Numbers DEF There
    <3>2. ASSUME NEW o \in Dirs, There(disk', o) PROVE a.sys <= o
      <4>1. o \in System /\ There(disk, o)
        BY <1>5, <2>2, <3>2, Numbers DEF There
      <4> QED BY <1>1, <1>8, <2>1, <4>1, Numbers
    <3> QED BY <3>1, <3>2 DEF Counts
  <2>4. Pending(b, disk', events', chosen')
    <3>1. From(b) = a.sys /\ b.timer # "due" /\ b.mask = {} /\ b.values = a.values
      BY <1>3 DEF From
    <3>2. Has(a.values, chosen, {})
      BY <1>1, <1>8 DEF Pending
    <3> QED BY <1>6, <2>3, <3>1, <3>2 DEF Pending
  <2>5. SystemPosition(b, disk', events')
    BY <1>3, <2>1, <2>3, Numbers DEF SystemPosition, Counts
  <2>6. Place(b, disk')
    BY <1>3, <2>1, <2>2, Numbers DEF Place
  <2>7. OwnNewsAwaited(b, disk', events')
    BY <1>1, <1>3, <1>6, <1>8, <2>1 DEF OwnNewsAwaited
  <2> QED BY <2>4, <2>5, <2>6, <2>7 DEF Tracked
<1>9. app' # NoApp
  BY <1>3, Kinds DEF b
<1> QED BY <1>1, <1>6, <1>7, <1>8, <1>9 DEF GspInv, b

LEMMA SaveWritesKeeps ==
  ASSUME GspInv, ~ aborted, app # NoApp, app.timer = "due", events = <<>>, SaveWrites(app),
         app' = [Done(app) EXCEPT !.timer = "none", !.skip = TRUE],
         UNCHANGED <<chosen, open, changes, aborted, dropped>>
  PROVE  GspInv'
<1> DEFINE a == app
           b == app'
           e == Event(USER, "changed")
           files == disk'
           r == events'
<1>1. /\ GspTypeOK /\ a \in App /\ open /\ disk \in [Dirs -> Files]
      /\ ~ dropped => Pending(a, disk, events, chosen)
      /\ ~ dropped =>
           /\ a.sys >= 1 /\ ~ a.skip /\ Place(a, disk)
           /\ \A d \in System : There(disk, d) => ~ (d < a.sys)
           /\ a.sys \in System => There(disk, a.sys)
  BY AtSave
<1>2. a.path = USER /\ files = [disk EXCEPT ![USER] = Saved(a)] /\ r = Append(<<>>, e)
  BY DEF SaveWrites
<1>3. /\ b \in App /\ b.path = USER /\ b.pos = a.pos /\ b.sys = a.sys /\ b.timer = "none"
      /\ b.old = -1 /\ b.mask = {} /\ b.skip /\ b.values = a.values
  <2>1. b = [a EXCEPT !.mask = {}, !.old = -1, !.timer = "none", !.skip = TRUE]
    BY <1>1 DEF Done, App
  <2> HIDE DEF a, b
  <2> QED BY <1>1, <1>2, <2>1 DEF App
<1>4. Saved(a) \in Contents /\ Saved(a) # Missing
  BY <1>1, SavedIsContents, Kinds
<1>5. a # NoApp /\ a.timer = "due"
  OBVIOUS
<1> HIDE DEF a, b, files, r
<1>6. /\ files \in [Dirs -> Files] /\ files[USER] = Saved(a) /\ There(files, USER)
      /\ \A d \in Dirs \ {USER} : files[d] = disk[d]
  BY <1>1, <1>2, <1>4, Numbers DEF Files, There
<1>7. /\ r \in Seq(Events) /\ NewsIsNew(r, files) /\ OwnNewsFirst(r)
      /\ OwnNews(r, "changed") /\ ~ OwnNews(r, "deleted")
  <2>1. e \in Events /\ e.dir = USER /\ e.what = "changed" /\ Tells(e, files[USER])
    BY <1>4, <1>6, Numbers DEF Event, Events, Tells
  <2>2. r \in Seq(Events) /\ NewsIsNew(r, files) /\ OwnNewsFirst(r) /\ r # <<>> /\ r[1] = e
    <3> HIDE DEF e
    <3> QED BY <1>2, <2>1, OwnNewsTold
  <2> QED BY <2>1, <2>2 DEF OwnNews, Event
<1>8. GspTypeOK'
  BY <1>1, <1>3, <1>6, <1>7 DEF GspTypeOK, b, files, r
<1>9. ASSUME ~ dropped PROVE Pending(b, files, r, chosen) /\ Tracked(b, files, r)
  <2>1. Has(a.values, chosen, {}) /\ Has(Saved(a), chosen, {})
    <3>1. Has(a.values, chosen, {}) /\ DOMAIN chosen \subseteq Fields
      BY <1>1, <1>9 DEF Pending, GspTypeOK
    <3>2. DOMAIN chosen \ a.mask # {} =>
            There(disk, From(a)) /\ Has(disk[From(a)], chosen, a.mask)
      BY <1>1, <1>9 DEF Pending, Counts
    <3> QED BY <1>1, <3>1, <3>2, SavedHas
  <2>2. Counts(files, USER) /\ From(b) = USER
    BY <1>3, <1>6, Numbers DEF Counts, There, From
  <2>3. Pending(b, files, r, chosen)
    BY <1>3, <1>6, <2>1, <2>2 DEF Pending
  <2>4. SystemPosition(b, files, r)
    <3>1. \A d \in System : There(files, d) <=> There(disk, d)
      BY <1>6, Numbers DEF There
    <3> QED BY <1>1, <1>3, <1>9, <3>1 DEF SystemPosition
  <2>5. Place(b, files)
    BY <1>1, <1>3, <1>5, <1>6, <1>9, Numbers DEF Place
  <2>6. OwnNewsAwaited(b, files, r)
    BY <1>1, <1>3, <1>5, <1>6, <1>7, <1>9 DEF OwnNewsAwaited, Place
  <2> QED BY <2>3, <2>4, <2>5, <2>6 DEF Tracked
<1>10. app' # NoApp
  BY <1>3, Kinds DEF b
<1> QED BY <1>1, <1>7, <1>8, <1>9, <1>10 DEF GspInv, b, files, r

LEMMA SaveFailsKeeps ==
  ASSUME GspInv, ~ aborted, app # NoApp, app.timer = "due", events = <<>>, SaveFails(app),
         app' = [app EXCEPT !.timer = "none"], chosen' = Unchosen(app.mask),
         UNCHANGED <<open, changes, aborted, dropped>>
  PROVE  GspInv'
<1> DEFINE a == app
           b == app'
           choice == chosen'
<1>1. /\ GspTypeOK /\ a \in App /\ open /\ disk \in [Dirs -> Files]
      /\ ~ dropped => Pending(a, disk, events, chosen)
      /\ ~ dropped =>
           /\ a.sys >= 1 /\ ~ a.skip /\ Place(a, disk)
           /\ \A d \in System : There(disk, d) => ~ (d < a.sys)
           /\ a.sys \in System => There(disk, a.sys)
  BY AtSave
<1>2. UNCHANGED <<disk, events>> /\ a.timer = "due" /\ events = <<>>
  BY DEF SaveFails
<1>3. /\ b \in App /\ b.path = a.path /\ b.pos = a.pos /\ b.sys = a.sys /\ b.timer = "none"
      /\ b.old = a.old /\ b.mask = a.mask /\ b.skip = a.skip /\ b.values = a.values
  <2>1. b = [a EXCEPT !.timer = "none"]
    OBVIOUS
  <2> HIDE DEF a, b
  <2> QED BY <1>1, <2>1 DEF App
<1>4. /\ DOMAIN choice = DOMAIN chosen \ a.mask /\ choice = [f \in DOMAIN choice |-> choice[f]]
      /\ \A f \in DOMAIN choice : choice[f] = chosen[f]
  BY DEF Unchosen
<1> HIDE DEF a, b, choice
<1>5. GspTypeOK'
  BY <1>1, <1>2, <1>3, <1>4 DEF GspTypeOK, b, choice
<1>6. ASSUME ~ dropped PROVE Pending(b, disk, events, choice) /\ Tracked(b, disk, events)
  <2>1. Pending(a, disk, events, chosen) /\ From(b) = From(a)
    BY <1>1, <1>3, <1>6 DEF From
  <2>2. Has(b.values, choice, {}) /\ DOMAIN choice \cap b.mask = {}
    BY <1>3, <1>4, <2>1 DEF Pending, Has
  <2>3. Pending(b, disk, events, choice)
    BY <1>3, <1>4, <2>1, <2>2 DEF Pending, Has
  <2>4. SystemPosition(b, disk, events)
    BY <1>1, <1>3, <1>6 DEF SystemPosition
  <2>5. Place(b, disk)
    BY <1>1, <1>2, <1>3, <1>6, Numbers DEF Place
  <2>6. OwnNewsAwaited(b, disk, events)
    BY <1>1, <1>2, <1>3, <1>6 DEF OwnNewsAwaited, OwnNews
  <2> QED BY <2>3, <2>4, <2>5, <2>6 DEF Tracked
<1>7. app' # NoApp
  BY <1>3, Kinds DEF b
<1> QED BY <1>1, <1>2, <1>5, <1>6, <1>7 DEF GspInv, b, choice

LEMMA SaveTimeoutKeeps ==
  ASSUME GspInv, Polite, SaveTimeout
  PROVE  GspInv'
<1>1. ~ aborted /\ app # NoApp /\ app.timer = "due" /\ events = <<>>
  BY DEF SaveTimeout, Runs, UpToDate, Polite
<1> QED BY <1>1, SaveRemovesKeeps, SaveWritesKeeps, SaveFailsKeeps DEF SaveTimeout

\* The dialog is closed, and saves or gives up what is pending.
LEMMA CloseKeeps ==
  ASSUME GspInv, Polite, Close
  PROVE  GspInv'
<1> DEFINE a == app
           files == disk'
           choice == chosen'
<1>1. /\ GspTypeOK /\ open /\ ~ aborted /\ events = <<>> /\ disk \in [Dirs -> Files]
      /\ app' = NoApp /\ events' = <<>> /\ open' = FALSE /\ UNCHANGED <<changes, aborted, dropped>>
  BY DEF GspInv, GspTypeOK, Close, Runs, UpToDate, Polite
<1>2. <<>> \in Seq(Events) /\ NewsIsNew(<<>>, files) /\ OwnNewsFirst(<<>>)
  BY DEF NewsIsNew, OwnNewsFirst
<1>3. a # NoApp =>
        /\ a \in App
        /\ ~ dropped => Pending(a, disk, events, chosen)
        /\ ~ dropped =>
             /\ a.sys >= 1 /\ ~ a.skip /\ Place(a, disk)
             /\ \A d \in System : There(disk, d) => ~ (d < a.sys)
  BY <1>1, AtSave
<1>4. \/ /\ a # NoApp /\ a.timer # "none" /\ UserEqualsSystem(a) /\ choice = chosen
         /\ files = IF a.path = USER THEN [disk EXCEPT ![USER] = Missing] ELSE disk
      \/ /\ a # NoApp /\ a.timer # "none" /\ a.path = USER /\ choice = chosen
         /\ files = [disk EXCEPT ![USER] = Saved(a)]
      \/ files = disk /\ choice = IF a = NoApp THEN chosen ELSE Unchosen(a.mask)
  BY DEF Close
<1>5. a = NoApp /\ ~ dropped => DOMAIN chosen = {}
  BY <1>1 DEF GspInv
<1> HIDE DEF a, files, choice
<1>6. SUFFICES /\ files \in [Dirs -> Files]
               /\ DOMAIN choice \subseteq Fields /\ choice = [f \in DOMAIN choice |-> choice[f]]
               /\ ~ dropped => Settled(files, choice)
  BY <1>1, <1>2 DEF GspInv, GspTypeOK, files, choice
<1>7. CASE /\ a # NoApp /\ a.timer # "none" /\ UserEqualsSystem(a) /\ choice = chosen
           /\ files = IF a.path = USER THEN [disk EXCEPT ![USER] = Missing] ELSE disk
  <2>1. files \in [Dirs -> Files] /\ \A d \in Dirs \ {USER} : files[d] = disk[d]
    BY <1>1, <1>7 DEF Files
  <2>2. ASSUME ~ dropped PROVE Settled(files, choice)
    <3>1. There(disk, a.sys) /\ a.sys \in System /\ disk[a.sys] = a.values
      BY <1>3, <1>7, <2>2, Numbers DEF UserEqualsSystem, Exists, There
    <3>2. a.path = USER \/ (a.path # USER /\ ~ There(disk, USER))
      BY <1>3, <1>7, <2>2, Numbers DEF Place, App
    <3>3. ~ There(files, USER)
      BY <1>1, <1>7, <3>2, Numbers DEF There
    <3>4. There(files, a.sys) /\ files[a.sys] = a.values
      BY <2>1, <3>1, Numbers DEF There
    <3>5. ASSUME NEW o \in Dirs, There(files, o) PROVE a.sys <= o
      <4>1. o \in System /\ There(disk, o)
        BY <2>1, <3>3, <3>5, Numbers DEF There
      <4> QED BY <1>3, <1>7, <2>2, <3>1, <4>1, Numbers
    <3>6. Counts(files, a.sys) /\ a.sys \in Dirs
      BY <3>4, <3>5 DEF Counts, There
    <3>7. Has(files[a.sys], choice, {})
      BY <1>3, <1>7, <2>2, <3>4 DEF Pending
    <3> QED BY <3>6, <3>7 DEF Settled
  <2> QED BY <1>1, <1>7, <2>1, <2>2 DEF GspTypeOK
<1>8. CASE /\ a # NoApp /\ a.timer # "none" /\ a.path = USER /\ choice = chosen
           /\ files = [disk EXCEPT ![USER] = Saved(a)]
  <2>1. Saved(a) \in Contents /\ Saved(a) # Missing
    BY <1>1, <1>3, <1>8, SavedIsContents, Kinds
  <2>2. files \in [Dirs -> Files] /\ files[USER] = Saved(a)
    BY <1>1, <1>8, <2>1, Numbers DEF Files
  <2>3. ASSUME ~ dropped PROVE Settled(files, choice)
    <3>1. Counts(files, USER) /\ USER \in Dirs
      BY <2>1, <2>2, Numbers DEF Counts, There
    <3>2. Has(a.values, chosen, {}) /\ DOMAIN chosen \subseteq Fields
      BY <1>1, <1>3, <1>8, <2>3 DEF Pending, GspTypeOK
    <3>3. DOMAIN chosen \ a.mask # {} =>
            There(disk, From(a)) /\ Has(disk[From(a)], chosen, a.mask)
      BY <1>3, <1>8, <2>3 DEF Pending, Counts
    <3>4. Has(Saved(a), chosen, {})
      BY <1>1, <1>3, <1>8, <3>2, <3>3, SavedHas
    <3> QED BY <1>8, <2>2, <3>1, <3>4 DEF Settled
  <2> QED BY <1>1, <1>8, <2>2, <2>3 DEF GspTypeOK
<1>9. CASE files = disk /\ choice = IF a = NoApp THEN chosen ELSE Unchosen(a.mask)
  <2>1. CASE a = NoApp
    BY <1>1, <1>5, <1>9, <2>1 DEF GspTypeOK, Settled
  <2>2. CASE a # NoApp
    <3>1. /\ DOMAIN choice = DOMAIN chosen \ a.mask
          /\ choice = [f \in DOMAIN choice |-> choice[f]]
          /\ \A f \in DOMAIN choice : choice[f] = chosen[f]
      BY <1>9, <2>2 DEF Unchosen
    <3>2. ASSUME ~ dropped, DOMAIN choice # {} PROVE Settled(disk, choice)
      <4>1. Counts(disk, From(a)) /\ Has(disk[From(a)], chosen, a.mask)
        BY <1>3, <2>2, <3>1, <3>2 DEF Pending
      <4>2. From(a) \in Dirs /\ Has(disk[From(a)], choice, {})
        BY <3>1, <4>1 DEF Counts, There, Has
      <4> QED BY <4>1, <4>2 DEF Settled
    <3> QED BY <1>1, <1>9, <3>1, <3>2 DEF GspTypeOK, Settled
  <2> QED BY <2>1, <2>2
<1> QED BY <1>4, <1>7, <1>8, <1>9

-----------------------------------------------------------------------------
(* The monitor *)

\* What the news e, the first of q, and the rest r of it mean
Heard(q, e, r, files) ==
  /\ \A what : OwnNews(q, what) <=> e.dir = USER /\ e.what = what
  /\ \A what : ~ OwnNews(r, what)
  /\ ~ News(r, USER)
  /\ \A d \in Dirs : News(q, d) /\ d # e.dir => News(r, d)
  /\ ~ Tells(e, files[e.dir]) => News(r, e.dir)
  /\ (\A k \in 1..Len(q) : q[k].dir = USER) =>
       e.dir = USER /\ \A k \in 1..Len(r) : r[k].dir = USER

LEMMA MonitorHears ==
  ASSUME NEW q \in Seq(Events), NEW files, q # <<>>, NewsIsNew(q, files), OwnNewsFirst(q)
  PROVE  /\ Head(q) \in Events /\ Tail(q) \in Seq(Events)
         /\ NewsIsNew(Tail(q), files) /\ OwnNewsFirst(Tail(q))
         /\ Heard(q, Head(q), Tail(q), files)
<1> DEFINE e == Head(q)
           r == Tail(q)
<1>1. /\ e \in Events /\ e = q[1]
      /\ r \in Seq(Events) /\ NewsIsNew(r, files) /\ OwnNewsFirst(r)
      /\ \A what : ~ OwnNews(r, what)
      /\ \A d \in Dirs : News(q, d) /\ d # e.dir => News(r, d)
      /\ ~ Tells(e, files[e.dir]) => News(r, e.dir)
      /\ (\A k \in 1..Len(q) : q[k].dir = USER) => r = <<>>
      /\ ~ News(r, USER)
  BY NewsHeard
<1>2. 1 \in 1..Len(q) /\ Len(<<>>) = 0
  OBVIOUS
<1>3. ASSUME NEW what PROVE OwnNews(q, what) <=> e.dir = USER /\ e.what = what
  <2>1. e = [dir |-> e.dir, what |-> e.what]
    <3> HIDE DEF e
    <3> QED BY <1>1 DEF Events
  <2> HIDE DEF e
  <2> QED BY <1>1, <2>1 DEF OwnNews, Event
<1> HIDE DEF e, r
<1>4. (\A k \in 1..Len(q) : q[k].dir = USER) =>
        e.dir = USER /\ \A k \in 1..Len(r) : r[k].dir = USER
  BY <1>1, <1>2
<1>5. Heard(q, e, r, files)
  BY <1>1, <1>3, <1>4 DEF Heard
<1> QED BY <1>1, <1>5 DEF e, r

\* The choices are kept as long as the application and its file are.
LEMMA PendingStays ==
  ASSUME NEW a, NEW b, NEW q, NEW r, NEW e, NEW files, NEW choice,
         Pending(a, files, q, choice), Heard(q, e, r, files),
         b.values = a.values, b.timer = a.timer, b.mask = a.mask,
         b.path = a.path, b.old = a.old
  PROVE  Pending(b, files, r, choice)
<1>1. From(b) = From(a)
  BY DEF From
<1> QED BY <1>1 DEF Pending, Heard

\* A new application is of the system.
LEMMA HeardWithoutApp ==
  ASSUME NEW q, NEW r, NEW e \in Events, NEW choice, disk \in [Dirs -> Files],
         DOMAIN choice = {}, Unknown(disk, q), Heard(q, e, r, disk)
  PROVE  /\ e.what = "deleted" => Unknown(disk, r)
         /\ e.what = "changed" =>
              \/ ~ Exists(e.dir) /\ Unknown(disk, r)
              \/ /\ Exists(e.dir) /\ Fresh(e.dir) \in App
                 /\ Pending(Fresh(e.dir), disk, r, choice) /\ Tracked(Fresh(e.dir), disk, r)
<1> DEFINE d == e.dir
           b == Fresh(d)
<1>1. d \in Dirs /\ e.what \in {"changed", "deleted"}
  BY DEF Events
<1>2. ASSUME e.what = "deleted" \/ ~ Exists(d) PROVE Unknown(disk, r)
  <2>1. ASSUME NEW o \in System, There(disk, o) PROVE News(r, o)
    <3>1. News(q, o) /\ o \in Dirs
      BY <2>1, Numbers DEF Unknown
    <3>2. o = d => ~ Tells(e, disk[e.dir])
      BY <1>2, <2>1 DEF Tells, There, Exists
    <3> QED BY <3>1, <3>2 DEF Heard
  <2> QED BY <2>1 DEF Unknown, Heard
<1>3. ASSUME e.what = "changed", Exists(d)
      PROVE  b \in App /\ Pending(b, disk, r, choice) /\ Tracked(b, disk, r)
  <2>1. d \in System /\ There(disk, d) /\ disk[d] \in Contents
    <3>1. d # USER /\ There(disk, d)
      BY <1>3 DEF Unknown, There, Exists
    <3> QED BY <1>1, <3>1, FileIsThere, Numbers
  <2>2. b = [values |-> disk[d], pos |-> d, sys |-> d, path |-> d,
             old |-> -1, mask |-> {}, timer |-> "none", skip |-> FALSE]
    <3>1. d > USER
      BY <2>1, Numbers
    <3> HIDE DEF d
    <3> QED BY <3>1 DEF Fresh
  <2>3. d \in 0..MAXUINT
    BY <2>1, Numbers
  <2> HIDE DEF b, d
  <2>4. /\ b.values = disk[d] /\ b.pos = d /\ b.sys = d /\ b.path = d
        /\ b.old = -1 /\ b.mask = {} /\ b.timer = "none" /\ b.skip = FALSE
    BY <2>2
  <2>5. b \in App
    BY <1>1, <2>1, <2>2, <2>3 DEF App
  <2>6. Pending(b, disk, r, choice)
    BY <2>4 DEF Pending, Has
  <2>7. SystemPosition(b, disk, r)
    <3>1. ASSUME NEW o \in System, There(disk, o), o < d PROVE News(r, o)
      <4>1. o # d /\ o \in Dirs
        BY <2>1, <3>1, Numbers
      <4> QED BY <3>1, <4>1 DEF Unknown, Heard, d
    <3> QED BY <2>1, <2>4, <3>1, Numbers DEF SystemPosition
  <2>8. Place(b, disk)
    BY <2>1, <2>4, Numbers DEF Place, Unknown
  <2>9. OwnNewsAwaited(b, disk, r)
    BY <2>4 DEF OwnNewsAwaited, Heard
  <2> QED BY <2>5, <2>6, <2>7, <2>8, <2>9 DEF Tracked
<1> QED BY <1>1, <1>2, <1>3

LEMMA LoadLoads ==
  ASSUME NEW a \in App, NEW d \in Dirs, disk \in [Dirs -> Files], Exists(d)
  PROVE  LET b == Load(a, d)
         IN  /\ b \in App
             /\ b.values = disk[d] /\ b.pos = d /\ b.path = d /\ b.mask = a.mask
             /\ b.timer = "none" /\ b.old = -1 /\ b.skip = FALSE
             /\ d = USER => b.sys = a.sys
             /\ d # USER => b.sys = d
<1> DEFINE sys == IF d > USER THEN d ELSE a.sys
           b == [a EXCEPT !.values = disk[d], !.path = d, !.pos = d, !.sys = sys,
                          !.timer = "none", !.old = -1, !.skip = FALSE]
<1>1. Load(a, d) = b
  BY DEF Load
<1>2. /\ d \in 0..MAXUINT /\ sys \in 0..MAXUINT
      /\ d = USER => sys = a.sys
      /\ d # USER => sys = d
  <2>1. a.sys \in 0..MAXUINT
    BY DEF App
  <2> QED BY <2>1, Numbers
<1>3. disk[d] \in Contents
  BY DEF Exists, Files
<1> HIDE DEF sys
<1>4. /\ b \in App /\ b.values = disk[d] /\ b.pos = d /\ b.path = d /\ b.mask = a.mask
      /\ b.timer = "none" /\ b.old = -1 /\ b.skip = FALSE /\ b.sys = sys
  BY <1>2, <1>3 DEF App
<1> QED BY <1>1, <1>2, <1>4

\* A file has changed.
LEMMA HeardChange ==
  ASSUME NEW a \in App, NEW q, NEW r, NEW e \in Events, NEW choice, disk \in [Dirs -> Files],
         Heard(q, e, r, disk), e.what = "changed",
         Pending(a, disk, q, choice), Tracked(a, disk, q)
  PROVE  /\ Pending(AppNew(a, e.dir), disk, r, choice)
         /\ ~ AppNewAborts(a, e.dir) => Tracked(AppNew(a, e.dir), disk, r)
<1> DEFINE d == e.dir
           b == AppNew(a, d)
<1>1. /\ d \in Dirs /\ a # NoApp /\ a.pos \in 0..MAXUINT /\ a.sys \in 0..MAXUINT
      /\ a.timer \in {"none", "due", "stale"} /\ a.skip \in BOOLEAN
  BY Kinds DEF Events, App
<1>2. \/ a.pos = d /\ a.skip /\ b = [a EXCEPT !.skip = FALSE]
      \/ /\ ~ (a.pos = d /\ a.skip) /\ (a.pos < d \/ a.timer # "none")
         /\ b = [a EXCEPT !.sys = IF d < a.sys THEN d ELSE a.sys]
      \/ /\ ~ (a.pos = d /\ a.skip) /\ d <= a.pos /\ a.timer = "none" /\ Exists(d)
         /\ b = Load(a, d)
      \/ /\ ~ (a.pos = d /\ a.skip) /\ d <= a.pos /\ a.timer = "none" /\ ~ Exists(d)
         /\ b = a
  BY <1>1, AppNewChanges
<1>3. a.skip => d = USER /\ There(disk, USER) /\ a.pos \in {USER, MAXUINT}
  BY DEF Tracked, OwnNewsAwaited, Heard
<1>4. d = USER => a.skip /\ (a.timer = "none" \/ a.pos = USER)
  BY DEF Tracked, OwnNewsAwaited, Heard
<1>5. \A o \in System : o # d /\ News(q, o) => News(r, o)
  BY Numbers DEF Heard
<1>6. ~ Exists(d) => News(r, d)
  BY <1>1 DEF Heard, Tells, Exists
<1>7. /\ SystemPosition(a, disk, q) /\ Place(a, disk)
      /\ \A what : ~ OwnNews(r, what)
  BY DEF Tracked, Heard
<1> HIDE DEF d, b
<1>8. CASE a.pos = d /\ a.skip /\ b = [a EXCEPT !.skip = FALSE]
  <2>1. /\ b.values = a.values /\ b.timer = a.timer /\ b.mask = a.mask /\ b.path = a.path
        /\ b.old = a.old /\ b.pos = a.pos /\ b.sys = a.sys /\ b.skip = FALSE
    BY <1>8 DEF App
  <2>2. d = USER /\ There(disk, USER) /\ a.pos = USER
    BY <1>3, <1>8
  <2>3. SystemPosition(b, disk, r)
    BY <1>5, <1>7, <2>1, <2>2, Numbers DEF SystemPosition
  <2>4. Place(b, disk)
    BY <1>7, <2>1, <2>2, Numbers DEF Place
  <2>5. OwnNewsAwaited(b, disk, r)
    BY <1>7, <2>1 DEF OwnNewsAwaited
  <2>6. Pending(b, disk, r, choice)
    BY <2>1, PendingStays
  <2> QED BY <2>3, <2>4, <2>5, <2>6 DEF Tracked, b, d
<1>9. CASE /\ ~ (a.pos = d /\ a.skip) /\ (a.pos < d \/ a.timer # "none")
           /\ b = [a EXCEPT !.sys = IF d < a.sys THEN d ELSE a.sys]
  <2>1. /\ b.values = a.values /\ b.timer = a.timer /\ b.mask = a.mask /\ b.path = a.path
        /\ b.old = a.old /\ b.pos = a.pos /\ b.skip = a.skip
        /\ b.sys = IF d < a.sys THEN d ELSE a.sys
    BY <1>9 DEF App
  <2>2. d # USER
    BY <1>1, <1>3, <1>4, <1>9, Numbers
  <2>3. d \in System /\ ~ a.skip
    BY <1>1, <1>3, <2>2, Numbers
  <2>4. SystemPosition(b, disk, r)
    <3>1. b.sys >= 1
      BY <1>1, <1>7, <2>1, <2>3, Numbers DEF SystemPosition
    <3>2. ASSUME NEW o \in System, There(disk, o), o < b.sys PROVE News(r, o)
      <4>1. o < a.sys /\ o # d
        BY <1>1, <2>1, <3>2, Numbers
      <4> QED BY <1>5, <1>7, <3>2, <4>1 DEF SystemPosition
    <3>3. ASSUME b.sys \in System, ~ There(disk, b.sys) PROVE News(r, b.sys)
      <4>1. CASE b.sys = d
        BY <1>1, <1>6, <3>3, <4>1, Numbers DEF There, Exists
      <4>2. CASE b.sys # d
        <5>1. b.sys = a.sys
          BY <2>1, <4>2
        <5> QED BY <1>5, <1>7, <3>3, <4>2, <5>1 DEF SystemPosition
      <4> QED BY <4>1, <4>2
    <3> QED BY <3>1, <3>2, <3>3 DEF SystemPosition
  <2>5. Place(b, disk)
    <3>1. a.pos \in System => b.sys <= a.pos
      BY <1>1, <1>7, <2>1, <2>3, Numbers DEF Place
    <3>2. a.pos \in System /\ a.timer = "none" => b.sys = a.pos
      BY <1>1, <1>7, <1>9, <2>1, <2>3, Numbers DEF Place
    <3> QED BY <1>7, <2>1, <3>1, <3>2 DEF Place
  <2>6. OwnNewsAwaited(b, disk, r)
    BY <1>7, <2>1, <2>3 DEF OwnNewsAwaited
  <2>7. Pending(b, disk, r, choice)
    BY <2>1, PendingStays
  <2> QED BY <2>4, <2>5, <2>6, <2>7 DEF Tracked, b, d
<1>10. CASE /\ ~ (a.pos = d /\ a.skip) /\ d <= a.pos /\ a.timer = "none" /\ ~ Exists(d)
            /\ b = a
  <2>1. d # USER
    BY <1>3, <1>4, <1>10 DEF There, Exists
  <2>2. ~ a.skip
    BY <1>3, <2>1
  <2>3. SystemPosition(b, disk, r)
    <3>1. \A o \in System : There(disk, o) => o # d
      BY <1>10 DEF There, Exists
    <3> QED BY <1>5, <1>6, <1>7, <1>10, <3>1 DEF SystemPosition
  <2>4. OwnNewsAwaited(b, disk, r)
    BY <1>7, <1>10, <2>2 DEF OwnNewsAwaited
  <2>5. Pending(b, disk, r, choice)
    BY <1>10, PendingStays
  <2> QED BY <1>7, <1>10, <2>3, <2>4, <2>5 DEF Tracked, b, d
<1>11. CASE /\ ~ (a.pos = d /\ a.skip) /\ d <= a.pos /\ a.timer = "none" /\ Exists(d)
            /\ b = Load(a, d)
  <2>1. /\ b.values = disk[d] /\ b.pos = d /\ b.path = d /\ b.mask = a.mask
        /\ b.timer = "none" /\ b.old = -1 /\ b.skip = FALSE
        /\ d = USER => b.sys = a.sys
        /\ d # USER => b.sys = d
    BY <1>1, <1>11, LoadLoads
  <2>2. ASSUME d # USER PROVE d \in System /\ ~ There(disk, USER) /\ ~ a.skip
    <3>1. d \in System /\ ~ a.skip
      BY <1>1, <1>3, <2>2, Numbers
    <3>2. a.pos # USER /\ (a.pos \in System \/ a.pos = MAXUINT)
      BY <1>1, <1>11, <2>2, Numbers
    <3> QED BY <1>7, <3>1, <3>2 DEF Place
  <2>3. Pending(b, disk, r, choice)
    <3>1. CASE DOMAIN choice = {}
      BY <2>1, <3>1 DEF Pending, Has
    <3>2. CASE DOMAIN choice # {}
      <4>1. DOMAIN choice \cap a.mask = {}
        BY <1>11 DEF Pending
      <4>2. DOMAIN choice \ a.mask # {}
        BY <3>2, <4>1
      <4>3. /\ Counts(disk, From(a)) /\ Has(disk[From(a)], choice, a.mask)
            /\ ~ There(disk, USER) => \A k \in 1..Len(q) : q[k].dir = USER
        BY <4>2 DEF Pending
      <4>4. d = USER
        BY <2>2, <4>3 DEF Heard, d
      <4>5. There(disk, USER) /\ Counts(disk, USER)
        BY <1>1, <1>11, <4>4, Numbers DEF There, Exists, Counts
      <4>6. From(a) = USER /\ From(b) = USER
        BY <2>1, <4>3, <4>4, <4>5, CountsAlone, Numbers DEF From
      <4>7. Has(disk[USER], choice, {})
        BY <4>1, <4>3, <4>6 DEF Has
      <4>8. Has(disk[USER], choice, a.mask)
        BY <4>3, <4>6
      <4> QED BY <2>1, <4>1, <4>4, <4>5, <4>6, <4>7, <4>8 DEF Pending
    <3> QED BY <3>1, <3>2
  <2>4. ASSUME ~ AppNewAborts(a, d) PROVE Tracked(b, disk, r)
    <3>1. d # USER => d <= a.sys
      BY <1>1, <1>11, <2>4, Numbers DEF AppNewAborts, NotOfInterest, LoadAborts
    <3>2. SystemPosition(b, disk, r)
      <4>1. CASE d = USER
        BY <1>5, <1>7, <2>1, <4>1, Numbers DEF SystemPosition
      <4>2. CASE d # USER
        <5>1. ASSUME NEW o \in System, There(disk, o), o < d PROVE News(r, o)
          <6>1. o < a.sys /\ o # d
            BY <1>1, <3>1, <4>2, <5>1, Numbers
          <6> QED BY <1>5, <1>7, <5>1, <6>1 DEF SystemPosition
        <5>2. There(disk, d) /\ d >= 1
          BY <1>1, <1>11, <4>2, Numbers DEF There, Exists
        <5> QED BY <2>1, <4>2, <5>1, <5>2 DEF SystemPosition
      <4> QED BY <4>1, <4>2
    <3>3. Place(b, disk)
      <4>1. CASE d = USER
        BY <1>1, <1>11, <2>1, <4>1, Numbers DEF Place, There, Exists
      <4>2. CASE d # USER
        BY <2>1, <2>2, <4>2, Numbers DEF Place
      <4> QED BY <4>1, <4>2
    <3>4. OwnNewsAwaited(b, disk, r)
      BY <1>7, <2>1 DEF OwnNewsAwaited
    <3> QED BY <3>2, <3>3, <3>4 DEF Tracked
  <2> QED BY <2>3, <2>4 DEF b, d
<1> QED BY <1>2, <1>8, <1>9, <1>10, <1>11

LEMMA AppNewIsApp ==
  ASSUME NEW a \in App, NEW d \in Dirs, disk \in [Dirs -> Files]
  PROVE  AppNew(a, d) \in App
<1> DEFINE b == AppNew(a, d)
           sys == IF d < a.sys THEN d ELSE a.sys
<1>1. \/ b = [a EXCEPT !.skip = FALSE]
      \/ b = [a EXCEPT !.sys = sys]
      \/ Exists(d) /\ b = Load(a, d)
      \/ b = a
  BY AppNewChanges
<1>2. sys \in 0..MAXUINT
  <2>1. a.sys \in 0..MAXUINT
    BY DEF App
  <2> QED BY <2>1, Numbers
<1> HIDE DEF b, sys
<1>3. Exists(d) => Load(a, d) \in App
  BY LoadLoads
<1> QED BY <1>1, <1>2, <1>3 DEF App, b

\* What _gsp_app_manager_handle_delete makes of an application
LEMMA HandleDeleteChanges ==
  ASSUME NEW a \in App, NEW d \in Dirs
  PROVE  LET b == HandleDelete(a, d)
         IN  \/ (a.sys < d \/ d < a.pos) /\ b = a
             \/ d <= a.sys /\ a.pos = d /\ a.sys \in {d, MAXUINT} /\ b = NoApp
             \/ a.pos < d /\ a.sys = d /\ b = [a EXCEPT !.sys = FindDir(d)]
             \/ a.pos = d /\ d < a.sys /\ a.sys \in Dirs /\ b = ReloadAt(a, a.sys)
             \/ a.pos < d /\ d < a.sys /\ b = a
<1>1. a.pos \in 0..MAXUINT /\ a.sys \in 0..MAXUINT
  BY DEF App
<1>2. d \in 0..SystemDirs /\ SystemDirs \in Nat
  BY Numbers
<1>3. CASE a.sys < d \/ d < a.pos
  BY <1>3 DEF HandleDelete
<1>4. CASE ~ (a.sys < d \/ d < a.pos) /\ a.pos = d
  BY <1>1, <1>2, <1>4, Numbers DEF HandleDelete
<1>5. CASE ~ (a.sys < d \/ d < a.pos) /\ a.pos # d
  BY <1>1, <1>2, <1>5, Numbers DEF HandleDelete
<1> QED BY <1>3, <1>4, <1>5

LEMMA HandleDeleteIsApp ==
  ASSUME NEW a \in App, NEW d \in Dirs, disk \in [Dirs -> Files]
  PROVE  HandleDelete(a, d) \in App \cup {NoApp}
<1> DEFINE b == HandleDelete(a, d)
<1>1. \/ b = a \/ b = NoApp
      \/ b = [a EXCEPT !.sys = FindDir(d)]
      \/ a.sys \in Dirs /\ b = ReloadAt(a, a.sys)
  BY HandleDeleteChanges
<1>2. FindDir(d) \in 0..MAXUINT /\ MAXUINT \in 0..MAXUINT
  BY FindDirFinds, Numbers
<1> HIDE DEF b
<1>3. [a EXCEPT !.sys = FindDir(d)] \in App /\ [a EXCEPT !.pos = MAXUINT] \in App
  BY <1>2 DEF App
<1>4. a.sys \in Dirs => ReloadAt(a, a.sys) \in App
  BY <1>3, AppNewIsApp DEF ReloadAt
<1> QED BY <1>1, <1>3, <1>4 DEF b

\* A file has been deleted.
LEMMA HeardDeletion ==
  ASSUME NEW a \in App, NEW q, NEW r, NEW e \in Events, NEW choice, disk \in [Dirs -> Files],
         Heard(q, e, r, disk), e.what = "deleted",
         Pending(a, disk, q, choice), Tracked(a, disk, q)
  PROVE  LET b == HandleDelete(a, e.dir)
         IN  /\ b = NoApp /\ FindDir(e.dir) = MAXUINT => DOMAIN choice = {} /\ Unknown(disk, r)
             /\ b # NoApp => Pending(b, disk, r, choice)
             /\ b # NoApp /\ ~ DeleteAborts(a, e.dir) => Tracked(b, disk, r)
<1> DEFINE d == e.dir
           b == HandleDelete(a, d)
<1>1. /\ d \in Dirs /\ a # NoApp /\ a.pos \in 0..MAXUINT /\ a.sys \in 0..MAXUINT
      /\ a.timer \in {"none", "due", "stale"}
  BY Kinds DEF Events, App
<1>2. \/ (a.sys < d \/ d < a.pos) /\ b = a
      \/ d <= a.sys /\ a.pos = d /\ a.sys \in {d, MAXUINT} /\ b = NoApp
      \/ a.pos < d /\ a.sys = d /\ b = [a EXCEPT !.sys = FindDir(d)]
      \/ a.pos = d /\ d < a.sys /\ a.sys \in Dirs /\ b = ReloadAt(a, a.sys)
      \/ a.pos < d /\ d < a.sys /\ b = a
  BY <1>1, HandleDeleteChanges
<1>3. ~ a.skip
  BY DEF Tracked, OwnNewsAwaited, Heard
<1>4. d = USER => a.sys \in System /\ (a.timer = "stale" \/ (a.timer = "due" /\ a.pos = USER))
  BY DEF Tracked, OwnNewsAwaited, Heard
<1>5. \A o \in System : o # d /\ News(q, o) => News(r, o)
  BY Numbers DEF Heard
<1>6. There(disk, d) => News(r, d)
  BY DEF Heard, Tells, There
<1>7. /\ SystemPosition(a, disk, q) /\ Place(a, disk)
      /\ \A what : ~ OwnNews(r, what)
      /\ ~ News(r, USER)
  BY DEF Tracked, Heard
<1>8. \A o \in System : There(disk, o) /\ o < a.sys => News(r, o)
  BY <1>5, <1>6, <1>7 DEF SystemPosition
<1> HIDE DEF d, b
<1>9. CASE (a.sys < d \/ d < a.pos) /\ b = a
  <2>1. Pending(b, disk, r, choice)
    BY <1>9, PendingStays
  <2>2. ASSUME ~ DeleteAborts(a, d) PROVE Tracked(b, disk, r)
    <3>1. a.sys # d
      BY <1>1, <1>7, <1>9, <2>2, Numbers DEF DeleteAborts, SystemPosition
    <3>2. SystemPosition(b, disk, r)
      BY <1>5, <1>7, <1>8, <1>9, <3>1 DEF SystemPosition
    <3> QED BY <1>3, <1>7, <1>9, <3>2 DEF Tracked, OwnNewsAwaited
  <2> QED BY <1>1, <1>9, <2>1, <2>2 DEF b, d
<1>10. CASE d <= a.sys /\ a.pos = d /\ a.sys \in {d, MAXUINT} /\ b = NoApp
  <2> SUFFICES ASSUME FindDir(d) = MAXUINT PROVE DOMAIN choice = {} /\ Unknown(disk, r)
    BY <1>10 DEF b, d
  <2>1. d \in System
    BY <1>1, <1>4, <1>10, Numbers
  <2>2. a.sys = d /\ ~ There(disk, USER) /\ a.timer # "due"
    BY <1>1, <1>7, <1>10, <2>1, Numbers DEF Place
  <2>3. DOMAIN choice = {}
    <3>1. DOMAIN choice \cap a.mask = {}
      BY <2>2 DEF Pending
    <3>2. DOMAIN choice \ a.mask = {}
      BY <2>1, <2>2, Numbers DEF Pending, Heard, d
    <3> QED BY <3>1, <3>2
  <2>4. \A o \in Dirs : d < o => ~ There(disk, o)
    <3>1. MAXUINT \notin Dirs /\ d \in Int
      BY <1>1, Numbers
    <3> QED BY <3>1, FindDirFinds
  <2>5. ASSUME NEW o \in System, There(disk, o) PROVE News(r, o)
    <3>1. o < d \/ o = d
      BY <2>1, <2>4, <2>5, Numbers
    <3> QED BY <1>6, <1>8, <2>2, <2>5, <3>1
  <2> QED BY <1>7, <2>2, <2>3, <2>5 DEF Unknown
<1>11. CASE a.pos < d /\ a.sys = d /\ b = [a EXCEPT !.sys = FindDir(d)]
  <2>1. /\ b.values = a.values /\ b.timer = a.timer /\ b.mask = a.mask /\ b.path = a.path
        /\ b.old = a.old /\ b.pos = a.pos /\ b.skip = a.skip /\ b.sys = FindDir(d)
    BY <1>11 DEF App
  <2>2. \/ b.sys = MAXUINT /\ \A o \in Dirs : d < o => ~ There(disk, o)
        \/ /\ b.sys \in Dirs /\ d < b.sys /\ There(disk, b.sys)
           /\ \A o \in Dirs : d < o /\ There(disk, o) => b.sys <= o
    <3>1. d \in Int
      BY <1>1, Numbers
    <3> QED BY <2>1, <3>1, FindDirFinds
  <2>3. d \in System /\ a.pos = USER
    BY <1>1, <1>7, <1>11, Numbers DEF SystemPosition, Place
  <2>4. SystemPosition(b, disk, r)
    <3>1. ASSUME NEW o \in System, There(disk, o), o < b.sys PROVE News(r, o)
      <4>1. o <= d
        BY <2>2, <2>3, <3>1, Numbers
      <4>2. o < d \/ o = d
        BY <2>3, <4>1, Numbers
      <4> QED BY <1>6, <1>8, <1>11, <3>1, <4>2
    <3>2. b.sys >= 1 /\ (b.sys \in System => There(disk, b.sys))
      BY <2>2, <2>3, Numbers
    <3> QED BY <3>1, <3>2 DEF SystemPosition
  <2>5. Place(b, disk)
    BY <1>7, <2>1, <2>3, Numbers DEF Place
  <2>6. OwnNewsAwaited(b, disk, r)
    BY <1>3, <1>7, <2>1 DEF OwnNewsAwaited
  <2>7. Pending(b, disk, r, choice)
    BY <2>1, PendingStays
  <2>8. b # NoApp
    <3>1. FindDir(d) \in 0..MAXUINT
      BY <2>1, <2>2, Numbers
    <3>2. b \in App
      BY <1>11, <3>1 DEF App
    <3> QED BY <3>2, Kinds
  <2> QED BY <2>4, <2>5, <2>6, <2>7, <2>8 DEF Tracked, b, d
<1>12. CASE a.pos = d /\ d < a.sys /\ a.sys \in Dirs /\ b = ReloadAt(a, a.sys)
  <2>1. d = USER /\ a.timer = "due"
    <3>1. a.pos \notin System
      BY <1>1, <1>7, <1>12, Numbers DEF Place
    <3>2. d = USER
      BY <1>1, <1>12, <3>1, Numbers
    <3> QED BY <1>4, <1>7, <3>1, <3>2 DEF Place
  <2> DEFINE c == [a EXCEPT !.pos = MAXUINT]
  <2>2. /\ c.values = a.values /\ c.timer = a.timer /\ c.mask = a.mask /\ c.path = a.path
        /\ c.old = a.old /\ c.pos = MAXUINT /\ c.skip = a.skip /\ c.sys = a.sys
        /\ c \in App
    BY Numbers DEF App
  <2>3. b = c
    <3> HIDE DEF c
    <3>1. AppNew(c, a.sys) = [c EXCEPT !.sys = IF a.sys < c.sys THEN a.sys ELSE c.sys]
      BY <1>3, <1>12, <2>1, <2>2, AppNewChanges
    <3>2. AppNew(c, a.sys) = [c EXCEPT !.sys = c.sys]
      BY <2>2, <3>1
    <3>3. [c EXCEPT !.sys = c.sys] = c
      BY <2>2 DEF App
    <3> QED BY <1>12, <3>2, <3>3 DEF ReloadAt, c
  <2> HIDE DEF c
  <2>4. SystemPosition(b, disk, r)
    BY <1>5, <1>7, <1>8, <2>1, <2>2, <2>3, Numbers DEF SystemPosition
  <2>5. Place(b, disk)
    <3>1. ~ There(disk, USER)
      BY <1>6, <1>7, <2>1
    <3> QED BY <1>7, <2>1, <2>2, <2>3, <3>1, Numbers DEF Place
  <2>6. OwnNewsAwaited(b, disk, r)
    BY <1>3, <1>7, <2>2, <2>3 DEF OwnNewsAwaited
  <2>7. Pending(b, disk, r, choice)
    BY <2>2, <2>3, PendingStays
  <2>8. b # NoApp
    BY <2>2, <2>3, Kinds
  <2> QED BY <2>4, <2>5, <2>6, <2>7, <2>8 DEF Tracked, b, d
<1>13. CASE a.pos < d /\ d < a.sys /\ b = a
  <2>1. DeleteAborts(a, d)
    BY <1>1, <1>13, Numbers DEF DeleteAborts
  <2>2. Pending(b, disk, r, choice)
    BY <1>13, PendingStays
  <2> QED BY <1>1, <1>13, <2>1, <2>2 DEF b, d
<1> QED BY <1>2, <1>9, <1>10, <1>11, <1>12, <1>13

\* gsp_app_manager_xdg_dir_monitor hears the first news.
LEMMA MonitorKeeps ==
  ASSUME GspInv, Monitor
  PROVE  GspInv'
<1> DEFINE a == app
           b == app'
           q == events
           r == events'
           e == Head(q)
<1>1. /\ GspTypeOK /\ open /\ ~ aborted /\ q # <<>> /\ disk \in [Dirs -> Files]
      /\ a # NoApp => a \in App
  BY DEF GspInv, GspTypeOK, Monitor, Runs
<1>2. r = Tail(q) /\ UNCHANGED <<disk, open, chosen, changes>>
  BY DEF Monitor
<1>3. /\ e.what = "deleted" =>
           /\ b = IF a = NoApp THEN NoApp ELSE HandleDelete(a, e.dir)
           /\ aborted' = (a # NoApp /\ DeleteAborts(a, e.dir))
      /\ e.what # "deleted" =>
           b = AppNew(a, e.dir) /\ aborted' = AppNewAborts(a, e.dir)
      /\ dropped' = (dropped \/ (a # NoApp /\ b = NoApp /\ FindDir(e.dir) # MAXUINT))
  BY DEF Monitor
<1>4. /\ e \in Events /\ r \in Seq(Events) /\ NewsIsNew(r, disk) /\ OwnNewsFirst(r)
      /\ Heard(q, e, r, disk)
  <2>1. q \in Seq(Events) /\ NewsIsNew(q, disk) /\ OwnNewsFirst(q)
    BY DEF GspInv, GspTypeOK
  <2> HIDE DEF q, r
  <2> QED BY <1>1, <1>2, <2>1, MonitorHears
<1> HIDE DEF a, b, q, r, e
<1>5. e.dir \in Dirs /\ e.what \in {"changed", "deleted"}
  BY <1>4 DEF Events
<1>6. aborted' \in BOOLEAN /\ dropped' \in BOOLEAN
  BY <1>1, <1>3, <1>5 DEF GspTypeOK, DeleteAborts, AppNewAborts
<1>7. b \in App \cup {NoApp}
  <2>1. CASE a = NoApp
    <3>1. ASSUME Exists(e.dir) PROVE Fresh(e.dir) \in App
      <4> DEFINE d == e.dir
                 sys == IF d > USER THEN d ELSE MAXUINT
      <4>1. d \in 0..MAXUINT /\ sys \in 0..MAXUINT /\ d \in Dirs
        BY <1>5, Numbers
      <4>2. disk[d] \in Contents
        BY <1>1, <3>1, <4>1 DEF Exists, Files
      <4> HIDE DEF sys, d
      <4>3. Fresh(d) = [values |-> disk[d], pos |-> d, sys |-> sys, path |-> d,
                        old |-> -1, mask |-> {}, timer |-> "none", skip |-> FALSE]
        BY DEF Fresh, sys
      <4>4. Fresh(d) \in App
        BY <4>1, <4>2, <4>3 DEF App
      <4> QED BY <4>4 DEF d
    <3> QED BY <1>3, <1>5, <2>1, <3>1 DEF AppNew
  <2>2. CASE a # NoApp
    BY <1>1, <1>3, <1>5, <2>2, AppNewIsApp, HandleDeleteIsApp
  <2> QED BY <2>1, <2>2
<1>8. GspTypeOK'
  BY <1>1, <1>2, <1>4, <1>6, <1>7 DEF GspTypeOK, b, r
<1>9. ASSUME ~ dropped'
      PROVE  /\ b = NoApp => DOMAIN chosen = {} /\ Unknown(disk, r)
             /\ b # NoApp => Pending(b, disk, r, chosen)
             /\ b # NoApp /\ ~ aborted' => Tracked(b, disk, r)
  <2>1. ~ dropped
    BY <1>3, <1>9
  <2>2. CASE a = NoApp
    <3>1. DOMAIN chosen = {} /\ Unknown(disk, q)
      BY <1>1, <2>1, <2>2 DEF GspInv, a, q
    <3>2. /\ e.what = "deleted" => Unknown(disk, r)
          /\ e.what = "changed" =>
               \/ ~ Exists(e.dir) /\ Unknown(disk, r)
               \/ /\ Exists(e.dir) /\ Fresh(e.dir) \in App
                  /\ Pending(Fresh(e.dir), disk, r, chosen) /\ Tracked(Fresh(e.dir), disk, r)
      BY <1>1, <1>4, <3>1, HeardWithoutApp
    <3>3. CASE e.what = "deleted"
      BY <1>3, <2>2, <3>1, <3>2, <3>3
    <3>4. CASE e.what = "changed" /\ ~ Exists(e.dir)
      <4>1. b = NoApp
        BY <1>3, <2>2, <3>4 DEF AppNew
      <4> QED BY <3>1, <3>2, <3>4, <4>1
    <3>5. CASE e.what = "changed" /\ Exists(e.dir)
      <4>1. b = Fresh(e.dir)
        BY <1>3, <2>2, <3>5 DEF AppNew
      <4>2. b # NoApp
        BY <3>2, <3>5, <4>1, Kinds
      <4> QED BY <3>2, <3>5, <4>1, <4>2
    <3> QED BY <1>5, <3>3, <3>4, <3>5
  <2>3. CASE a # NoApp
    <3>1. Pending(a, disk, q, chosen) /\ Tracked(a, disk, q) /\ a \in App
      BY <1>1, <2>1, <2>3 DEF GspInv, a, q
    <3>2. CASE e.what = "deleted"
      <4>1. b = HandleDelete(a, e.dir) /\ aborted' = DeleteAborts(a, e.dir)
        BY <1>3, <2>3, <3>2 DEF DeleteAborts
      <4>2. b = NoApp => FindDir(e.dir) = MAXUINT
        BY <1>3, <1>9, <2>3
      <4> QED BY <1>1, <1>4, <3>1, <3>2, <4>1, <4>2, HeardDeletion
    <3>3. CASE e.what = "changed"
      <4>1. b = AppNew(a, e.dir) /\ aborted' = AppNewAborts(a, e.dir)
        BY <1>3, <3>3
      <4>2. b # NoApp
        BY <1>1, <1>5, <3>1, <4>1, AppNewIsApp, Kinds
      <4> QED BY <1>1, <1>4, <3>1, <3>3, <4>1, <4>2, HeardChange
    <3> QED BY <1>5, <3>2, <3>3
  <2> QED BY <2>2, <2>3
<1> QED BY <1>1, <1>2, <1>4, <1>8, <1>9 DEF GspInv, b, r

-----------------------------------------------------------------------------
(* The theorems *)

LEMMA GspStep == Polite /\ GspInv /\ [Next]_vars => GspInv'
<1> SUFFICES ASSUME Polite, GspInv, [Next]_vars PROVE GspInv'
  OBVIOUS
<1>1. CASE UNCHANGED vars
  BY <1>1 DEF vars, GspInv, GspTypeOK
<1>2. ASSUME NEW d \in ExternalDirs, External(d) PROVE GspInv'
  <2>1. d \in System
    BY GspAssumption, Numbers DEF Polite
  <2> QED BY <1>2, <2>1, ExternalKeeps
<1>3. ASSUME NEW exec \in Execs, Update(exec) \/ Create(exec) PROVE GspInv'
  BY <1>3, UserChoiceKeeps, CreateKeeps
<1> QED
  BY <1>1, <1>2, <1>3, OpenKeeps, CloseKeeps, UserChoiceKeeps, DeleteUserAppKeeps,
     SaveTimeoutKeeps, MonitorKeeps
  DEF Next

\* What the monitor has yet to tell, and how the dialog's application stands to the
\* files meanwhile: the reason for the two invariants below (gsp-app.c,
\* gsp-app-manager.c), for any number of directories, changes and events.
THEOREM GspInvHolds == ASSUME Polite PROVE Spec => []GspInv
<1>1. Init => GspInv
  BY GspInit
<1>2. GspInv /\ [Next]_vars => GspInv'
  BY GspStep
<1> QED BY <1>1, <1>2, PTL DEF Spec

LEMMA EffectiveCounts ==
  ASSUME NEW d, Counts(disk, d)
  PROVE  Effective = d /\ d \in Dirs /\ Exists(d)
<1>1. d \in Dirs /\ Exists(d) /\ \A o \in Dirs : Exists(o) => d <= o
  BY DEF Counts, There, Exists
<1>2. \A o \in Dirs : Exists(o) /\ (\A p \in Dirs : Exists(p) => o <= p) => o = d
  BY <1>1, Numbers
<1> QED BY <1>1, <1>2 DEF Effective

\* What the user has set in the dialog is what the session manager reads once it has
\* been saved (_gsp_app_save, _gsp_app_queue_save), however many directories there are
\* and whatever others change meanwhile.
THEOREM EditIsKeptHolds == ASSUME Polite PROVE Spec => []EditIsKept
<1>1. ASSUME GspInv PROVE EditIsKept
  <2> SUFFICES ASSUME ~ dropped, app = NoApp \/ (app.timer # "due" /\ app.mask = {}),
                      chosen # NoChoice
               PROVE  /\ \E d \in Dirs : Exists(d)
                      /\ \A f \in DOMAIN chosen : disk[Effective][f] = chosen[f]
    BY DEF EditIsKept
  <2>1. DOMAIN chosen # {}
    <3>1. chosen = [f \in DOMAIN chosen |-> chosen[f]]
      BY <1>1 DEF GspInv, GspTypeOK
    <3> QED BY <3>1 DEF NoChoice
  <2>2. \E d \in Dirs : Counts(disk, d) /\ Has(disk[d], chosen, {})
    <3>1. CASE app = NoApp
      BY <1>1, <2>1, <3>1 DEF GspInv, GspTypeOK, Settled
    <3>2. CASE app # NoApp
      <4>1. Counts(disk, From(app)) /\ Has(disk[From(app)], chosen, {})
        BY <1>1, <2>1, <3>2 DEF GspInv, Pending
      <4> QED BY <4>1 DEF Counts, There
    <3> QED BY <3>1, <3>2
  <2> QED BY <2>2, EffectiveCounts DEF Has
<1> QED BY <1>1, GspInvHolds, PTL

\* With the monitor heard out and nothing pending, the application the dialog works on
\* is that of the first directory that has its file (gsp_app_new,
\* _gsp_app_manager_handle_delete), however many directories there are.
THEOREM PositionsAreCurrentHolds == ASSUME Polite PROVE Spec => []PositionsAreCurrent
<1>1. ASSUME GspInv PROVE PositionsAreCurrent
  <2> SUFFICES ASSUME Runs, ~ dropped, events = <<>>, app # NoApp, app.timer = "none",
                      app.mask = {}
               PROVE  Exists(app.pos) /\ app.pos = Effective
    BY DEF PositionsAreCurrent
  <2>1. /\ app \in App /\ Place(app, disk) /\ app.sys >= 1 /\ ~ app.skip
        /\ \A d \in System : There(disk, d) => ~ (d < app.sys)
        /\ app.sys \in System => There(disk, app.sys)
    BY <1>1, AtSave DEF Runs
  <2>2. app.pos \in {USER} \cup System
    BY <2>1, Numbers DEF App, Place
  <2>3. Counts(disk, app.pos)
    <3>1. CASE app.pos = USER
      BY <2>1, <3>1, Numbers DEF Place, Counts, There
    <3>2. CASE app.pos \in System
      <4>1. There(disk, app.pos) /\ ~ There(disk, USER) /\ app.sys = app.pos
        BY <2>1, <3>2 DEF Place
      <4>2. ASSUME NEW o \in Dirs, There(disk, o) PROVE app.pos <= o
        <5>1. o \in System
          BY <4>1, <4>2, Numbers
        <5> QED BY <2>1, <3>2, <4>1, <4>2, <5>1, Numbers
      <4> QED BY <4>1, <4>2 DEF Counts
    <3> QED BY <2>2, <3>1, <3>2
  <2> QED BY <2>3, EffectiveCounts
<1> QED BY <1>1, GspInvHolds, PTL
=============================================================================
