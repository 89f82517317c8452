---------------------------- MODULE StartupProofs ---------------------------
(***************************************************************************)
(* Proofs about Startup, for any applications, phases, numbers of          *)
(* processes and changes of conditions: type correctness, that the manager *)
(* listens to what it waits for, and that it signals only children of its  *)
(* own.                                                                    *)
(***************************************************************************)
EXTENDS Startup, FiniteSetTheorems, TLAPS

-----------------------------------------------------------------------------
(* An application *)

\* The pid is that of a process that has not been waited for
Owned(a) ==
  IsRunning(a) => a.procs[a.pid].life \in {"running", "exited", "died"}

\* One client at most has the startup id, only a connection that is to be
\* authenticated has a timer, and an application x that the bus starts has no pid.
Proper(x, a) ==
  /\ Owned(a)
  /\ \A n, k \in Numbers :
       a.procs[n].conn.state = "client" /\ a.procs[k].conn.state = "client" => n = k
  /\ \A n \in Numbers : a.procs[n].conn.timeout => a.procs[n].conn.state = "ice"
  /\ x \in ActivatedApps => a.pid = NoPid

\* A step of an application that leaves the connections of its processes alone
Kept(x, a, b) ==
  /\ b \in App
  /\ Owned(a) => Owned(b)
  /\ \A n \in Numbers : b.procs[n].conn = a.procs[n].conn
  /\ x \in ActivatedApps /\ a.pid = NoPid => b.pid = NoPid

LEMMA KeptProper ==
  ASSUME NEW x, NEW a, NEW b, Kept(x, a, b), Proper(x, a)
  PROVE  b \in App /\ Proper(x, b)
BY DEF Kept, Proper

LEMMA KeptItself ==
  ASSUME NEW x, NEW a \in App
  PROVE  Kept(x, a, a)
BY DEF Kept

LEMMA KeptThrough ==
  ASSUME NEW x, NEW a, NEW b, NEW c, Kept(x, a, b), Kept(x, b, c)
  PROVE  Kept(x, a, c)
BY DEF Kept

LEMMA NoPidIsNone == NoPid \notin Numbers
BY StartsAssumption DEF NoPid, Numbers

\* The next process has a number, if there may be one
LEMMA NextNumberExists ==
  ASSUME NEW a \in App, CanStart(a)
  PROVE  NextNumber(a) \in Numbers /\ a.procs[NextNumber(a)].life = "none"
BY DEF CanStart, NextNumber

\* A process, and perhaps the pid, has changed
Updated(a, b, n, p, pid) ==
  /\ b \in App
  /\ b.pid = pid
  /\ b.procs = [a.procs EXCEPT ![n] = p]

LEMMA UpdatedKept ==
  ASSUME NEW x, NEW a \in App, NEW b, NEW n \in Numbers, NEW p \in Process,
         NEW pid \in {NoPid} \cup Numbers, Updated(a, b, n, p, pid),
         p.conn = a.procs[n].conn,
         pid = n /\ Owned(a) => p.life \in {"running", "exited", "died"},
         pid # n => pid \in {NoPid, a.pid},
         x \in ActivatedApps => pid \in {NoPid, a.pid}
  PROVE  Kept(x, a, b)
<1>1. /\ b.procs[n] = p
      /\ \A k \in Numbers \ {n} : b.procs[k] = a.procs[k]
  BY DEF App, Updated
<1>2. b.pid = pid /\ b \in App
  BY DEF Updated
<1>3. Owned(a) => Owned(b)
  BY <1>1, <1>2, NoPidIsNone DEF Owned, IsRunning
<1> QED
  BY <1>1, <1>2, <1>3 DEF Kept

\* csm_autostart_app_start
LEMMA StartKeeps ==
  ASSUME NEW x, NEW a \in App, CanStart(a)
  PROVE  Kept(x, a, Start(a, x \in ActivatedApps))
<1> DEFINE n == NextNumber(a)
           p == [a.procs[n] EXCEPT !.life = "running"]
           pid == IF x \in ActivatedApps THEN a.pid ELSE n
           b == Start(a, x \in ActivatedApps)
<1>1. n \in Numbers /\ a.procs[n].life = "none" /\ a.procs[n] \in Process
  BY NextNumberExists DEF App
<1>2. p \in Process /\ p.life = "running" /\ p.conn = a.procs[n].conn
  BY <1>1 DEF Process
<1>3. pid \in {NoPid} \cup Numbers /\ (pid = n \/ pid = a.pid)
      /\ (x \in ActivatedApps => pid = a.pid)
  BY <1>1 DEF App
<1>4. Updated(a, b, n, p, pid)
  <2>1. [a.procs EXCEPT ![n] = p] \in [Numbers -> Process]
    BY <1>1, <1>2 DEF App
  <2>2. b = [a EXCEPT !.procs = [a.procs EXCEPT ![n] = p], !.pid = pid]
    BY DEF Start
  <2> HIDE DEF n, p, pid, b
  <2> QED
    BY <1>3, <2>1, <2>2 DEF Updated, App
<1> HIDE DEF n, p, pid, b
<1>5. Kept(x, a, b)
  BY <1>1, <1>2, <1>3, <1>4, UpdatedKept
<1> QED
  BY <1>5 DEF b

\* autostart_app_stop_spawn
LEMMA StopKeeps ==
  ASSUME NEW x, NEW a \in App
  PROVE  Kept(x, a, Stop(a))
<1>1. CASE IsRunning(a)
  <2> DEFINE p == [a.procs[a.pid] EXCEPT !.told = TRUE]
             b == Stop(a)
  <2>1. a.pid \in Numbers /\ a.procs[a.pid] \in Process
    BY <1>1 DEF IsRunning, App
  <2>2. p \in Process /\ p.life = a.procs[a.pid].life /\ p.conn = a.procs[a.pid].conn
    BY <2>1 DEF Process
  <2>3. Updated(a, b, a.pid, p, a.pid)
    <3>1. [a.procs EXCEPT ![a.pid] = p] \in [Numbers -> Process]
      BY <2>1, <2>2 DEF App
    <3>2. b = [a EXCEPT !.procs = [a.procs EXCEPT ![a.pid] = p]]
      BY <1>1 DEF Stop
    <3> HIDE DEF p, b
    <3> QED
      BY <3>1, <3>2 DEF Updated, App
  <2>4. Owned(a) => p.life \in {"running", "exited", "died"}
    BY <1>1, <2>2 DEF Owned
  <2> HIDE DEF p, b
  <2>5. Kept(x, a, b)
    BY <2>1, <2>2, <2>3, <2>4, UpdatedKept
  <2> QED
    BY <2>5 DEF b
<1>2. CASE ~ IsRunning(a)
  BY <1>2, KeptItself DEF Stop
<1> QED
  BY <1>1, <1>2

\* app_exited
LEMMA AppExitedKeeps ==
  ASSUME NEW x, NEW a \in App, NEW n \in Numbers
  PROVE  Kept(x, a, AppExited(a, n))
<1> DEFINE p == [a.procs[n] EXCEPT !.life = "reaped"]
           b == AppExited(a, n)
<1>1. p \in Process /\ p.conn = a.procs[n].conn
  BY DEF App, Process
<1>2. Updated(a, b, n, p, NoPid)
  <2>1. [a.procs EXCEPT ![n] = p] \in [Numbers -> Process]
    BY <1>1 DEF App
  <2>2. b = [a EXCEPT !.procs = [a.procs EXCEPT ![n] = p], !.pid = NoPid]
    BY DEF AppExited
  <2> HIDE DEF p, b
  <2> QED
    BY <2>1, <2>2 DEF Updated, App
<1> HIDE DEF p, b
<1>3. Kept(x, a, b)
  BY <1>1, <1>2, NoPidIsNone, UpdatedKept
<1> QED
  BY <1>3 DEF b

\* A process is told to end, or ends with its child watch to come
LEMMA ProcessKeeps ==
  ASSUME NEW x, NEW a \in App, NEW n \in Numbers, NEW p \in Process,
         p.conn = a.procs[n].conn,
         p.life # a.procs[n].life => a.pid # n \/ p.life \in {"running", "exited", "died"}
  PROVE  Kept(x, a, [a EXCEPT !.procs = [a.procs EXCEPT ![n] = p]])
<1> DEFINE b == [a EXCEPT !.procs = [a.procs EXCEPT ![n] = p]]
<1>1. Updated(a, b, n, p, a.pid)
  <2>1. [a.procs EXCEPT ![n] = p] \in [Numbers -> Process]
    BY DEF App
  <2> QED
    BY <2>1 DEF Updated, App
<1>2. a.pid \in {NoPid} \cup Numbers
  BY DEF App
<1>3. a.pid = n /\ Owned(a) => p.life \in {"running", "exited", "died"}
  BY NoPidIsNone DEF Owned, IsRunning
<1> HIDE DEF b
<1>4. Kept(x, a, b)
  BY <1>1, <1>2, <1>3, UpdatedKept
<1> QED
  BY <1>4 DEF b

\* Other fields than the pid and the processes
LEMMA FieldsKeep ==
  ASSUME NEW x, NEW a \in App, NEW value \in BOOLEAN
  PROVE  /\ Kept(x, a, [a EXCEPT !.condition = value])
         /\ Kept(x, a, [a EXCEPT !.watched = value])
         /\ Kept(x, a, [a EXCEPT !.delayed = value])
BY DEF Kept, App, Owned, IsRunning

\* A connection of a process is in another state
LEMMA ConnectionSet ==
  ASSUME NEW x, NEW a \in App, Proper(x, a), NEW n \in Numbers, NEW conn \in Connection,
         conn.timeout => conn.state = "ice",
         conn.state = "client" =>
           \A k \in Numbers \ {n} : a.procs[k].conn.state # "client"
  PROVE  LET b == [a EXCEPT !.procs = [@ EXCEPT ![n].conn = conn]]
         IN  /\ b \in App /\ Proper(x, b)
             /\ b.procs[n].conn = conn
             /\ \A k \in Numbers \ {n} : b.procs[k] = a.procs[k]
<1> DEFINE p == [a.procs[n] EXCEPT !.conn = conn]
           procs == [a.procs EXCEPT ![n] = p]
           b == [a EXCEPT !.procs = procs]
<1>1. p \in Process /\ p.conn = conn /\ p.life = a.procs[n].life
  BY DEF App, Process
<1> HIDE DEF p
<1>2. /\ procs \in [Numbers -> Process] /\ procs[n] = p
      /\ \A k \in Numbers \ {n} : procs[k] = a.procs[k]
  BY <1>1 DEF App
<1> HIDE DEF procs
<1>3. b \in App /\ b.procs = procs /\ b.pid = a.pid
  BY <1>2 DEF App
<1>4. a.pid \in {NoPid} \cup Numbers
  BY DEF App
<1>5. b = [a EXCEPT !.procs = [@ EXCEPT ![n].conn = conn]]
  BY DEF p, procs
<1> HIDE DEF b
<1>6. Owned(b)
  BY <1>1, <1>2, <1>3, <1>4 DEF Proper, Owned, IsRunning
<1>7. Proper(x, b)
  BY <1>1, <1>2, <1>3, <1>6 DEF Proper
<1> QED
  BY <1>1, <1>2, <1>3, <1>5, <1>7
-----------------------------------------------------------------------------
(* The manager *)

\* The manager listens to those it waits for, with a timer
Listens(q) ==
  /\ q.handlers = q.pending
  /\ q.timer <=> q.pending # {}
  /\ \A a \in q.pending : PhaseOf[a] = q.phase /\ q.phase < APPLICATION

Sound(q) ==
  /\ q \in Manager
  /\ Listens(q)
  /\ \A a \in Apps : Proper(a, q.apps[a])

\* A step of the manager that leaves every connection alone
AppsKept(q, r) == \A a \in Apps : Kept(a, q.apps[a], r.apps[a])

\* Which applications are started, and can be
Startable(q, ok) == ok \subseteq Apps /\ \A a \in ok : CanStart(q.apps[a])

LEMMA SuccessesStartable ==
  ASSUME NEW q, NEW ok \in Successes(q)
  PROVE  Startable(q, ok)
BY DEF Successes, Startable

LEMMA ManagerApps ==
  ASSUME NEW q \in Manager, NEW a \in Apps
  PROVE  q.apps[a] \in App
BY DEF Manager

\* is_conditionally_disabled
LEMMA LookKeeps ==
  ASSUME NEW a \in Apps, NEW app \in App, holds \in [Apps -> BOOLEAN]
  PROVE  /\ Kept(a, app, Look(a, app))
         /\ Look(a, app).procs = app.procs
<1>1. CASE a \in ConditionApps
  <2>1. holds[a] \in BOOLEAN
    OBVIOUS
  <2>2. Kept(a, app, [app EXCEPT !.condition = holds[a]])
    BY <2>1, FieldsKeep
  <2>3. [app EXCEPT !.condition = holds[a]].procs = app.procs
    BY DEF App
  <2> QED
    BY <1>1, <2>2, <2>3 DEF Look, LookAtCondition
<1>2. CASE a \notin ConditionApps
  BY <1>2, KeptItself DEF Look
<1> QED
  BY <1>1, <1>2

\* _start_app
LEMMA BeginAppKeeps ==
  ASSUME NEW a \in Apps, NEW app \in App, NEW ok, holds \in [Apps -> BOOLEAN],
         a \in ok => CanStart(app)
  PROVE  Kept(a, app, BeginApp(a, app, ok))
<1> DEFINE look == Look(a, app)
           seen == [look EXCEPT !.watched = TRUE]
<1>1. Kept(a, app, look) /\ look.procs = app.procs /\ look \in App
  BY LookKeeps DEF Kept
<1> HIDE DEF look
<1>2. Kept(a, look, seen) /\ seen.procs = look.procs /\ seen \in App
  BY <1>1, FieldsKeep DEF App, Kept
<1>3. Kept(a, app, seen)
  BY <1>1, <1>2, KeptThrough
<1> HIDE DEF seen
<1>4. Kept(a, seen, [seen EXCEPT !.delayed = TRUE])
  BY <1>2, FieldsKeep
<1>5. a \in ok => Kept(a, seen, Start(seen, a \in ActivatedApps))
  <2> SUFFICES ASSUME a \in ok PROVE Kept(a, seen, Start(seen, a \in ActivatedApps))
    OBVIOUS
  <2>1. CanStart(seen)
    BY <1>1, <1>2 DEF CanStart
  <2> QED
    BY <1>2, <2>1, StartKeeps
<1>6. BeginApp(a, app, ok) =
        IF Disabled(a) THEN seen
        ELSE IF a \in DelayedApps THEN [seen EXCEPT !.delayed = TRUE]
        ELSE IF a \in ok THEN Start(seen, a \in ActivatedApps)
        ELSE seen
  BY Zenon DEF BeginApp, seen, look
<1>7. CASE a \in DelayedApps /\ ~ Disabled(a)
  BY <1>3, <1>4, <1>6, <1>7, KeptThrough, Zenon
<1>8. CASE a \notin DelayedApps /\ ~ Disabled(a) /\ a \in ok
  BY <1>3, <1>5, <1>6, <1>8, KeptThrough, Zenon
<1>9. CASE Disabled(a) \/ (a \notin DelayedApps /\ a \notin ok)
  BY <1>3, <1>6, <1>9, Zenon
<1> QED
  BY <1>7, <1>8, <1>9

\* end_phase, when nobody is waited for any more
LEMMA EndPhaseSound ==
  ASSUME NEW q \in Manager, \A a \in Apps : Proper(a, q.apps[a]),
         holds \in [Apps -> BOOLEAN],
         q.handlers = {}, q.phase < APPLICATION,
         NEW ok, Startable(q, ok)
  PROVE  /\ Sound(EndPhase(q, ok)) /\ AppsKept(q, EndPhase(q, ok))
         /\ \A a \in Apps : PhaseOf[a] = q.phase => EndPhase(q, ok).apps[a] = q.apps[a]
<1> USE StartupAssumption
<1> DEFINE Begins(a) == ~ Disabled(a) /\ a \notin DelayedApps /\ a \in ok
           waited    == {p \in (q.phase + 1)..(APPLICATION - 1) :
                           \E a \in Apps : PhaseOf[a] = p /\ Begins(a)}
           next      == IF waited = {} THEN RUNNING
                        ELSE CHOOSE p \in waited : \A o \in waited : p <= o
           reached   == {a \in Apps : q.phase < PhaseOf[a] /\ PhaseOf[a] <= next}
           begun     == {a \in Apps : PhaseOf[a] = next /\ Begins(a)}
           nowApps   == [a \in Apps |-> IF a \in reached THEN BeginApp(a, q.apps[a], ok)
                                        ELSE q.apps[a]]
           waits     == begun # {}
           r         == EndPhase(q, ok)
<1>1. r = [phase |-> next, pending |-> begun, handlers |-> q.handlers \cup begun,
           timer |-> waits, apps |-> nowApps]
  BY DEF EndPhase
<1>2. /\ next \in STARTUP..QUERY_END_SESSION
      /\ next < APPLICATION \/ next = RUNNING
  <2>1. waited \subseteq 1..4
    BY DEF Manager, STARTUP, QUERY_END_SESSION, APPLICATION
  <2> HIDE DEF waited
  <2>2. CASE waited = {}
    BY <2>2 DEF STARTUP, QUERY_END_SESSION, RUNNING
  <2>3. CASE waited # {}
    <3>1. \E p \in waited : \A o \in waited : p <= o
      <4>1. waited \subseteq {1, 2, 3, 4}
        BY <2>1
      <4>3. CASE 1 \in waited
        BY <4>1, <4>3
      <4>4. CASE 1 \notin waited /\ 2 \in waited
        BY <4>1, <4>4
      <4>5. CASE 1 \notin waited /\ 2 \notin waited /\ 3 \in waited
        BY <4>1, <4>5
      <4>6. CASE 1 \notin waited /\ 2 \notin waited /\ 3 \notin waited
        <5>1. 4 \in waited /\ waited \subseteq {4}
          BY <2>3, <4>1, <4>6
        <5> QED
          BY <5>1
      <4> QED
        BY <4>3, <4>4, <4>5, <4>6
    <3>2. next \in waited
      BY <2>3, <3>1
    <3> HIDE DEF next
    <3> QED
      BY <2>1, <3>2 DEF STARTUP, QUERY_END_SESSION, APPLICATION
  <2> QED
    BY <2>2, <2>3
<1> HIDE DEF waited, next
<1>3. begun \subseteq Apps /\ \A a \in begun : PhaseOf[a] = next /\ next < APPLICATION
  BY <1>2 DEF APPLICATION, RUNNING
<1>4. \A a \in Apps : Kept(a, q.apps[a], nowApps[a])
  <2> SUFFICES ASSUME NEW a \in Apps PROVE Kept(a, q.apps[a], nowApps[a])
    OBVIOUS
  <2>1. q.apps[a] \in App
    BY ManagerApps
  <2>2. a \in ok => CanStart(q.apps[a])
    BY DEF Startable
  <2>3. Kept(a, q.apps[a], BeginApp(a, q.apps[a], ok))
    BY <2>1, <2>2, BeginAppKeeps
  <2>4. Kept(a, q.apps[a], q.apps[a])
    BY <2>1, KeptItself
  <2> HIDE DEF reached
  <2> QED
    BY <2>3, <2>4
<1>5. nowApps \in [Apps -> App] /\ \A a \in Apps : Proper(a, nowApps[a])
  <2>1. \A a \in Apps : nowApps[a] \in App /\ Proper(a, nowApps[a])
    BY <1>4, KeptProper
  <2>2. nowApps = [a \in Apps |-> nowApps[a]]
    OBVIOUS
  <2> HIDE DEF nowApps
  <2> QED
    BY <2>1, <2>2
<1>11. \A a \in Apps : PhaseOf[a] = q.phase => nowApps[a] = q.apps[a]
  <2>1. \A a \in Apps : PhaseOf[a] \in Nat
    BY DEF APPLICATION
  <2>2. \A a \in Apps : PhaseOf[a] = q.phase => a \notin reached
    BY <2>1 DEF Manager
  <2> HIDE DEF reached
  <2> QED
    BY <2>2
<1> HIDE DEF nowApps
<1>6. waits \in BOOLEAN /\ (waits <=> begun # {})
  OBVIOUS
<1> HIDE DEF waits, begun
<1>7. r \in Manager
  BY <1>1, <1>2, <1>3, <1>5, <1>6 DEF Manager
<1>8. Listens(r)
  <2>1. r.phase = next /\ r.pending = begun /\ r.handlers = begun
    BY <1>1
  <2>2. r.timer = waits
    BY <1>1
  <2> HIDE DEF r
  <2> QED
    BY <1>3, <1>6, <2>1, <2>2 DEF Listens
<1>9. r.apps = nowApps
  BY <1>1
<1> HIDE DEF r
<1>10. Sound(r) /\ AppsKept(q, r)
  BY <1>4, <1>5, <1>7, <1>8, <1>9 DEF Sound, AppsKept
<1>12. \A a \in Apps : PhaseOf[a] = q.phase => r.apps[a] = q.apps[a]
  BY <1>9, <1>11
<1> QED
  BY <1>10, <1>12 DEF r

\* app_registered, and csm_app_registered or csm_app_exited, which call it.  The phase
\* is over only if nobody else is waited for.
LEMMA EmitSound ==
  ASSUME NEW q, Sound(q), holds \in [Apps -> BOOLEAN],
         NEW a \in Apps, NEW ok, Startable(q, ok)
  PROVE  /\ Sound(Emit(q, a, ok)) /\ AppsKept(q, Emit(q, a, ok))
         /\ Emit(q, a, ok).phase # q.phase =>
              q.pending = {a} /\ Emit(q, a, ok).apps[a] = q.apps[a]
<1>1. q \in Manager /\ Listens(q)
  BY DEF Sound
<1>2. CASE a \notin q.handlers
  <2>1. AppsKept(q, q)
    BY <1>1, ManagerApps, KeptItself DEF AppsKept
  <2> QED
    BY <1>2, <2>1 DEF Emit
<1>3. CASE a \in q.handlers
  <2> DEFINE left == [q EXCEPT !.pending = @ \ {a}, !.handlers = @ \ {a}]
  <2>1. /\ left \in Manager
        /\ left.pending = q.pending \ {a} /\ left.handlers = q.handlers \ {a}
        /\ left.apps = q.apps /\ left.phase = q.phase /\ left.timer = q.timer
    BY <1>1 DEF Manager
  <2>2. Emit(q, a, ok) = IF left.pending = {} THEN EndPhase(left, ok) ELSE left
    BY <1>3 DEF Emit, AppRegistered
  <2>3. a \in q.pending /\ q.phase < APPLICATION
    BY <1>1, <1>3 DEF Listens
  <2> HIDE DEF left
  <2>4. CASE left.pending = {}
    <3>1. left.handlers = {}
      BY <1>1, <2>1, <2>4 DEF Listens
    <3>2. (\A b \in Apps : Proper(b, left.apps[b])) /\ Startable(left, ok)
      BY <2>1 DEF Sound, Startable
    <3>3. /\ Sound(EndPhase(left, ok)) /\ AppsKept(left, EndPhase(left, ok))
          /\ PhaseOf[a] = left.phase => EndPhase(left, ok).apps[a] = left.apps[a]
      BY <2>1, <2>3, <3>1, <3>2, EndPhaseSound
    <3>4. q.pending = {a} /\ PhaseOf[a] = q.phase
      BY <1>1, <2>1, <2>3, <2>4 DEF Listens
    <3> QED
      BY <2>1, <2>2, <2>4, <3>3, <3>4 DEF AppsKept
  <2>5. CASE left.pending # {}
    <3>1. Listens(left)
      BY <1>1, <2>1, <2>3, <2>5 DEF Listens
    <3>2. Sound(left)
      BY <2>1, <3>1 DEF Sound
    <3>3. AppsKept(q, left)
      BY <1>1, <2>1, ManagerApps, KeptItself DEF AppsKept
    <3> QED
      BY <2>1, <2>2, <2>5, <3>2, <3>3
  <2> QED
    BY <2>4, <2>5
<1> QED
  BY <1>2, <1>3

\* One application changes as it may
LEMMA OneAppSound ==
  ASSUME NEW q, Sound(q), NEW a \in Apps, NEW app \in App, Proper(a, app)
  PROVE  /\ Sound([q EXCEPT !.apps = [@ EXCEPT ![a] = app]])
         /\ [q EXCEPT !.apps = [@ EXCEPT ![a] = app]].apps[a] = app
         /\ \A b \in Apps \ {a} : [q EXCEPT !.apps = [@ EXCEPT ![a] = app]].apps[b] = q.apps[b]
<1> DEFINE now == [q.apps EXCEPT ![a] = app]
           r == [q EXCEPT !.apps = now]
<1>1. q \in Manager /\ q.apps \in [Apps -> App]
  BY DEF Sound, Manager
<1>2. /\ now \in [Apps -> App] /\ now[a] = app
      /\ \A b \in Apps \ {a} : now[b] = q.apps[b]
  BY <1>1
<1> HIDE DEF now
<1>3. /\ r \in Manager /\ r.apps = now /\ r.pending = q.pending /\ r.handlers = q.handlers
      /\ r.timer = q.timer /\ r.phase = q.phase
  BY <1>1, <1>2 DEF Manager
<1>4. \A b \in Apps : Proper(b, now[b])
  BY <1>2 DEF Sound
<1>5. Sound(r)
  <2> HIDE DEF r
  <2> QED
    BY <1>3, <1>4 DEF Sound, Listens
<1>6. r = [q EXCEPT !.apps = [@ EXCEPT ![a] = app]]
  BY DEF now
<1> QED
  BY <1>2, <1>3, <1>5, <1>6

\* A connection of one process is in another state
LEMMA SetConnSound ==
  ASSUME NEW q, Sound(q), NEW a \in Apps, NEW n \in Numbers, NEW conn \in Connection,
         conn.timeout => conn.state = "ice",
         conn.state = "client" => ClientsOf(q, a) \subseteq {n}
  PROVE  LET r == SetConn(q, a, n, conn)
         IN  /\ Sound(r)
             /\ r.apps[a].procs[n].conn = conn
             /\ \A k \in Numbers \ {n} : r.apps[a].procs[k] = q.apps[a].procs[k]
             /\ \A b \in Apps \ {a} : r.apps[b] = q.apps[b]
             /\ r.phase = q.phase /\ r.pending = q.pending
<1> DEFINE app == [q.apps[a] EXCEPT !.procs = [@ EXCEPT ![n].conn = conn]]
           r == [q EXCEPT !.apps = [@ EXCEPT ![a] = app]]
<1>1. q \in Manager /\ q.apps[a] \in App /\ Proper(a, q.apps[a])
  BY ManagerApps DEF Sound
<1>2. conn.state = "client" =>
        \A k \in Numbers \ {n} : q.apps[a].procs[k].conn.state # "client"
  BY DEF ClientsOf
<1>3. /\ app \in App /\ Proper(a, app)
      /\ app.procs[n].conn = conn
      /\ \A k \in Numbers \ {n} : app.procs[k] = q.apps[a].procs[k]
  BY <1>1, <1>2, ConnectionSet
<1>4. SetConn(q, a, n, conn) = r
  BY DEF SetConn
<1>5. r.phase = q.phase /\ r.pending = q.pending
  BY <1>1 DEF Manager
<1> HIDE DEF app
<1>6. Sound(r) /\ r.apps[a] = app /\ \A b \in Apps \ {a} : r.apps[b] = q.apps[b]
  BY <1>3, OneAppSound
<1> HIDE DEF r
<1> QED
  BY <1>3, <1>4, <1>5, <1>6

\* csm_app_start and csm_autostart_app_restart
LEMMA StartedKeeps ==
  ASSUME NEW a \in Apps, NEW app \in App, NEW now \in Started(a, app)
  PROVE  Kept(a, app, now)
<1>1. now = app \/ (CanStart(app) /\ now = Start(app, a \in ActivatedApps))
  BY Zenon DEF Started
<1> QED
  BY <1>1, StartKeeps, KeptItself

LEMMA StoppedKeeps ==
  ASSUME NEW a \in Apps, NEW app \in App
  PROVE  Kept(a, app, Stopped(a, app))
BY StopKeeps, KeptItself DEF Stopped

LEMMA RestartedKeeps ==
  ASSUME NEW a \in Apps, NEW app \in App, NEW now \in Restarted(a, app)
  PROVE  Kept(a, app, now)
<1>1. Kept(a, app, Stopped(a, app)) /\ Stopped(a, app) \in App
  BY StoppedKeeps DEF Kept
<1>2. Kept(a, Stopped(a, app), now)
  BY <1>1, StartedKeeps DEF Restarted
<1> QED
  BY <1>1, <1>2, KeptThrough

-----------------------------------------------------------------------------
(* The steps *)

Rest ==
  /\ stopped \in [Apps -> [Numbers -> Nat]]
  /\ holds \in [Apps -> BOOLEAN]
  /\ events \in [Apps -> Seq(BOOLEAN)]
  /\ changes \in 0..MaxChanges

StartupInv == Sound(m) /\ Rest

LEMMA BecomesIs ==
  ASSUME NEW q \in Manager, Becomes(q)
  PROVE  m' = q
BY DEF Becomes, m, Manager

LEMMA Fields ==
  /\ m.phase = phase /\ m.pending = pending /\ m.handlers = handlers
  /\ m.timer = timer /\ m.apps = apps
BY DEF m

\* A step that changes one application alone
LEMMA AppStep ==
  ASSUME Sound(m), NEW a \in Apps, NEW app \in App, Proper(a, app),
         apps' = [apps EXCEPT ![a] = app], UNCHANGED <<phase, pending, handlers, timer>>
  PROVE  Sound(m') /\ apps'[a] = app /\ \A b \in Apps \ {a} : apps'[b] = apps[b]
<1>1. m' = [m EXCEPT !.apps = [@ EXCEPT ![a] = app]]
  BY DEF m
<1>2. m.apps = apps /\ m'.apps = apps'
  BY DEF m
<1> QED
  BY <1>1, <1>2, OneAppSound

\* ... in a way that leaves the connections alone
LEMMA KeptStep ==
  ASSUME Sound(m), NEW a \in Apps, NEW app, Kept(a, apps[a], app),
         apps' = [apps EXCEPT ![a] = app], UNCHANGED <<phase, pending, handlers, timer>>
  PROVE  Sound(m') /\ AppsKept(m, m')
<1>1. \A b \in Apps : apps[b] \in App /\ Proper(b, apps[b])
  BY Fields, ManagerApps DEF Sound
<1>2. app \in App /\ Proper(a, app)
  BY <1>1, KeptProper
<1>3. Sound(m') /\ apps'[a] = app /\ \A b \in Apps \ {a} : apps'[b] = apps[b]
  BY <1>2, AppStep
<1>4. \A b \in Apps : Kept(b, apps[b], apps'[b])
  BY <1>1, <1>3, KeptItself
<1>5. m.apps = apps /\ m'.apps = apps'
  BY DEF m
<1> QED
  BY <1>3, <1>4, <1>5 DEF AppsKept

LEMMA StartSessionStep ==
  ASSUME StartupInv, StartSession
  PROVE  Sound(m') /\ AppsKept(m, m')
<1>1. PICK ok \in Successes(m) : Becomes(EndPhase(m, ok))
  BY DEF StartSession
<1>2. m \in Manager /\ m.phase = STARTUP /\ Listens(m)
  BY Fields DEF StartSession, StartupInv, Sound
<1>3. m.pending = {}
  <2>1. \A a \in m.pending : a \in Apps /\ PhaseOf[a] = 0
    BY <1>2 DEF Listens, Manager, STARTUP
  <2> QED
    BY <2>1, StartupAssumption
<1>4. m.handlers = {} /\ m.phase < APPLICATION
  BY <1>2, <1>3 DEF Listens, STARTUP, APPLICATION
<1>5. Sound(EndPhase(m, ok)) /\ AppsKept(m, EndPhase(m, ok))
  BY <1>2, <1>4, SuccessesStartable, EndPhaseSound DEF StartupInv, Sound, Rest
<1> QED
  BY <1>1, <1>5, BecomesIs DEF Sound

LEMMA PhaseTimeoutStep ==
  ASSUME StartupInv, PhaseTimeout
  PROVE  Sound(m') /\ AppsKept(m, m')
<1> DEFINE q == GiveUp(m)
<1>1. PICK ok \in Successes(m) : Becomes(EndPhase(q, ok))
  BY DEF PhaseTimeout
<1>2. m \in Manager /\ m.timer /\ Listens(m)
  BY Fields DEF PhaseTimeout, StartupInv, Sound
<1>3. /\ q \in Manager /\ q.apps = m.apps /\ q.phase = m.phase
      /\ q.handlers = m.handlers \ m.pending
  BY <1>2 DEF GiveUp, Manager
<1> HIDE DEF q
<1>4. q.handlers = {} /\ q.phase < APPLICATION
  BY <1>2, <1>3 DEF Listens
<1>5. Startable(q, ok) /\ \A a \in Apps : Proper(a, q.apps[a])
  BY <1>3, SuccessesStartable DEF Startable, StartupInv, Sound
<1>6. Sound(EndPhase(q, ok)) /\ AppsKept(q, EndPhase(q, ok))
  BY <1>3, <1>4, <1>5, EndPhaseSound DEF StartupInv, Rest
<1> QED
  BY <1>1, <1>3, <1>6, BecomesIs DEF Sound, AppsKept

LEMMA DelayTimeoutStep ==
  ASSUME StartupInv, NEW a \in Apps, DelayTimeout(a)
  PROVE  Sound(m') /\ AppsKept(m, m')
<1> DEFINE look == Look(a, apps[a])
           seen == [look EXCEPT !.delayed = FALSE]
<1>1. PICK app \in IF Disabled(a) THEN {seen} ELSE Started(a, seen) :
        apps' = [apps EXCEPT ![a] = app]
  BY Zenon DEF DelayTimeout
<1>2. UNCHANGED <<phase, pending, handlers, timer>>
  BY DEF DelayTimeout
<1>3. apps[a] \in App
  BY Fields, ManagerApps DEF StartupInv, Sound
<1>4. Kept(a, apps[a], look) /\ look \in App
  BY <1>3, LookKeeps DEF Kept, StartupInv, Rest
<1> HIDE DEF look
<1>5. Kept(a, look, seen) /\ seen \in App
  BY <1>4, FieldsKeep DEF Kept
<1>6. Kept(a, apps[a], seen)
  BY <1>4, <1>5, KeptThrough
<1> HIDE DEF seen
<1>7. Kept(a, apps[a], app)
  BY <1>1, <1>5, <1>6, StartedKeeps, KeptThrough
<1> QED
  BY <1>1, <1>2, <1>7, KeptStep DEF StartupInv

LEMMA ConditionChangedStep ==
  ASSUME StartupInv, NEW a \in Apps, NEW value \in BOOLEAN, ConditionChanged(a, value),
         UNCHANGED <<phase, pending, handlers, timer>>
  PROVE  Sound(m') /\ AppsKept(m, m') /\ stopped' \in [Apps -> [Numbers -> Nat]]
<1> DEFINE seen == [apps[a] EXCEPT !.condition = value]
<1>1. apps[a] \in App
  BY Fields, ManagerApps DEF StartupInv, Sound
<1>2. Kept(a, apps[a], seen) /\ seen \in App
  <2>1. Kept(a, apps[a], seen)
    BY <1>1, FieldsKeep
  <2> QED
    BY <2>1, Zenon DEF Kept
<1>3. Sound(m) /\ stopped \in [Apps -> [Numbers -> Nat]]
  BY DEF StartupInv, Rest
<1>4. ASSUME NEW app \in Started(a, seen), apps' = [apps EXCEPT ![a] = app]
      PROVE  Sound(m') /\ AppsKept(m, m')
  <2>1. Kept(a, apps[a], app)
    BY <1>2, <1>4, StartedKeeps, KeptThrough
  <2> QED
    BY <1>3, <1>4, <2>1, KeptStep
<1>5. ASSUME apps' = [apps EXCEPT ![a].condition = value]
      PROVE  Sound(m') /\ AppsKept(m, m')
  BY <1>2, <1>3, <1>5, KeptStep
<1>6. ASSUME NEW n \in Numbers, apps' = [apps EXCEPT ![a] = Tell([@ EXCEPT !.condition = value], n)]
      PROVE  Sound(m') /\ AppsKept(m, m')
  <2> DEFINE p == [seen.procs[n] EXCEPT !.told = TRUE]
             told == [seen EXCEPT !.procs = [seen.procs EXCEPT ![n] = p]]
  <2>1. seen.procs[n] \in Process
    BY <1>2 DEF App
  <2>2. p \in Process /\ p.conn = seen.procs[n].conn /\ p.life = seen.procs[n].life
    BY <2>1 DEF Process
  <2>3. apps' = [apps EXCEPT ![a] = told]
    BY <1>6 DEF Tell
  <2> HIDE DEF p, seen
  <2>4. Kept(a, seen, told)
    BY <1>2, <2>2, ProcessKeeps
  <2> HIDE DEF told
  <2>5. Kept(a, apps[a], told)
    BY <1>2, <2>4, KeptThrough
  <2> QED
    BY <1>3, <2>3, <2>5, KeptStep
<1>7. ASSUME apps' = [apps EXCEPT ![a] = Stopped(a, [@ EXCEPT !.condition = value])]
      PROVE  Sound(m') /\ AppsKept(m, m')
  <2>1. apps' = [apps EXCEPT ![a] = Stopped(a, seen)]
    BY <1>7
  <2> HIDE DEF seen
  <2>2. Kept(a, apps[a], Stopped(a, seen))
    BY <1>2, StoppedKeeps, KeptThrough
  <2> QED
    BY <1>3, <2>1, <2>2, KeptStep
<1>8. ASSUME NEW n \in Numbers, stopped' = [stopped EXCEPT ![a][n] = @ + 1]
      PROVE  stopped' \in [Apps -> [Numbers -> Nat]]
  BY <1>3, <1>8
<1>9. UNCHANGED stopped => stopped' \in [Apps -> [Numbers -> Nat]]
  BY <1>3
<1>10. \A n \in ClientsOf(m, a) : n \in Numbers
  BY DEF ClientsOf
<1> QED
  BY <1>4, <1>5, <1>6, <1>7, <1>8, <1>9, <1>10 DEF ConditionChanged

LEMMA NextEvent ==
  ASSUME NEW s \in Seq(BOOLEAN), s # <<>>
  PROVE  Head(s) \in BOOLEAN /\ Tail(s) \in Seq(BOOLEAN)
OBVIOUS

LEMMA ConditionNotifyStep ==
  ASSUME StartupInv, NEW a \in Apps, ConditionNotify(a)
  PROVE  StartupInv' /\ AppsKept(m, m')
<1> DEFINE value == IF a \in SettingApps THEN holds[a] ELSE Head(events[a])
<1>1. Rest
  BY DEF StartupInv
<1>2. Head(events[a]) \in BOOLEAN /\ Tail(events[a]) \in Seq(BOOLEAN)
  <2>1. events[a] \in Seq(BOOLEAN) /\ events[a] # <<>>
    BY <1>1 DEF Rest, ConditionNotify
  <2> QED
    BY <2>1, NextEvent
<1>3. value \in BOOLEAN
  <2>1. holds[a] \in BOOLEAN
    BY <1>1 DEF Rest
  <2> QED
    BY <1>2, <2>1, Zenon
<1>4. /\ UNCHANGED <<phase, pending, handlers, timer, holds, changes>>
      /\ events' = [events EXCEPT ![a] = Tail(@)]
      /\ \/ ConditionChanged(a, value)
         \/ /\ apps' = [apps EXCEPT ![a].condition = value]
            /\ UNCHANGED stopped
  BY Zenon DEF ConditionNotify
<1> HIDE DEF value
<1>5. CASE ConditionChanged(a, value)
  <2>1. Sound(m') /\ AppsKept(m, m') /\ stopped' \in [Apps -> [Numbers -> Nat]]
    BY <1>3, <1>4, <1>5, ConditionChangedStep
  <2>2. Rest'
    BY <1>1, <1>2, <1>4, <2>1 DEF Rest
  <2> QED
    BY <2>1, <2>2 DEF StartupInv
<1>6. CASE apps' = [apps EXCEPT ![a].condition = value] /\ UNCHANGED stopped
  <2> DEFINE app == [apps[a] EXCEPT !.condition = value]
  <2>1. Kept(a, apps[a], app)
    BY <1>3, Fields, ManagerApps, FieldsKeep DEF StartupInv, Sound
  <2>2. apps' = [apps EXCEPT ![a] = app]
    BY <1>6
  <2> HIDE DEF app
  <2>3. Sound(m') /\ AppsKept(m, m')
    BY <1>4, <2>1, <2>2, KeptStep DEF StartupInv
  <2>4. Rest'
    BY <1>1, <1>2, <1>4, <1>6 DEF Rest
  <2> QED
    BY <2>3, <2>4 DEF StartupInv
<1> QED
  BY <1>4, <1>5, <1>6

LEMMA ConditionFlipsStep ==
  ASSUME StartupInv, NEW a \in Apps, ConditionFlips(a)
  PROVE  StartupInv' /\ AppsKept(m, m')
<1>1. UNCHANGED <<phase, pending, handlers, timer, apps>>
  BY DEF ConditionFlips
<1>2. m' = m
  BY <1>1 DEF m
<1>3. AppsKept(m, m)
  BY ManagerApps, KeptItself DEF AppsKept, StartupInv, Sound
<1>4. holds[a] \in BOOLEAN /\ events[a] \in Seq(BOOLEAN)
  BY DEF StartupInv, Rest
<1>5. (~ holds[a]) \in BOOLEAN
  OBVIOUS
<1>6. /\ holds' = [holds EXCEPT ![a] = ~ holds[a]]
      /\ events' = [events EXCEPT ![a] = Append(events[a], ~ holds[a])]
      /\ changes < MaxChanges /\ changes' = changes + 1 /\ stopped' = stopped
  BY DEF ConditionFlips
<1>7. Append(events[a], ~ holds[a]) \in Seq(BOOLEAN)
  BY <1>4, <1>5
<1>8. holds' \in [Apps -> BOOLEAN] /\ events' \in [Apps -> Seq(BOOLEAN)]
  BY <1>5, <1>6, <1>7 DEF StartupInv, Rest
<1>9. changes' \in 0..MaxChanges
  BY <1>6, StartupAssumption DEF StartupInv, Rest
<1> QED
  BY <1>2, <1>3, <1>6, <1>8, <1>9 DEF StartupInv, Rest, Sound

LEMMA ProcessEndsStep ==
  ASSUME StartupInv, NEW a \in Apps, NEW n \in Numbers, ProcessEnds(a, n)
  PROVE  Sound(m') /\ AppsKept(m, m')
<1>1. PICK how \in IF a \in ActivatedApps THEN {"reaped"} ELSE {"exited", "died"} :
        apps' = [apps EXCEPT ![a].procs[n].life = how]
  BY DEF ProcessEnds
<1>2. UNCHANGED <<phase, pending, handlers, timer>> /\ Sound(m)
  BY DEF ProcessEnds, StartupInv
<1>3. apps[a] \in App /\ Proper(a, apps[a])
  BY Fields, ManagerApps DEF StartupInv, Sound
<1> DEFINE p == [apps[a].procs[n] EXCEPT !.life = how]
           app == [apps[a] EXCEPT !.procs = [apps[a].procs EXCEPT ![n] = p]]
<1>4. p \in Process /\ p.conn = apps[a].procs[n].conn /\ p.life = how
  BY <1>1, <1>3 DEF App, Process
<1>5. apps' = [apps EXCEPT ![a] = app]
  BY <1>1
<1> HIDE DEF p
<1>6. apps[a].pid # n \/ how \in {"running", "exited", "died"}
  BY <1>1, <1>3, NoPidIsNone DEF Proper
<1>7. Kept(a, apps[a], app)
  BY <1>3, <1>4, <1>6, ProcessKeeps
<1> HIDE DEF app
<1> QED
  BY <1>2, <1>5, <1>7, KeptStep

-----------------------------------------------------------------------------
(* The steps that reach the manager or a connection *)

\* No connection is closed of a client whose process runs
ConnectionsStay ==
  \A a \in Apps, n \in Numbers :
    Accepted(Proc(a, n).conn) /\ Runs(a, n) => Accepted(Proc(a, n)'.conn)

LEMMA KeptConnections ==
  ASSUME AppsKept(m, m')
  PROVE  ConnectionsStay
<1>1. m.apps = apps /\ m'.apps = apps'
  BY DEF m
<1> QED
  BY <1>1 DEF AppsKept, Kept, ConnectionsStay, Proc

\* app_exited
LEMMA ChildWatchStep ==
  ASSUME StartupInv, NEW a \in Apps, NEW n \in Numbers, ChildWatch(a, n)
  PROVE  /\ Sound(m') /\ AppsKept(m, m')
         /\ phase' # phase => pending = {a} /\ Answers(a)
<1> DEFINE app == AppExited(apps[a], n)
           left == [m EXCEPT !.apps = [@ EXCEPT ![a] = app]]
           exits == Proc(a, n).life = "exited"
<1>1. [m EXCEPT !.apps[a] = AppExited(@, n)] = left
  BY Fields
<1> HIDE DEF left, app, exits
<1>2. PICK ok \in Successes(left) : Becomes(IF exits THEN Emit(left, a, ok) ELSE left)
  BY <1>1 DEF ChildWatch, exits
<1>3. apps[a] \in App /\ Proper(a, apps[a]) /\ Sound(m) /\ m \in Manager
  BY Fields, ManagerApps DEF StartupInv, Sound
<1>4. Kept(a, apps[a], app)
  BY <1>3, AppExitedKeeps DEF app
<1>5. app \in App /\ Proper(a, app)
  BY <1>3, <1>4, KeptProper
<1>6. /\ Sound(left) /\ left.apps[a] = app
      /\ \A b \in Apps \ {a} : left.apps[b] = m.apps[b]
  BY <1>3, <1>5, OneAppSound DEF left
<1>7. left.phase = m.phase /\ left.pending = m.pending
  BY <1>3 DEF left, Manager
<1>8. \A b \in Apps : Kept(b, m.apps[b], left.apps[b])
  <2> SUFFICES ASSUME NEW b \in Apps PROVE Kept(b, m.apps[b], left.apps[b])
    OBVIOUS
  <2>1. CASE b = a
    BY <1>4, <1>6, <2>1, Fields
  <2>2. CASE b # a
    BY <1>3, <1>6, <2>2, ManagerApps, KeptItself
  <2> QED
    BY <2>1, <2>2
<1>9. holds \in [Apps -> BOOLEAN] /\ Startable(left, ok)
  BY <1>2, SuccessesStartable DEF StartupInv, Rest
<1>10. CASE exits
  <2> DEFINE r == Emit(left, a, ok)
  <2>1. /\ Sound(r) /\ AppsKept(left, r)
        /\ r.phase # left.phase => left.pending = {a} /\ r.apps[a] = left.apps[a]
    BY <1>6, <1>9, EmitSound
  <2> HIDE DEF r
  <2>2. Becomes(r)
    BY <1>2, <1>10 DEF r
  <2>3. m' = r
    BY <2>1, <2>2, BecomesIs DEF Sound
  <2>4. AppsKept(m, r)
    BY <1>8, <2>1, KeptThrough DEF AppsKept
  <2>5. ASSUME phase' # phase PROVE pending = {a} /\ Answers(a)
    <3>1. m'.phase = phase' /\ m'.apps = apps' /\ m.phase = phase /\ m.pending = pending
      BY DEF m
    <3>2. pending = {a} /\ apps'[a] = app
      BY <1>6, <1>7, <2>1, <2>3, <2>5, <3>1
    <3>3. app.procs[n].life = "reaped"
      BY <1>3 DEF app, AppExited, App, Process
    <3> QED
      BY <1>10, <3>2, <3>3 DEF Answers, exits, Proc
  <2> QED
    BY <2>1, <2>3, <2>4, <2>5
<1>11. CASE ~ exits
  <2>1. m' = left
    BY <1>2, <1>6, <1>11, BecomesIs DEF Sound
  <2>2. m'.phase = phase' /\ m.phase = phase
    BY DEF m
  <2> QED
    BY <1>6, <1>7, <1>8, <2>1, <2>2 DEF AppsKept
<1> QED
  BY <1>10, <1>11

\* A step of one connection
LEMMA ConnStep ==
  ASSUME StartupInv, NEW a \in Apps, NEW n \in Numbers, NEW conn \in Connection,
         conn.timeout => conn.state = "ice", conn.state # "client",
         Accepted(Proc(a, n).conn) /\ Runs(a, n) => Accepted(conn),
         Becomes(SetConn(m, a, n, conn))
  PROVE  Sound(m') /\ ConnectionsStay /\ phase' = phase
<1> DEFINE r == SetConn(m, a, n, conn)
<1>1. /\ Sound(r) /\ r.apps[a].procs[n].conn = conn
      /\ \A k \in Numbers \ {n} : r.apps[a].procs[k] = m.apps[a].procs[k]
      /\ \A b \in Apps \ {a} : r.apps[b] = m.apps[b]
      /\ r.phase = m.phase
  BY SetConnSound DEF StartupInv
<1> HIDE DEF r
<1>2. m' = r
  BY <1>1, BecomesIs DEF Sound, r
<1>3. m'.apps = apps' /\ m.apps = apps /\ m'.phase = phase' /\ m.phase = phase
  BY DEF m
<1>4. ConnectionsStay
  BY <1>1, <1>2, <1>3 DEF ConnectionsStay, Proc
<1> QED
  BY <1>1, <1>2, <1>3, <1>4

\* What the connection of a process is
LEMMA Connections ==
  ASSUME StartupInv, NEW a \in Apps, NEW n \in Numbers
  PROVE  /\ Proc(a, n).conn \in Connection
         /\ Proc(a, n).conn.timeout => Proc(a, n).conn.state = "ice"
<1>1. apps[a] \in App /\ Proper(a, apps[a])
  BY Fields, ManagerApps DEF StartupInv, Sound
<1> QED
  BY <1>1 DEF Proc, Proper, App, Process

LEMMA ServerOperators ==
  ASSUME NEW conn
  PROVE  /\ AcceptIce(conn) \in Connection /\ AcceptIce(conn).state = "ice"
         /\ AcceptXsmp(conn) \in Connection /\ AcceptXsmp(conn).state = "xsmp"
         /\ ~ AcceptXsmp(conn).timeout
         /\ DropIce(conn) \in Connection /\ DropIce(conn).state = "closed"
         /\ ~ DropIce(conn).timeout
BY DEF AcceptIce, AcceptXsmp, DropIce, Connection, ConnectionState

LEMMA ServerStep ==
  ASSUME StartupInv, NEW a \in Apps, NEW n \in Numbers,
         \/ ProcessConnects(a, n) \/ ProcessOpensXsmp(a, n) \/ AuthenticationFails(a, n)
         \/ ProtocolTimeout(a, n) \/ StrangerGone(a, n)
  PROVE  Sound(m') /\ ConnectionsStay /\ phase' = phase
<1>1. CASE ProcessConnects(a, n)
  BY <1>1, ServerOperators, ConnStep DEF ProcessConnects, Accepted
<1>2. CASE ProcessOpensXsmp(a, n)
  BY <1>2, ServerOperators, ConnStep DEF ProcessOpensXsmp, Accepted
<1>3. CASE AuthenticationFails(a, n)
  BY <1>3, ServerOperators, ConnStep DEF AuthenticationFails, Accepted
<1>4. CASE ProtocolTimeout(a, n)
  <2>1. Proc(a, n).conn.state = "ice"
    BY <1>4, Connections DEF ProtocolTimeout
  <2> QED
    BY <1>4, <2>1, ServerOperators, ConnStep DEF ProtocolTimeout, Accepted
<1>5. CASE StrangerGone(a, n)
  BY <1>5, ServerOperators, ConnStep DEF StrangerGone, Accepted
<1> QED
  BY <1>1, <1>2, <1>3, <1>4, <1>5

\* csm_manager_register_client
LEMMA RegisterStep ==
  ASSUME StartupInv, NEW a \in Apps, NEW n \in Numbers, Register(a, n)
  PROVE  /\ Sound(m') /\ ConnectionsStay
         /\ phase' # phase => pending = {a} /\ Answers(a)
<1> DEFINE conn == [state |-> "client", timeout |-> Proc(a, n).conn.timeout]
           other == [Proc(a, n).conn EXCEPT !.state = "anonymous"]
           named == SetConn(m, a, n, conn)
<1>1. /\ Proc(a, n).conn \in Connection /\ ~ Proc(a, n).conn.timeout
      /\ Proc(a, n).conn.state # "client"
  BY Connections DEF Register
<1>2. /\ conn \in Connection /\ conn.state = "client" /\ ~ conn.timeout
      /\ other \in Connection /\ other.state = "anonymous" /\ ~ other.timeout
  BY <1>1 DEF Connection, ConnectionState
<1>3. m'.apps = apps' /\ m.apps = apps /\ m'.phase = phase' /\ m.phase = phase
      /\ m.pending = pending
  BY DEF m
<1>4. CASE IdFree(a)
  <2>1. PICK ok \in Successes(named) : Becomes(Emit(named, a, ok))
    BY <1>4, Zenon DEF Register
  <2> HIDE DEF conn, other, named
  <2>2. ClientsOf(m, a) \subseteq {n}
    BY <1>4 DEF IdFree
  <2>3. /\ Sound(named) /\ named.apps[a].procs[n].conn = conn
        /\ \A k \in Numbers \ {n} : named.apps[a].procs[k] = m.apps[a].procs[k]
        /\ \A b \in Apps \ {a} : named.apps[b] = m.apps[b]
        /\ named.phase = m.phase /\ named.pending = m.pending
    BY <1>2, <2>2, SetConnSound DEF StartupInv, named
  <2>4. holds \in [Apps -> BOOLEAN] /\ Startable(named, ok)
    BY <2>1, SuccessesStartable DEF StartupInv, Rest
  <2> DEFINE r == Emit(named, a, ok)
  <2>5. /\ Sound(r) /\ AppsKept(named, r)
        /\ r.phase # named.phase => named.pending = {a}
    BY <2>3, <2>4, EmitSound
  <2> HIDE DEF r
  <2>6. m' = r
    BY <2>1, <2>5, BecomesIs DEF Sound, r
  <2>7. \A b \in Apps, k \in Numbers : r.apps[b].procs[k].conn = named.apps[b].procs[k].conn
    BY <2>5 DEF AppsKept, Kept
  <2>8. Proc(a, n)'.conn = conn
    BY <1>3, <2>3, <2>6, <2>7 DEF Proc
  <2>9. ConnectionsStay
    <3> SUFFICES ASSUME NEW b \in Apps, NEW k \in Numbers, Accepted(Proc(b, k).conn)
                 PROVE  Accepted(Proc(b, k)'.conn)
      BY DEF ConnectionsStay
    <3>1. CASE b = a /\ k = n
      BY <1>2, <2>8, <3>1 DEF Accepted
    <3>2. CASE b # a \/ k # n
      <4>1. apps'[b].procs[k].conn = named.apps[b].procs[k].conn
        BY <1>3, <2>6, <2>7
      <4>2. named.apps[b].procs[k] = apps[b].procs[k]
        BY <1>3, <2>3, <3>2
      <4>3. Proc(b, k)'.conn = Proc(b, k).conn
        BY <4>1, <4>2 DEF Proc
      <4> QED
        BY <4>3
    <3> QED
      BY <3>1, <3>2
  <2>10. Answers(a)
    BY <1>1, <1>2, <2>8 DEF Answers
  <2> QED
    BY <1>3, <2>3, <2>5, <2>6, <2>9, <2>10
<1>5. CASE ~ IdFree(a)
  <2>1. Becomes(SetConn(m, a, n, other))
    BY <1>5, Zenon DEF Register
  <2> HIDE DEF conn, other, named
  <2> QED
    BY <1>2, <2>1, ConnStep DEF Accepted
<1> QED
  BY <1>4, <1>5

\* _disconnect_client
LEMMA ClientGoneStep ==
  ASSUME StartupInv, NEW a \in Apps, NEW n \in Numbers, ClientGone(a, n)
  PROVE  StartupInv' /\ ConnectionsStay
<1> DEFINE closed == DropIce(Proc(a, n).conn)
           left == SetConn(m, a, n, closed)
<1>1. PICK b \in Apps, k \in Numbers, listed \in BOOLEAN :
        /\ listed => stopped[b][k] > 0
        /\ stopped' = IF listed THEN [stopped EXCEPT ![b][k] = @ - 1] ELSE stopped
        /\ \E app \in IF phase < QUERY_END_SESSION /\ a \in RestartedApps /\ ~ listed
                      THEN Restarted(a, left.apps[a]) ELSE {left.apps[a]} :
             apps' = [apps EXCEPT ![a] = app]
  BY Zenon DEF ClientGone
<1>2. closed \in Connection /\ closed.state = "closed" /\ ~ closed.timeout
  BY ServerOperators
<1> HIDE DEF closed
<1>3. /\ Sound(left)
      /\ \A j \in Numbers \ {n} : left.apps[a].procs[j] = m.apps[a].procs[j]
  BY <1>2, SetConnSound DEF StartupInv
<1> HIDE DEF left
<1>4. left.apps[a] \in App /\ Proper(a, left.apps[a])
  BY <1>3, ManagerApps DEF Sound
<1>5. PICK app : /\ app \in Restarted(a, left.apps[a]) \/ app = left.apps[a]
                 /\ apps' = [apps EXCEPT ![a] = app]
  BY <1>1
<1>6. Kept(a, left.apps[a], app)
  BY <1>4, <1>5, RestartedKeeps, KeptItself
<1>7. app \in App /\ Proper(a, app)
  BY <1>4, <1>6, KeptProper
<1>8. UNCHANGED <<phase, pending, handlers, timer, holds, events, changes>> /\ ~ Runs(a, n)
  BY DEF ClientGone, World
<1>9. Sound(m') /\ apps'[a] = app /\ \A c \in Apps \ {a} : apps'[c] = apps[c]
  BY <1>5, <1>7, <1>8, AppStep DEF StartupInv
<1>10. ConnectionsStay
  <2>1. \A j \in Numbers \ {n} : app.procs[j].conn = apps[a].procs[j].conn
    BY <1>3, <1>6, Fields DEF Kept
  <2>2. \A c \in Apps, j \in Numbers :
          c # a \/ j # n => Proc(c, j)'.conn = Proc(c, j).conn
    BY <1>9, <2>1 DEF Proc
  <2> QED
    BY <1>8, <2>2 DEF ConnectionsStay
<1>11. stopped' \in [Apps -> [Numbers -> Nat]]
  <2>1. stopped \in [Apps -> [Numbers -> Nat]]
    BY DEF StartupInv, Rest
  <2>2. CASE listed
    <3>1. stopped[b][k] - 1 \in Nat
      BY <1>1, <2>1, <2>2
    <3>2. stopped' = [stopped EXCEPT ![b][k] = stopped[b][k] - 1]
      BY <1>1, <2>2
    <3> QED
      BY <2>1, <3>1, <3>2
  <2>3. CASE ~ listed
    BY <1>1, <2>1, <2>3
  <2> QED
    BY <2>2, <2>3
<1> QED
  BY <1>8, <1>9, <1>10, <1>11 DEF StartupInv, Rest

\* A logout changes the phase of the running session alone
LEMMA LogoutStep ==
  ASSUME StartupInv, Logout \/ LogoutCancelled
  PROVE  StartupInv' /\ AppsKept(m, m')
<1>1. /\ phase \in {RUNNING, QUERY_END_SESSION} /\ phase' \in {RUNNING, QUERY_END_SESSION}
      /\ UNCHANGED <<pending, handlers, timer, apps, stopped, holds, events, changes>>
  BY DEF Logout, LogoutCancelled, World
<1>2. m.apps = apps /\ m'.apps = apps' /\ m' = [m EXCEPT !.phase = phase']
  BY <1>1 DEF m
<1>3. m \in Manager /\ Listens(m) /\ (\A a \in Apps : Proper(a, m.apps[a]))
  BY DEF StartupInv, Sound
<1>4. phase' \in STARTUP..QUERY_END_SESSION
  BY <1>1 DEF STARTUP, RUNNING, QUERY_END_SESSION
<1>5. m' \in Manager
  BY <1>2, <1>3, <1>4 DEF Manager
<1>6. pending = {}
  BY <1>1, <1>3, Fields DEF Listens, RUNNING, QUERY_END_SESSION, APPLICATION
<1>7. m'.pending = pending' /\ m'.handlers = handlers' /\ m'.timer = timer'
  BY DEF m
<1>8. Listens(m')
  BY <1>1, <1>3, <1>6, <1>7, Fields DEF Listens
<1>9. Sound(m')
  BY <1>1, <1>2, <1>3, <1>5, <1>8 DEF Sound
<1>10. AppsKept(m, m')
  BY <1>1, <1>2, <1>3, ManagerApps, KeptItself DEF AppsKept
<1> QED
  BY <1>1, <1>9, <1>10 DEF StartupInv, Rest

-----------------------------------------------------------------------------
(* The theorems *)

LEMMA InitInv == Init => StartupInv
<1> SUFFICES ASSUME Init PROVE StartupInv
  OBVIOUS
<1> USE StartupAssumption, StartsAssumption
<1>1. NewApp \in App /\ \A a \in Apps : Proper(a, NewApp)
  <2>1. /\ NewApp.pid = NoPid
        /\ \A n \in Numbers : NewApp.procs[n] = NoProcess
    BY DEF NewApp
  <2>2. NoProcess \in Process /\ NoProcess.conn = NoConnection
    BY DEF NoProcess, Process, NoConnection, Connection, ConnectionState
  <2>3. NewApp \in App
    BY <2>2 DEF NewApp, App
  <2> QED
    BY <2>1, <2>2, <2>3 DEF Proper, Owned, IsRunning, NoConnection
<1>2. /\ m.phase = STARTUP /\ m.pending = {} /\ m.handlers = {} /\ m.timer = FALSE
      /\ m.apps = [a \in Apps |-> NewApp]
  BY Fields DEF Init
<1>3. m \in Manager
  <2>1. [a \in Apps |-> NewApp] \in [Apps -> App]
    BY <1>1
  <2>2. /\ phase \in STARTUP..QUERY_END_SESSION
        /\ pending \in SUBSET Apps /\ handlers \in SUBSET Apps
        /\ timer \in BOOLEAN /\ apps \in [Apps -> App]
    <3>1. timer \in BOOLEAN
      BY Zenon DEF Init
    <3>2. apps \in [Apps -> App]
      BY <2>1, Zenon DEF Init
    <3>3. phase = 0 /\ pending = {} /\ handlers = {}
      BY Zenon DEF Init, STARTUP
    <3> QED
      BY <3>1, <3>2, <3>3 DEF STARTUP, QUERY_END_SESSION
  <2> QED
    BY <2>2 DEF m, Manager
<1>4. Sound(m)
  BY <1>1, <1>2, <1>3 DEF Sound, Listens
<1> QED
  BY <1>4 DEF StartupInv, Rest, Init

\* What a step may change besides: when it ends a phase that waits, and whose
\* connections it closes.
StepOf ==
  /\ phase # phase' /\ phase \in 1..(APPLICATION - 1) =>
       PhaseTimeout \/ \A a \in pending : Answers(a)
  /\ ConnectionsStay

LEMMA NextInv ==
  ASSUME StartupInv, [Next]_vars
  PROVE  StartupInv' /\ StepOf
<1> USE StartupAssumption
<1>1. CASE StartSession
  <2>1. Sound(m') /\ AppsKept(m, m') /\ phase \notin 1..(APPLICATION - 1)
    BY <1>1, StartSessionStep DEF StartSession, STARTUP, APPLICATION
  <2>2. UNCHANGED <<stopped, holds, events, changes>>
    BY <1>1 DEF StartSession, World
  <2> QED
    BY <2>1, <2>2, KeptConnections DEF StartupInv, Rest, StepOf
<1>2. CASE PhaseTimeout
  <2>1. Sound(m') /\ AppsKept(m, m')
    BY <1>2, PhaseTimeoutStep
  <2>2. UNCHANGED <<stopped, holds, events, changes>>
    BY <1>2 DEF PhaseTimeout, World
  <2> QED
    BY <1>2, <2>1, <2>2, KeptConnections DEF StartupInv, Rest, StepOf
<1>3. CASE Logout \/ LogoutCancelled
  <2>1. phase \notin 1..(APPLICATION - 1)
    BY <1>3 DEF Logout, LogoutCancelled, RUNNING, QUERY_END_SESSION, APPLICATION
  <2> QED
    BY <1>3, <2>1, LogoutStep, KeptConnections DEF StepOf
<1>4. ASSUME NEW a \in DelayedApps, DelayTimeout(a)
      PROVE  StartupInv' /\ StepOf
  <2>1. Sound(m') /\ AppsKept(m, m')
    BY <1>4, DelayTimeoutStep
  <2>2. UNCHANGED <<phase, stopped, holds, events, changes>>
    BY <1>4 DEF DelayTimeout, World
  <2> QED
    BY <2>1, <2>2, KeptConnections DEF StartupInv, Rest, StepOf
<1>5. ASSUME NEW a \in ConditionApps, ConditionFlips(a) \/ ConditionNotify(a)
      PROVE  StartupInv' /\ StepOf
  <2>1. phase' = phase
    BY <1>5 DEF ConditionFlips, ConditionNotify
  <2> QED
    BY <1>5, <2>1, ConditionFlipsStep, ConditionNotifyStep, KeptConnections DEF StepOf
<1>6. ASSUME NEW a \in Apps, NEW n \in Numbers, Dispatch(a, n)
      PROVE  StartupInv' /\ StepOf
  <2>1. CASE ChildWatch(a, n)
    <3>1. UNCHANGED <<stopped, holds, events, changes>>
      BY <2>1 DEF ChildWatch, World
    <3> QED
      BY <2>1, <3>1, ChildWatchStep, KeptConnections DEF StartupInv, Rest, StepOf
  <2>2. CASE ProtocolTimeout(a, n) \/ StrangerGone(a, n)
    <3>1. UNCHANGED <<stopped, holds, events, changes>>
      BY <2>2 DEF ProtocolTimeout, StrangerGone, World
    <3> QED
      BY <2>2, <3>1, ServerStep DEF StartupInv, Rest, StepOf
  <2>3. CASE ClientGone(a, n)
    <3>1. phase' = phase
      BY <2>3 DEF ClientGone
    <3> QED
      BY <2>3, <3>1, ClientGoneStep DEF StepOf
  <2> QED
    BY <1>6, <2>1, <2>2, <2>3 DEF Dispatch
<1>7. ASSUME NEW a \in Apps, NEW n \in Numbers, ProcessStep(a, n)
      PROVE  StartupInv' /\ StepOf
  <2>1. CASE ProcessEnds(a, n)
    <3>1. UNCHANGED <<phase, stopped, holds, events, changes>>
      BY <2>1 DEF ProcessEnds, World
    <3> QED
      BY <2>1, <3>1, ProcessEndsStep, KeptConnections DEF StartupInv, Rest, StepOf
  <2>2. CASE ProcessConnects(a, n) \/ ProcessOpensXsmp(a, n) \/ AuthenticationFails(a, n)
    <3>1. UNCHANGED <<stopped, holds, events, changes>>
      BY <2>2 DEF ProcessConnects, ProcessOpensXsmp, AuthenticationFails, World
    <3> QED
      BY <2>2, <3>1, ServerStep DEF StartupInv, Rest, StepOf
  <2>3. CASE Register(a, n)
    <3>1. UNCHANGED <<stopped, holds, events, changes>>
      BY <2>3 DEF Register, World
    <3> QED
      BY <2>3, <3>1, RegisterStep DEF StartupInv, Rest, StepOf
  <2> QED
    BY <1>7, <2>1, <2>2, <2>3 DEF ProcessStep
<1>8. CASE UNCHANGED vars
  <2>1. m' = m /\ UNCHANGED <<phase, apps, stopped, holds, events, changes>>
    BY <1>8 DEF vars, m
  <2>2. AppsKept(m, m')
    BY <2>1, ManagerApps, KeptItself DEF AppsKept, StartupInv, Sound
  <2> QED
    BY <2>1, <2>2, KeptConnections DEF StartupInv, Rest, StepOf, Sound
<1> QED
  BY <1>1, <1>2, <1>3, <1>4, <1>5, <1>6, <1>7, <1>8 DEF Next

LEMMA StartupInductive == Spec => []StartupInv
<1>1. Init => StartupInv
  BY InitInv
<1>2. StartupInv /\ [Next]_vars => StartupInv'
  BY NextInv
<1> QED
  BY <1>1, <1>2, PTL DEF Spec

\* Every variable of the manager and of its applications has its type (Startup).
THEOREM StartupTypeCorrect == Spec => []StartupTypeOK
<1>1. StartupInv => StartupTypeOK
  BY DEF StartupInv, Sound, Rest, StartupTypeOK
<1> QED
  BY <1>1, StartupInductive, PTL

\* The manager listens to exactly those applications it waits for, and has a timer
\* while there are any.
THEOREM ListensToPending == Spec => []HandlersArePending
<1>1. StartupInv => HandlersArePending
  BY Fields DEF StartupInv, Sound, Listens, HandlersArePending
<1> QED
  BY <1>1, StartupInductive, PTL

\* Whatever restarts and exits have come between, a pid that is kept is that of a
\* child which has not been waited for.
THEOREM PidsAreChildren == Spec => []SignalsOwnChildren
<1>1. StartupInv => SignalsOwnChildren
  BY Fields DEF StartupInv, Sound, Proper, Owned, SignalsOwnChildren, Proc
<1> QED
  BY <1>1, StartupInductive, PTL

\* However often an application is started, one client at most has its startup id.
THEOREM StartupIdsAreUnique == Spec => []UniqueStartupIds
<1>1. ASSUME StartupInv, NEW a \in Apps
      PROVE  Cardinality(ClientsOf(m, a)) <= 1
  <2>1. \A n, k \in ClientsOf(m, a) : n = k
    BY <1>1 DEF StartupInv, Sound, Proper, ClientsOf
  <2>2. CASE ClientsOf(m, a) = {}
    BY <2>2, FS_EmptySet
  <2>3. CASE ClientsOf(m, a) # {}
    <3>1. PICK n : ClientsOf(m, a) = {n}
      BY <2>1, <2>3
    <3>2. Cardinality({n}) = 1
      BY FS_Singleton
    <3> QED
      BY <3>1, <3>2
  <2> QED
    BY <2>2, <2>3
<1>2. StartupInv => UniqueStartupIds
  BY <1>1 DEF UniqueStartupIds
<1> QED
  BY <1>2, StartupInductive, PTL

\* Only its timer, or the answer of the last application that it waits for, ends
\* a phase.
THEOREM PhasesWait == Spec => PhaseWaitsForApps
<1>1. StartupInv /\ [Next]_vars => [StepOf]_vars
  BY NextInv
<1>2. [StepOf]_vars =>
        [phase # phase' /\ phase \in 1..(APPLICATION - 1) =>
           PhaseTimeout \/ \A a \in pending : Answers(a)]_vars
  BY DEF StepOf
<1> QED
  BY <1>1, <1>2, StartupInductive, PTL DEF Spec, PhaseWaitsForApps

\* No step of the manager closes the connection of a client that is there.
THEOREM ConnectionsAreKept == Spec => ClientsKeepConnections
<1>1. StartupInv /\ [Next]_vars => [StepOf]_vars
  BY NextInv
<1>2. [StepOf]_vars =>
        [\A a \in Apps, n \in Numbers :
           Accepted(Proc(a, n).conn) /\ Runs(a, n) => Accepted(Proc(a, n)'.conn)]_vars
  BY DEF StepOf, ConnectionsStay
<1> QED
  BY <1>1, <1>2, StartupInductive, PTL DEF Spec, ClientsKeepConnections
=============================================================================
