------------------------- MODULE SessionManagerEnd -------------------------
(***************************************************************************)
(* How a session ends, proved for any number of clients, connections,      *)
(* inhibitors and applications: who is told what, when the session is      *)
(* saved, what an inhibitor holds up, and that SessionManager implements   *)
(* SessionEnd.                                                             *)
(*                                                                         *)
(* Known strengthens these invariants on top of Consistent: in each phase  *)
(* it is known what every client was told.  Step classifies what a whole   *)
(* handler does to the phase, to the clients and to what they were told.   *)
(* NextEnds shows once, action by action, that every step is of one of     *)
(* these kinds; the invariants, the action properties and the refinement   *)
(* only look at the kinds.                                                 *)
(***************************************************************************)
EXTENDS SessionManagerSafety, SessionManagerRefinement

\* The program neither ended nor saved anything.
Going(s) == s.outcome = "running" /\ s.quits = 0 /\ ~ s.saved

\* The program ended in order.
Gone(s) ==
  /\ s.outcome = "quit" /\ s.quits \in Nat \ {0}
  /\ s.saved <=> AutoSave
  /\ \A c \in s.clients : s.told[c] = "stop"

\* What is known in each phase.  The clients may lag behind the phase only if
\* they speak XSMP, for those may connect at any time; and only those may ask
\* to be last.
Known(s) ==
  /\ s.phase # EXIT => Going(s)
  /\ s.phase = EXIT => Gone(s)
  /\ s.phase = QUERY_END_SESSION =>
       ~ s.phaseTimer /\ \A c \in DBusClients \cap s.clients : s.told[c] = "query"
  /\ s.phase = END_SESSION => \A c \in DBusClients \cap s.clients : s.told[c] = "end"
  /\ \A c \in DBusClients : s.next[c] = 0

\* The program did not come to its end.
Broken(s) ==
  /\ s.outcome \in {"signal", "assertion", "dangling"}
  /\ s.phase # STARTUP
  /\ s.saved <=> (AutoSave /\ s.quits > 0)

EndInvariant == Known(m) \/ (Broken(m) /\ leaving = {})

-----------------------------------------------------------------------------
(* The kinds of steps, of D-Bus clients *)

Unheard(s, t) == \A c \in DBusClients : t.told[c] = s.told[c]
Heard(s, t, msg) ==
  \A c \in DBusClients : t.told[c] = IF c \in s.clients THEN msg ELSE s.told[c]

\* D-Bus clients may be gone, and none is new.
Fewer(s, t) == DBusClients \cap t.clients \subseteq s.clients

\* An inhibited logout goes on because somebody forced it.
Forced(t) == LogoutInhibited(t) => t.mode = "force"

Joins(s, t) ==
  s.phase <= t.phase /\ t.phase <= RUNNING /\ s.clients \subseteq t.clients /\ Unheard(s, t)
Stays(s, t) == t.phase = s.phase /\ Fewer(s, t) /\ Unheard(s, t)
Asks(s, t) ==
  s.phase = RUNNING /\ t.phase = QUERY_END_SESSION /\ t.clients = s.clients /\ Heard(s, t, "query")
GoesOn(s, t) ==
  s.phase = QUERY_END_SESSION /\ t.phase = END_SESSION /\ Fewer(s, t) /\ Heard(s, t, "end")
GoesAlone(s, t) ==
  /\ s.phase = QUERY_END_SESSION /\ t.phase = EXIT /\ t.clients = {}
  /\ Unheard(s, t) \/ Heard(s, t, "end")
Finishes(s, t) ==
  /\ s.phase = END_SESSION /\ t.phase = EXIT /\ Fewer(s, t)
  /\ Unheard(s, t) \/ Heard(s, t, "stop")
Resumes(s, t) ==
  /\ s.phase \in {QUERY_END_SESSION, END_SESSION} /\ t.phase = RUNNING
  /\ t.clients = s.clients /\ Heard(s, t, "cancel")
Breaks(s, t) ==
  /\ Broken(t) /\ t.clients = s.clients /\ Unheard(s, t)
  /\ t.phase = s.phase \/ t.outcome = "signal"

\* What a handler does that neither asks the clients nor cancels the end
Ends(s, t) ==
  \/ Stays(s, t)
  \/ GoesOn(s, t) /\ Forced(t)
  \/ GoesAlone(s, t)
  \/ Finishes(s, t)

Step(s, t) ==
  \/ Ends(s, t) \/ Joins(s, t) \/ Asks(s, t) \/ Resumes(s, t) \/ Breaks(s, t)
  \/ GoesOn(s, t) /\ s.logoutDialog # "none"

-----------------------------------------------------------------------------
(* The phases *)

Told(s, t, msg) == \A c \in Clients : t.told[c] = IF c \in s.clients THEN msg ELSE s.told[c]

\* Starting a phase or forgetting whom it waits for is not the end.
LEMMA PhaseGoing ==
  ASSUME NEW s \in Manager, NEW p \in STARTUP..EXIT, Going(s)
  PROVE  Going(StartPhase(s, p)) /\ Going(ClearPhase(s))
BY DEF Going, StartPhase, ClearPhase, Manager

\* Nor is a message.
LEMMA TellGoing ==
  ASSUME NEW s \in Manager, NEW who \in SUBSET Clients, NEW msg \in Messages, Going(s)
  PROVE  Going(Tell(s, who, msg))
BY DEF Going, Tell, Manager

\* The end of the last phase, which may end twice, is the end of the program.
LEMMA EndExitEnds ==
  ASSUME NEW s \in Manager, s.type # "none", s.quits \in Nat, s.saved <=> AutoSave,
         s.phase = EXIT, \A c \in s.clients : s.told[c] = "stop"
  PROVE  LET t == EndExit(s)
         IN  /\ t.phase = EXIT /\ Gone(t) /\ t.told = s.told
             /\ t.clients = s.clients /\ t.next = NoClients
<1> DEFINE t == ClearPhase(s)
           u == [t EXCEPT !.quits = t.quits + 1, !.outcome = "quit"]
<1>1. /\ t \in Manager /\ t.phase = EXIT /\ t.told = s.told /\ t.clients = s.clients
      /\ t.type # "none" /\ t.next = NoClients /\ t.quits \in Nat
  BY ClearPhaseKeeps DEF Manager
<1>2. t.saved <=> AutoSave
  BY DEF ClearPhase, Manager
<1>3. EndExit(s) = u
  <2> HIDE DEF t
  <2> QED BY <1>1 DEF EndExit, Quit, t
<1>4. /\ u.phase = t.phase /\ u.told = t.told /\ u.clients = t.clients /\ u.next = t.next
      /\ u.outcome = "quit" /\ u.quits = t.quits + 1
  <2> HIDE DEF t
  <2> QED BY <1>1 DEF Manager
<1>5. u.saved <=> AutoSave
  <2> HIDE DEF t
  <2> QED BY <1>1, <1>2 DEF Manager
<1> QED
  <2> HIDE DEF t, u
  <2> QED BY <1>1, <1>3, <1>4, <1>5 DEF Gone

\* The last phase tells every client to stop.
LEMMA StartExitEnds ==
  ASSUME NEW s \in Manager, s.type # "none", s.saved <=> AutoSave
  PROVE  LET t == StartExit(s)
         IN  /\ t.phase = EXIT /\ Gone(t) /\ Told(s, t, "stop")
             /\ t.clients = s.clients /\ t.next = NoClients
<1> DEFINE t == StartPhase(s, EXIT)
           u == Tell(t, s.clients, "stop")
<1>1. EXIT \in STARTUP..EXIT /\ "stop" \in Messages /\ s.clients \in SUBSET Clients
  BY DEF STARTUP, EXIT, Messages, Manager
<1>2. /\ t \in Manager /\ t.phase = EXIT /\ t.clients = s.clients /\ t.told = s.told
      /\ t.type # "none"
  BY <1>1, StartPhaseKeeps
<1>3. t.saved <=> AutoSave
  BY DEF StartPhase, ClearPhase, Manager
<1>4. u \in Manager /\ u.phase = EXIT /\ u.clients = s.clients /\ u.type # "none"
  <2> HIDE DEF t
  <2> QED BY <1>1, <1>2, TellKeeps
<1>9. u.quits \in Nat
  BY <1>4 DEF Manager
<1>5. u.saved <=> AutoSave
  <2> HIDE DEF t
  <2> QED BY <1>2, <1>3 DEF Tell, Manager
<1>6. Told(s, u, "stop")
  <2> HIDE DEF t
  <2> QED BY <1>1, <1>2, TellTold DEF Told
<1>7. \A c \in u.clients : u.told[c] = "stop"
  <2> HIDE DEF u
  <2> QED BY <1>1, <1>4, <1>6 DEF Told
<1>8. StartExit(s) = EndExit(u)
  BY DEF StartExit
<1> QED
  <2> HIDE DEF u
  <2> QED BY <1>4, <1>5, <1>6, <1>7, <1>8, <1>9, EndExitEnds DEF Told

\* The session is saved and the clients are told to stop.
LEMMA EndEndSessionEnds ==
  ASSUME NEW s \in Manager, s.type # "none", Going(s)
  PROVE  LET t == EndEndSession(s)
         IN  /\ t.phase = EXIT /\ Gone(t) /\ Told(s, t, "stop")
             /\ t.clients = s.clients /\ t.next = NoClients
<1> DEFINE t == ClearPhase(s)
           v == s.saved \/ AutoSave
           u == [t EXCEPT !.saved = v]
<1>1. t \in Manager /\ t.clients = s.clients /\ t.told = s.told /\ t.type # "none"
  BY ClearPhaseKeeps
<1>2. v \in BOOLEAN /\ (v <=> AutoSave)
  BY DEF Going
<1>3. u \in Manager /\ u.clients = s.clients /\ u.told = s.told /\ u.type # "none" /\ u.saved = v
  <2> HIDE DEF t, v
  <2> QED BY <1>1, <1>2 DEF Manager
<1>4. EndEndSession(s) = StartExit(u)
  BY DEF EndEndSession
<1> QED
  <2> HIDE DEF u, v
  <2> QED BY <1>2, <1>3, <1>4, StartExitEnds DEF Told

\* What follows the query: the clients are told to end, or there are none.
Ended(s, t) ==
  /\ Told(s, t, "end") /\ t.clients = s.clients /\ t.next = NoClients
  /\ s.clients = {} => t.phase = EXIT /\ Gone(t)
  /\ s.clients # {} =>
       /\ t.phase = END_SESSION /\ Going(t) /\ ~ IsEmpty(t.query)
       /\ t.inhibitors = s.inhibitors /\ t.jit = s.jit /\ t.mode = s.mode

\* The phase in which the clients are told to end waits for all of them.
LEMMA StartEndSessionEnds ==
  ASSUME NEW s \in Manager, s.type # "none", Going(s)
  PROVE  Ended(s, StartEndSession(s))
<1> DEFINE t == StartPhase(s, END_SESSION)
           u == Tell(t, s.clients, "end")
           q == [c \in Clients |-> IF c \in s.clients THEN 1 ELSE 0]
           v == [u EXCEPT !.query = q, !.phaseTimer = TRUE]
<1>1. END_SESSION \in STARTUP..EXIT /\ "end" \in Messages /\ s.clients \in SUBSET Clients
  BY DEF STARTUP, EXIT, END_SESSION, Messages, Manager
<1>2. /\ t \in Manager /\ t.phase = END_SESSION /\ t.clients = s.clients /\ t.told = s.told
      /\ t.type # "none" /\ t.next = NoClients
      /\ t.inhibitors = s.inhibitors /\ t.jit = s.jit /\ t.mode = s.mode
  BY <1>1, StartPhaseKeeps
<1>3. Going(t)
  BY <1>1, PhaseGoing
<1>4. CASE s.clients = {}
  <2>1. StartEndSession(s) = EndEndSession(t)
    BY <1>4 DEF StartEndSession
  <2> QED
    <3> HIDE DEF t
    <3> QED BY <1>2, <1>3, <1>4, <2>1, EndEndSessionEnds DEF Ended, Told
<1>5. CASE s.clients # {}
  <2>1. /\ u \in Manager /\ u.phase = END_SESSION /\ u.clients = s.clients
        /\ u.next = NoClients
        /\ u.inhibitors = s.inhibitors /\ u.jit = s.jit /\ u.mode = s.mode
    <3> HIDE DEF t
    <3> QED BY <1>1, <1>2, TellKeeps
  <2>2. Going(u)
    <3> HIDE DEF t
    <3> QED BY <1>1, <1>2, <1>3, TellGoing
  <2>3. Told(s, u, "end")
    <3> HIDE DEF t
    <3> QED BY <1>1, <1>2, TellTold DEF Told
  <2>4. /\ v.phase = u.phase /\ v.clients = u.clients /\ v.next = u.next
        /\ v.inhibitors = u.inhibitors /\ v.jit = u.jit /\ v.mode = u.mode
        /\ v.query = q /\ v.told = u.told
    <3> HIDE DEF u, q
    <3> QED BY <2>1 DEF Manager
  <2>5. Going(v)
    <3> HIDE DEF u, q
    <3> QED BY <2>1, <2>2 DEF Going, Manager
  <2>6. ~ IsEmpty(q)
    BY <1>1, <1>5 DEF IsEmpty
  <2>7. StartEndSession(s) = v
    BY <1>5 DEF StartEndSession
  <2> QED
    <3> HIDE DEF u, v, q
    <3> QED BY <1>5, <2>1, <2>3, <2>4, <2>5, <2>6, <2>7 DEF Ended, Told
<1> QED BY <1>4, <1>5

\* So does the end of the query.
LEMMA EndQueryEnds ==
  ASSUME NEW s \in Manager, s.type # "none", Going(s)
  PROVE  Ended(s, EndQuery(s))
<1> DEFINE t == ClearPhase(s)
<1>1. /\ t \in Manager /\ t.clients = s.clients /\ t.told = s.told /\ t.type # "none"
      /\ t.inhibitors = s.inhibitors /\ t.jit = s.jit /\ t.mode = s.mode
  BY ClearPhaseKeeps
<1>2. Going(t)
  BY PhaseGoing DEF STARTUP, EXIT
<1>3. Ended(t, StartEndSession(t))
  <2> HIDE DEF t
  <2> QED BY <1>1, <1>2, StartEndSessionEnds
<1> QED
  <2> HIDE DEF t
  <2> QED BY <1>1, <1>3 DEF Ended, Told, EndQuery, t

\* The query is put to every client.
LEMMA StartQueryAsks ==
  ASSUME NEW s \in Manager, Going(s)
  PROVE  LET t == StartQuery(s)
         IN  /\ t.phase = QUERY_END_SESSION /\ Going(t) /\ Told(s, t, "query")
             /\ t.clients = s.clients /\ t.next = NoClients /\ ~ t.phaseTimer
<1> DEFINE t == StartPhase(s, QUERY_END_SESSION)
           u == Tell(t, s.clients, "query")
           q == [c \in Clients |-> IF c \in s.clients THEN 1 ELSE 0]
           v == [u EXCEPT !.query = q, !.queryTimer = TRUE]
<1>1. /\ QUERY_END_SESSION \in STARTUP..EXIT /\ "query" \in Messages
      /\ s.clients \in SUBSET Clients
  BY DEF STARTUP, EXIT, QUERY_END_SESSION, Messages, Manager
<1>2. /\ t \in Manager /\ t.phase = QUERY_END_SESSION /\ t.clients = s.clients
      /\ t.told = s.told /\ t.next = NoClients /\ ~ t.phaseTimer
  BY <1>1, StartPhaseKeeps
<1>3. Going(t)
  BY <1>1, PhaseGoing
<1>4. /\ u \in Manager /\ u.phase = QUERY_END_SESSION /\ u.clients = s.clients
      /\ u.next = NoClients /\ ~ u.phaseTimer
  <2> HIDE DEF t
  <2> QED BY <1>1, <1>2, TellKeeps
<1>5. Going(u)
  <2> HIDE DEF t
  <2> QED BY <1>1, <1>2, <1>3, TellGoing
<1>6. Told(s, u, "query")
  <2> HIDE DEF t
  <2> QED BY <1>1, <1>2, TellTold DEF Told
<1>7. /\ v.phase = u.phase /\ v.clients = u.clients /\ v.next = u.next /\ v.told = u.told
      /\ ~ v.phaseTimer
  <2> HIDE DEF u, q
  <2> QED BY <1>4 DEF Manager
<1>8. Going(v)
  <2> HIDE DEF u, q
  <2> QED BY <1>4, <1>5 DEF Going, Manager
<1>9. StartQuery(s) = v
  BY DEF StartQuery
<1> QED
  <2> HIDE DEF u, v
  <2> QED BY <1>4, <1>6, <1>7, <1>8, <1>9 DEF Told

\* Nothing of this changes; a timer may be stopped.
Alike(s, t) ==
  /\ t.phase = s.phase /\ t.clients = s.clients /\ t.told = s.told /\ t.next = s.next
  /\ t.outcome = s.outcome /\ t.quits = s.quits /\ (t.saved <=> s.saved)
  /\ t.phaseTimer => s.phaseTimer

\* What is known stays known, ...
LEMMA AlikeKnown ==
  ASSUME NEW s, NEW t, Known(s), Alike(s, t)
  PROVE  Known(t) /\ Stays(s, t)
<1>1. Stays(s, t)
  BY DEF Alike, Stays, Fewer, Unheard
<1>2. Going(s) => Going(t)
  BY DEF Alike, Going
<1>3. Gone(s) => Gone(t)
  BY DEF Alike, Gone
<1> QED
  BY <1>1, <1>2, <1>3 DEF Known, Alike

\* ... and what comes after a change that nobody hears of is a step of the whole.
LEMMA StaysFirst ==
  ASSUME NEW s, NEW t, NEW u, Stays(s, t), t.clients = s.clients
  PROVE  /\ Ends(t, u) => Ends(s, u)
         /\ Breaks(t, u) => Breaks(s, u)
         /\ Resumes(t, u) => Resumes(s, u)
         /\ Asks(t, u) => Asks(s, u)
         /\ GoesOn(t, u) => GoesOn(s, u)
BY DEF Ends, Stays, GoesOn, GoesAlone, Finishes, Breaks, Resumes, Asks, Heard, Unheard, Fewer

\* In particular after one like that
LEMMA AlikeFirst ==
  ASSUME NEW s, NEW t, NEW u, Alike(s, t)
  PROVE  /\ Ends(t, u) => Ends(s, u)
         /\ Breaks(t, u) => Breaks(s, u)
         /\ Resumes(t, u) => Resumes(s, u)
         /\ Asks(t, u) => Asks(s, u)
         /\ GoesOn(t, u) => GoesOn(s, u)
<1>1. Stays(s, t) /\ t.clients = s.clients
  BY DEF Alike, Stays, Fewer, Unheard
<1> QED BY <1>1, StaysFirst

\* The end of a phase from the query on; nobody hears of it when there is nobody.
LEMMA EndPhaseEnds ==
  ASSUME NEW s \in Manager, Known(s), s.type # "none", s.phase >= QUERY_END_SESSION
  PROVE  LET t == EndPhase(s)
         IN  /\ Known(t) /\ t.clients = s.clients
             /\ s.clients = {} => t.phase = EXIT /\ Unheard(s, t)
             /\ \/ Stays(s, t)
                \/ /\ GoesOn(s, t) /\ ~ IsEmpty(t.query)
                   /\ t.inhibitors = s.inhibitors /\ t.jit = s.jit /\ t.mode = s.mode
                \/ GoesAlone(s, t)
                \/ Finishes(s, t)
<1> DEFINE t == EndPhase(s)
<1>1. s.phase \in {QUERY_END_SESSION, END_SESSION, EXIT}
  BY DEF Manager, STARTUP, QUERY_END_SESSION, END_SESSION, EXIT
<1>2. DBusClients \subseteq Clients /\ s.clients \subseteq Clients
  BY DEF Clients, Manager
<1>3. \A c \in DBusClients : NoClients[c] = 0
  BY <1>2 DEF NoClients
<1>4. CASE s.phase = QUERY_END_SESSION
  <2>1. Ended(s, t)
    <3>1. Going(s)
      BY <1>4 DEF Known, QUERY_END_SESSION, EXIT
    <3>2. t = EndQuery(s)
      BY <1>4 DEF EndPhase, RUNNING, QUERY_END_SESSION, END_SESSION
    <3> QED BY <3>1, <3>2, EndQueryEnds
  <2>2. CASE s.clients = {}
    <3>1. Known(t)
      BY <1>3, <2>1, <2>2 DEF Ended, Known, EXIT, QUERY_END_SESSION, END_SESSION
    <3>2. GoesAlone(s, t) /\ t.phase = EXIT /\ Unheard(s, t) /\ t.clients = s.clients
      BY <1>2, <1>4, <2>1, <2>2 DEF Ended, Told, GoesAlone, Unheard
    <3> QED BY <3>1, <3>2
  <2>3. CASE s.clients # {}
    <3>1. Known(t)
      BY <1>2, <1>3, <2>1, <2>3
         DEF Ended, Told, Known, EXIT, QUERY_END_SESSION, END_SESSION
    <3>2. GoesOn(s, t)
      BY <1>2, <1>4, <2>1, <2>3 DEF Ended, Told, GoesOn, Heard, Fewer
    <3> QED BY <2>1, <2>3, <3>1, <3>2 DEF Ended
  <2> QED BY <2>2, <2>3
<1>5. CASE s.phase = END_SESSION
  <2>1. Going(s)
    BY <1>5 DEF Known, END_SESSION, EXIT
  <2>2. t = EndEndSession(s)
    BY <1>5 DEF EndPhase, RUNNING, QUERY_END_SESSION, END_SESSION
  <2>3. /\ t.phase = EXIT /\ Gone(t) /\ Told(s, t, "stop")
        /\ t.clients = s.clients /\ t.next = NoClients
    BY <2>1, <2>2, EndEndSessionEnds
  <2>4. Known(t)
    BY <1>3, <2>3 DEF Known, EXIT, QUERY_END_SESSION, END_SESSION
  <2>5. Finishes(s, t)
    BY <1>2, <1>5, <2>3 DEF Told, Finishes, Heard, Fewer
  <2>6. s.clients = {} => Unheard(s, t)
    BY <1>2, <2>3 DEF Told, Unheard
  <2> QED BY <2>3, <2>4, <2>5, <2>6
<1>6. CASE s.phase = EXIT
  <2>1. t = EndExit(s)
    BY <1>6 DEF EndPhase, RUNNING, QUERY_END_SESSION, END_SESSION, EXIT
  <2>2. s.quits \in Nat /\ (s.saved <=> AutoSave) /\ \A c \in s.clients : s.told[c] = "stop"
    BY <1>6 DEF Known, Gone
  <2>3. /\ t.phase = EXIT /\ Gone(t) /\ t.told = s.told
        /\ t.clients = s.clients /\ t.next = NoClients
    BY <1>6, <2>1, <2>2, EndExitEnds
  <2>4. Known(t)
    BY <1>3, <2>3 DEF Known, EXIT, QUERY_END_SESSION, END_SESSION
  <2>5. Stays(s, t) /\ Unheard(s, t)
    BY <1>6, <2>3 DEF Stays, Fewer, Unheard
  <2> QED BY <2>3, <2>4, <2>5
<1> QED
  <2> HIDE DEF t
  <2> QED BY <1>1, <1>4, <1>5, <1>6 DEF t

-----------------------------------------------------------------------------
(* The startup *)

\* Before the query little has to be known.
LEMMA EarlyKnown ==
  ASSUME NEW s, Going(s), s.phase \in STARTUP..RUNNING, s.next = NoClients
  PROVE  Known(s)
<1>1. \A c \in DBusClients : NoClients[c] = 0
  BY DEF NoClients, Clients
<1> QED
  BY <1>1 DEF Known, STARTUP, RUNNING, QUERY_END_SESSION, END_SESSION, EXIT

\* A startup goes on to a later phase, or to a running session.
LEMMA StartStartupJoins ==
  ASSUME NEW s \in Manager, Going(s), NEW p \in Nat \ {0}, s.phase <= p,
         s.phase <= RUNNING,
         NEW starts \in SUBSET Apps
  PROVE  LET t == StartStartup(s, p, starts) IN Known(t) /\ Joins(s, t)
<1> DEFINE waits == {q \in p..(APPLICATION - 1) : \E a \in starts : AppPhase[a] = q}
           first == CHOOSE q \in waits : \A r \in waits : q <= r
           awaited == {a \in starts : AppPhase[a] = first}
           t == StartPhase(s, first)
           u == [t EXCEPT !.pending = awaited, !.phaseTimer = TRUE]
<1>1. s.phase \in STARTUP..EXIT
  BY DEF Manager
<1>2. ASSUME NEW q \in STARTUP..RUNNING, s.phase <= q
      PROVE  /\ StartPhase(s, q) \in Manager /\ StartPhase(s, q).phase = q
             /\ StartPhase(s, q).next = NoClients /\ Going(StartPhase(s, q))
             /\ StartPhase(s, q).clients = s.clients /\ StartPhase(s, q).told = s.told
  <2>1. q \in STARTUP..EXIT
    BY <1>2 DEF STARTUP, RUNNING, EXIT
  <2> QED BY <2>1, StartPhaseKeeps, PhaseGoing
<1>3. CASE waits = {}
  <2>1. RUNNING \in STARTUP..RUNNING
    BY DEF STARTUP, RUNNING
  <2>2. StartStartup(s, p, starts) = StartPhase(s, RUNNING)
    BY <1>3 DEF StartStartup, StartRunning
  <2>3. /\ StartPhase(s, RUNNING).phase = RUNNING
        /\ StartPhase(s, RUNNING).next = NoClients /\ Going(StartPhase(s, RUNNING))
        /\ StartPhase(s, RUNNING).clients = s.clients
        /\ StartPhase(s, RUNNING).told = s.told
    BY <1>2, <2>1
  <2>4. Known(StartPhase(s, RUNNING))
    BY <2>1, <2>3, EarlyKnown
  <2>5. Joins(s, StartPhase(s, RUNNING))
    BY <1>1, <2>3 DEF Joins, Unheard, RUNNING
  <2> QED BY <2>2, <2>4, <2>5
<1>4. CASE waits # {}
  <2>1. waits \in SUBSET (p..4) /\ waits \in SUBSET (1..4)
    BY DEF APPLICATION
  <2>2. first \in waits
    BY <1>4, <2>1, FirstPhase
  <2>3. first \in STARTUP..RUNNING /\ s.phase <= first
    <3> HIDE DEF waits, first
    <3> QED BY <1>1, <2>1, <2>2 DEF STARTUP, EXIT, RUNNING
  <2>4. /\ t \in Manager /\ t.phase = first /\ t.next = NoClients /\ Going(t)
        /\ t.clients = s.clients /\ t.told = s.told
    <3> HIDE DEF first
    <3> QED BY <1>2, <2>3
  <2>5. /\ u.phase = first /\ u.next = NoClients /\ u.clients = s.clients
        /\ u.told = s.told
    <3> HIDE DEF t, awaited
    <3> QED BY <2>4 DEF Manager
  <2>6. Going(u)
    <3> HIDE DEF t, awaited
    <3> QED BY <2>4 DEF Going, Manager
  <2>7. Known(u)
    <3> HIDE DEF u, first
    <3> QED BY <2>3, <2>5, <2>6, EarlyKnown
  <2>8. Joins(s, u)
    <3> HIDE DEF u, first
    <3> QED BY <2>3, <2>5 DEF Joins, Unheard, STARTUP, RUNNING
  <2>9. StartStartup(s, p, starts) = u
    BY <1>4 DEF StartStartup
  <2> QED BY <2>7, <2>8, <2>9
<1> QED BY <1>3, <1>4

\* So it does when one of its phases ends, ...
LEMMA EndStartupJoins ==
  ASSUME NEW s \in Manager, Going(s), s.phase < RUNNING, NEW starts \in SUBSET Apps
  PROVE  LET t == EndStartup(s, starts) IN Known(t) /\ Joins(s, t)
<1> DEFINE t == ClearPhase(s)
<1>1. t \in Manager /\ t.phase = s.phase /\ t.clients = s.clients /\ t.told = s.told
  BY ClearPhaseKeeps
<1>2. Going(t)
  BY PhaseGoing DEF STARTUP, EXIT
<1>3. s.phase + 1 \in Nat \ {0} /\ t.phase <= s.phase + 1 /\ t.phase <= RUNNING
  BY <1>1 DEF Manager, STARTUP, EXIT, RUNNING
<1>4. Known(StartStartup(t, s.phase + 1, starts)) /\ Joins(t, StartStartup(t, s.phase + 1, starts))
  <2> HIDE DEF t
  <2> QED BY <1>1, <1>2, <1>3, StartStartupJoins
<1>5. EndStartup(s, starts) = StartStartup(t, s.phase + 1, starts)
  BY DEF EndStartup
<1> QED
  <2> HIDE DEF t
  <2> QED BY <1>1, <1>4, <1>5 DEF Joins, Unheard

\* ... and when the application it waits for registers.
LEMMA AppRegisteredJoins ==
  ASSUME NEW s \in Manager, Known(s), s.phase <= RUNNING,
         s.phase = RUNNING => s.pending = {},
         NEW a \in Apps, NEW starts \in SUBSET Apps
  PROVE  LET t == AppRegistered(s, a, starts) IN Known(t) /\ Joins(s, t)
<1> DEFINE t == [s EXCEPT !.pending = s.pending \ {a}]
           u == [t EXCEPT !.phaseTimer = FALSE]
<1>1. s.phase \in Nat
  BY DEF Manager, STARTUP, EXIT
<1>2. CASE a \notin s.pending
  <2>1. AppRegistered(s, a, starts) = s
    BY <1>2 DEF AppRegistered
  <2> QED BY <1>1, <2>1 DEF Joins, Unheard
<1>3. CASE a \in s.pending
  <2>1. s.phase < RUNNING
    BY <1>1, <1>3 DEF RUNNING
  <2>2. Going(s)
    BY <2>1 DEF Known, RUNNING, EXIT
  <2>3. t \in Manager /\ Alike(s, t)
    BY DEF Alike, Manager
  <2>4. Known(t) /\ Joins(s, t)
    <3> HIDE DEF t
    <3> QED BY <1>1, <2>3, AlikeKnown DEF Alike, Joins, Unheard
  <2>5. u \in Manager /\ Alike(t, u)
    <3> HIDE DEF t
    <3> QED BY <2>3 DEF Alike, Manager
  <2>6. Going(u) /\ u.phase < RUNNING
    <3> HIDE DEF t, u
    <3> QED BY <2>1, <2>2, <2>3, <2>5 DEF Alike, Going
  <2>7. Known(EndStartup(u, starts)) /\ Joins(u, EndStartup(u, starts))
    <3> HIDE DEF t, u
    <3> QED BY <2>5, <2>6, EndStartupJoins
  <2>8. Joins(s, EndStartup(u, starts))
    <3> HIDE DEF t, u
    <3> QED BY <2>3, <2>5, <2>7 DEF Alike, Joins, Unheard
  <2>9. AppRegistered(s, a, starts) \in {t, EndStartup(u, starts)}
    BY <1>3 DEF AppRegistered
  <2> QED
    <3> HIDE DEF t, u
    <3> QED BY <2>4, <2>7, <2>8, <2>9
<1> QED BY <1>2, <1>3

-----------------------------------------------------------------------------
(* The inhibit dialog, and what the clients answer *)

\* The dialog accepted, while the session ends: whatever goes on is forced.
LEMMA AcceptInhibitDialogEnds ==
  ASSUME NEW s \in Manager, Phased(s), Known(s)
  PROVE  LET t == AcceptInhibitDialog(s)
         IN  /\ Known(t) /\ t.clients = s.clients /\ Ends(s, t)
             /\ GoesOn(s, t) => ~ IsEmpty(t.query)
<1> DEFINE t == [s EXCEPT !.inhibitDialog = "none"]
           u == [t EXCEPT !.mode = "force"]
<1>1. t \in Manager /\ u \in Manager /\ Alike(s, t) /\ Alike(s, u) /\ u.mode = "force"
  BY DEF Manager, InhibitDialogs, LogoutModes, Alike
<1>2. CASE s.inhibitDialog = "logout"
  <2>1. s.phase \in Nat /\ s.phase >= QUERY_END_SESSION /\ s.type # "none"
    BY <1>2 DEF Phased, Quiet, Waits, Manager, STARTUP, EXIT, RUNNING, QUERY_END_SESSION
  <2>2. u.type = s.type
    BY DEF Manager
  <2>3. AcceptInhibitDialog(s) = EndPhase(u)
    BY <1>2 DEF AcceptInhibitDialog
  <2>4. u.phase >= QUERY_END_SESSION /\ u.type # "none" /\ Known(u)
    <3> HIDE DEF u
    <3> QED BY <1>1, <2>1, <2>2, AlikeKnown DEF Alike
  <2>5. LET v == EndPhase(u)
        IN  /\ Known(v) /\ v.clients = u.clients
            /\ \/ Stays(u, v)
               \/ GoesOn(u, v) /\ ~ IsEmpty(v.query) /\ v.mode = "force"
               \/ GoesAlone(u, v)
               \/ Finishes(u, v)
    <3> HIDE DEF u
    <3> QED BY <1>1, <2>4, EndPhaseEnds
  <2>6. Ends(u, EndPhase(u)) /\ (GoesOn(u, EndPhase(u)) => ~ IsEmpty(EndPhase(u).query))
    <3> HIDE DEF u
    <3> QED BY <2>5 DEF Ends, Forced, GoesOn, GoesAlone, Finishes, Stays,
                        QUERY_END_SESSION, END_SESSION, EXIT
  <2>7. GoesOn(s, EndPhase(u)) => GoesOn(u, EndPhase(u))
    <3> HIDE DEF u
    <3> QED BY <1>1 DEF Alike, GoesOn, Heard, Fewer
  <2> QED
    <3> HIDE DEF u
    <3> QED BY <1>1, <2>3, <2>5, <2>6, <2>7, AlikeFirst DEF Alike
<1>3. CASE s.inhibitDialog # "logout"
  <2>1. AcceptInhibitDialog(s) = t
    BY <1>3 DEF AcceptInhibitDialog
  <2> QED
    <3> HIDE DEF t
    <3> QED BY <1>1, <2>1, AlikeKnown
            DEF Alike, Ends, GoesOn, QUERY_END_SESSION, END_SESSION
<1> QED BY <1>2, <1>3

\* Inhibitors go, and with the last one the dialog.
LEMMA RemoveInhibitorsEnds ==
  ASSUME NEW s \in Manager, Consistent(s), Known(s),
         NEW taken \in SUBSET s.inhibitors, NEW jit \in SUBSET s.jit
  PROVE  LET t == RemoveInhibitors(s, taken, jit)
         IN  /\ Known(t) /\ t.clients = s.clients /\ Ends(s, t)
             /\ GoesOn(s, t) => ~ IsEmpty(t.query)
<1> DEFINE t == [s EXCEPT !.inhibitors = s.inhibitors \ taken, !.jit = s.jit \ jit]
<1>1. t \in Manager /\ Alike(s, t)
  BY DEF Manager, Alike
<1>2. Known(t) /\ Stays(s, t) /\ Ends(s, t) /\ ~ GoesOn(s, t)
  <2> HIDE DEF t
  <2> QED BY <1>1, AlikeKnown DEF Ends, Alike, GoesOn, QUERY_END_SESSION, END_SESSION
<1>3. Phased(t)
  <2>1. /\ t.inhibitors = s.inhibitors \ taken /\ t.jit = s.jit \ jit
        /\ t.phase = s.phase /\ t.type = s.type /\ t.mode = s.mode
        /\ t.clients = s.clients /\ t.query = s.query /\ t.next = s.next
        /\ t.pending = s.pending /\ t.phaseTimer = s.phaseTimer
        /\ t.queryTimer = s.queryTimer /\ t.told = s.told /\ t.outcome = s.outcome
        /\ t.inhibitDialog = s.inhibitDialog /\ t.logoutDialog = s.logoutDialog
    BY DEF Manager
  <2> HIDE DEF t
  <2> QED BY <2>1 DEF Consistent, Phased, Quiet, Waits
<1>4. LET u == AcceptInhibitDialog(t)
      IN  /\ Known(u) /\ u.clients = t.clients /\ Ends(t, u)
          /\ GoesOn(t, u) => ~ IsEmpty(u.query)
  <2> HIDE DEF t
  <2> QED BY <1>1, <1>2, <1>3, AcceptInhibitDialogEnds
<1>5. GoesOn(s, AcceptInhibitDialog(t)) => GoesOn(t, AcceptInhibitDialog(t))
  <2> HIDE DEF t
  <2> QED BY <1>1 DEF Alike, GoesOn, Heard, Fewer
<1>6. RemoveInhibitors(s, taken, jit) \in {t, AcceptInhibitDialog(t)}
  BY DEF RemoveInhibitors
<1> QED
  <2> HIDE DEF t
  <2> QED BY <1>1, <1>2, <1>4, <1>5, <1>6, AlikeFirst DEF Alike

\* The query completes into the next phase, or into a dialog if the logout is
\* inhibited.
LEMMA QueryCompleteEnds ==
  ASSUME NEW s \in Manager, s.type # "none", Known(s), s.phase = QUERY_END_SESSION
  PROVE  LET t == QueryComplete(s) IN Known(t) /\ t.clients = s.clients /\ Ends(s, t)
<1> DEFINE t == [s EXCEPT !.queryTimer = FALSE]
           d == [t EXCEPT !.inhibitDialog = "logout"]
<1>1. t \in Manager /\ Alike(s, t) /\ Alike(s, d)
  BY DEF Manager, Alike
<1>2. t.type # "none" /\ t.phase = QUERY_END_SESSION /\ Known(t)
  <2>1. t.type = s.type
    BY DEF Manager
  <2> HIDE DEF t
  <2> QED BY <1>1, <2>1, AlikeKnown DEF Alike
<1>3. CASE ~ LogoutInhibited(s)
  <2>1. t.inhibitors = s.inhibitors /\ t.jit = s.jit
    BY DEF Manager
  <2>2. QueryComplete(s) = EndQuery(t) /\ EndPhase(t) = EndQuery(t)
    <3>1. QueryComplete(s) = EndQuery(t)
      BY <1>3 DEF QueryComplete
    <3>2. EndPhase(t) = EndQuery(t)
      <4> HIDE DEF t
      <4> QED BY <1>2 DEF EndPhase, RUNNING, QUERY_END_SESSION, END_SESSION
    <3> QED BY <3>1, <3>2
  <2>3. LET u == EndPhase(t)
        IN  /\ Known(u) /\ u.clients = t.clients
            /\ \/ Stays(t, u)
               \/ GoesOn(t, u) /\ u.inhibitors = t.inhibitors /\ u.jit = t.jit
               \/ GoesAlone(t, u)
               \/ Finishes(t, u)
    <3> HIDE DEF t
    <3> QED BY <1>1, <1>2, EndPhaseEnds DEF QUERY_END_SESSION
  <2>4. Ends(t, EndPhase(t))
    <3> HIDE DEF t
    <3> QED BY <1>3, <2>1, <2>3 DEF Ends, Forced, LogoutInhibited
  <2> QED
    <3> HIDE DEF t
    <3> QED BY <1>1, <2>2, <2>3, <2>4, AlikeFirst DEF Alike
<1>4. CASE LogoutInhibited(s)
  <2>1. QueryComplete(s) \in {t, d}
    BY <1>4 DEF QueryComplete
  <2> QED
    <3> HIDE DEF t, d
    <3> QED BY <1>1, <2>1, AlikeKnown DEF Alike, Ends
<1> QED BY <1>3, <1>4

\* Only clients that asked for it are told to be last.
LEMMA EndSessionPart2Ends ==
  ASSUME NEW s \in Manager, Known(s), s.phase = END_SESSION
  PROVE  LET t == EndSessionPart2(s)
         IN  t.clients = s.clients /\ ((Known(t) /\ Stays(s, t)) \/ Breaks(s, t))
<1> DEFINE last == {c \in Clients : s.next[c] > 0}
           t == Tell(s, last, "last")
           u == [t EXCEPT !.query = s.next, !.next = NoClients]
           d == [s EXCEPT !.outcome = "dangling"]
<1>1. Going(s)
  BY DEF Known, END_SESSION, EXIT
<1>2. last \in SUBSET Clients /\ "last" \in Messages /\ DBusClients \subseteq Clients
  BY DEF Messages, Clients
<1>3. last \cap DBusClients = {}
  BY DEF Known
<1>4. CASE last \subseteq s.clients
  <2>1. t \in Manager /\ t.phase = s.phase /\ t.clients = s.clients
    <3> HIDE DEF last
    <3> QED BY <1>2, TellKeeps
  <2>2. Going(t)
    <3> HIDE DEF last
    <3> QED BY <1>1, <1>2, TellGoing
  <2>3. \A c \in DBusClients : t.told[c] = s.told[c]
    <3> HIDE DEF last
    <3> QED BY <1>2, <1>3, TellTold
  <2>4. /\ u.phase = s.phase /\ u.clients = s.clients /\ u.told = t.told
        /\ u.next = NoClients
    <3> HIDE DEF t
    <3> QED BY <2>1 DEF Manager
  <2>5. Going(u)
    <3> HIDE DEF t
    <3> QED BY <2>1, <2>2 DEF Going, Manager
  <2>6. \A c \in DBusClients : u.next[c] = 0
    <3> HIDE DEF u
    <3> QED BY <1>2, <2>4 DEF NoClients
  <2>7. Known(u) /\ Stays(s, u)
    <3> HIDE DEF u, t
    <3> QED BY <2>3, <2>4, <2>5, <2>6
            DEF Known, Stays, Fewer, Unheard, QUERY_END_SESSION, END_SESSION, EXIT
  <2>8. EndSessionPart2(s) = u
    BY <1>4 DEF EndSessionPart2
  <2> QED
    <3> HIDE DEF u
    <3> QED BY <2>4, <2>7, <2>8
<1>5. CASE ~ (last \subseteq s.clients)
  <2>1. EndSessionPart2(s) = d
    BY <1>5 DEF EndSessionPart2
  <2>2. /\ d.phase = s.phase /\ d.clients = s.clients /\ d.told = s.told
        /\ d.outcome = "dangling" /\ d.quits = 0
    BY <1>1 DEF Manager, Going
  <2>3. ~ d.saved
    BY <1>1 DEF Manager, Going
  <2>4. Breaks(s, d)
    <3> HIDE DEF d
    <3> QED BY <2>2, <2>3 DEF Breaks, Broken, Unheard, END_SESSION, STARTUP
  <2> QED BY <2>1, <2>2, <2>4
<1> QED BY <1>4, <1>5

\* What follows an answer; as long as others have to answer, nothing does.
LEMMA AfterResponseEnds ==
  ASSUME NEW s \in Manager, Consistent(s), Known(s), NEW c \in Clients,
         NEW doLast \in BOOLEAN, doLast => c \notin DBusClients
  PROVE  LET t == AfterResponse(s, c, doLast)
         IN  /\ t.clients = s.clients
             /\ \/ Known(t) /\ Ends(s, t)
                \/ Breaks(s, t) /\ s.phase = END_SESSION
             /\ s.phase = END_SESSION /\ ~ IsEmpty(s.query) =>
                  /\ Known(t) /\ Stays(s, t)
                  /\ t.inhibitors = s.inhibitors /\ t.jit = s.jit /\ t.mode = s.mode
<1>1. CASE s.phase = QUERY_END_SESSION
  <2>1. AfterResponse(s, c, doLast) \in {QueryComplete(s), s}
    BY <1>1 DEF AfterResponse, QUERY_END_SESSION, END_SESSION
  <2>2. Ends(s, s)
    BY DEF Ends, Stays, Fewer, Unheard
  <2>3. s.phase # END_SESSION /\ s.type # "none"
    BY <1>1 DEF QUERY_END_SESSION, END_SESSION, Consistent, Phased
  <2> QED BY <1>1, <2>1, <2>2, <2>3, QueryCompleteEnds
<1>2. CASE s.phase = END_SESSION
  <2> DEFINE added == [s.next EXCEPT ![c] = s.next[c] + 1]
             t == IF doLast THEN [s EXCEPT !.next = added] ELSE s
  <2>1. s.next \in ClientBag /\ s.next[c] \in Nat
    BY DEF Manager, ClientBag
  <2>2. added \in ClientBag /\ \A d \in Clients : d # c => added[d] = s.next[d]
    BY <2>1, BagUpdate DEF ClientBag
  <2>3. /\ t \in Manager /\ t.phase = s.phase /\ t.type = s.type /\ t.jit = s.jit
        /\ t.clients = s.clients /\ t.told = s.told /\ t.outcome = s.outcome
        /\ t.quits = s.quits /\ t.query = s.query
        /\ t.inhibitors = s.inhibitors /\ t.mode = s.mode
        /\ t.next = IF doLast THEN added ELSE s.next
    <3> HIDE DEF added
    <3> QED BY <1>2, <2>2 DEF Manager
  <2>4. t.saved <=> s.saved
    <3> HIDE DEF added
    <3> QED BY DEF Manager
  <2>5. \A d \in DBusClients : t.next[d] = 0
    <3>1. \A d \in DBusClients : s.next[d] = 0 /\ d \in Clients
      BY DEF Known, Clients
    <3> HIDE DEF added, t
    <3> QED BY <2>2, <2>3, <3>1
  <2>6. Known(t) /\ Stays(s, t)
    <3>1. Going(t)
      <4> HIDE DEF t
      <4> QED BY <1>2, <2>3, <2>4 DEF Known, Going, END_SESSION, EXIT
    <3> HIDE DEF t, added
    <3> QED BY <1>2, <2>3, <2>5, <3>1
            DEF Known, Stays, Fewer, Unheard, QUERY_END_SESSION, END_SESSION, EXIT
  <2>7. t.type # "none" /\ t.phase = END_SESSION
    <3> HIDE DEF t
    <3> QED BY <1>2, <2>3 DEF Consistent, Phased, END_SESSION, QUERY_END_SESSION
  <2>8. LET u == EndEndSession(t) IN Known(u) /\ u.clients = t.clients /\ Ends(t, u)
    <3>1. EndPhase(t) = EndEndSession(t)
      <4> HIDE DEF t
      <4> QED BY <2>7 DEF EndPhase, RUNNING, QUERY_END_SESSION, END_SESSION
    <3> HIDE DEF t
    <3> QED BY <2>3, <2>6, <2>7, <3>1, EndPhaseEnds
            DEF Ends, GoesOn, QUERY_END_SESSION, END_SESSION
  <2>9. LET u == EndSessionPart2(t)
        IN  u.clients = t.clients /\ ((Known(u) /\ Stays(t, u)) \/ Breaks(t, u))
    <3> HIDE DEF t
    <3> QED BY <2>3, <2>6, <2>7, EndSessionPart2Ends
  <2>10. /\ AfterResponse(s, c, doLast) \in {t, EndSessionPart2(t), EndEndSession(t)}
         /\ ~ IsEmpty(t.query) => AfterResponse(s, c, doLast) = t
    BY <1>2 DEF AfterResponse, QUERY_END_SESSION, END_SESSION
  <2> QED
    <3> HIDE DEF t
    <3> QED BY <1>2, <2>3, <2>6, <2>8, <2>9, <2>10, StaysFirst DEF Ends
<1>3. CASE s.phase \notin {QUERY_END_SESSION, END_SESSION}
  <2>1. AfterResponse(s, c, doLast) = s
    BY <1>3 DEF AfterResponse
  <2> QED BY <1>3, <2>1 DEF Ends, Stays, Fewer, Unheard
<1> QED BY <1>1, <1>2, <1>3

\* A cancelled end of the session is a running session again, and every client
\* hears of it.
LEMMA CancelEndSessionResumes ==
  ASSUME NEW s \in Manager, Going(s), s.phase \in {QUERY_END_SESSION, END_SESSION}
  PROVE  LET t == CancelEndSession(s) IN Known(t) /\ t.clients = s.clients /\ Resumes(s, t)
<1> DEFINE t == [s EXCEPT !.inhibitDialog = "none", !.jit = {},
                          !.mode = "normal", !.type = "none"]
           u == Tell(t, s.clients, "cancel")
           v == StartPhase(u, RUNNING)
<1>1. /\ t \in Manager /\ t.clients = s.clients /\ t.told = s.told
      /\ t.outcome = s.outcome /\ t.quits = s.quits
  BY DEF Manager, InhibitDialogs, LogoutModes, LogoutTypes
<1>2. Going(t)
  BY DEF Going, Manager
<1>3. /\ s.clients \in SUBSET Clients /\ "cancel" \in Messages /\ RUNNING \in STARTUP..EXIT
      /\ DBusClients \subseteq Clients
  BY DEF Manager, Messages, RUNNING, STARTUP, EXIT, Clients
<1>4. u \in Manager /\ u.clients = s.clients
  <2> HIDE DEF t
  <2> QED BY <1>1, <1>3, TellKeeps
<1>5. Going(u)
  <2> HIDE DEF t
  <2> QED BY <1>1, <1>2, <1>3, TellGoing
<1>6. Told(s, u, "cancel")
  <2> HIDE DEF t
  <2> QED BY <1>1, <1>3, TellTold DEF Told
<1>7. /\ v.phase = RUNNING /\ v.clients = s.clients /\ v.told = u.told
      /\ v.next = NoClients /\ Going(v)
  <2> HIDE DEF u
  <2> QED BY <1>3, <1>4, <1>5, StartPhaseKeeps, PhaseGoing
<1>8. Known(v)
  <2>1. RUNNING \in STARTUP..RUNNING
    BY DEF STARTUP, RUNNING
  <2> HIDE DEF v
  <2> QED BY <1>7, <2>1, EarlyKnown
<1>9. Resumes(s, v)
  <2> HIDE DEF u, v
  <2> QED BY <1>3, <1>6, <1>7 DEF Resumes, Told, Heard
<1>10. CancelEndSession(s) = v
  BY DEF CancelEndSession, StartRunning, QUERY_END_SESSION, END_SESSION
<1> QED
  <2> HIDE DEF v
  <2> QED BY <1>7, <1>8, <1>9, <1>10

\* An answer ends no more than one phase; only the last ones to end can break
\* the program.
LEMMA HandleEndSessionResponseEnds ==
  ASSUME NEW s \in Manager, Consistent(s), Known(s), NEW c \in Clients, NEW isOk \in BOOLEAN,
         NEW doLast \in BOOLEAN, NEW cancel \in BOOLEAN, ~ isOk => c \in s.clients,
         doLast => c \notin DBusClients, cancel => s.phase # EXIT
  PROVE  LET t == HandleEndSessionResponse(s, c, isOk, doLast, cancel)
         IN  /\ t.clients = s.clients
             /\ \/ Known(t) /\ Ends(s, t)
                \/ Known(t) /\ Resumes(s, t) /\ cancel
                \/ Breaks(s, t) /\ s.phase = END_SESSION
<1> DEFINE answered == [s EXCEPT !.query[c] = IF @ > 0 THEN @ - 1 ELSE 0]
           refused == [answered EXCEPT !.jit = answered.jit \cup {c}]
           removed == RemoveInhibitors(answered, {}, s.jit \cap {c})
           t == HandleEndSessionResponse(s, c, isOk, doLast, cancel)
<1>1. CASE s.phase < QUERY_END_SESSION
  <2>1. t = s
    BY <1>1 DEF HandleEndSessionResponse, Manager, STARTUP, EXIT, QUERY_END_SESSION
  <2>2. Ends(s, s)
    BY DEF Ends, Stays, Fewer, Unheard
  <2> QED
    <3> HIDE DEF t
    <3> QED BY <2>1, <2>2 DEF t
<1>2. CASE s.phase >= QUERY_END_SESSION /\ cancel
  <2>1. t = CancelEndSession(s)
    BY <1>2 DEF HandleEndSessionResponse, Manager, STARTUP, EXIT, QUERY_END_SESSION
  <2>2. s.phase \in {QUERY_END_SESSION, END_SESSION}
    BY <1>2 DEF Manager, STARTUP, QUERY_END_SESSION, END_SESSION, EXIT
  <2>3. Going(s)
    BY <2>2 DEF Known, QUERY_END_SESSION, END_SESSION, EXIT
  <2>4. Known(t) /\ t.clients = s.clients /\ Resumes(s, t)
    BY <2>1, <2>2, <2>3, CancelEndSessionResumes
  <2> QED
    <3> HIDE DEF t
    <3> QED BY <1>2, <2>4 DEF t
<1>3. CASE s.phase >= QUERY_END_SESSION /\ ~ cancel
  <2>1. /\ answered \in Manager /\ Consistent(answered)
        /\ answered.jit = s.jit /\ answered.clients = s.clients
    BY <1>3, AnsweredSafe
  <2>2. Alike(s, answered)
    BY DEF Alike, Manager
  <2>3. Known(answered) /\ Stays(s, answered)
    <3> HIDE DEF answered
    <3> QED BY <2>2, AlikeKnown
  <2>4. ~ isOk => /\ refused \in Manager /\ Consistent(refused) /\ Known(refused)
                  /\ Stays(s, refused) /\ refused.clients = s.clients
    <3>1. ~ isOk => refused \in Manager /\ Consistent(refused)
      <4>1. answered.phase = s.phase
        BY <2>2 DEF Alike
      <4> HIDE DEF answered
      <4> QED BY <1>3, <2>1, <4>1, RefusedSafe
    <3>2. Alike(answered, refused)
      <4> HIDE DEF answered
      <4> QED BY <2>1 DEF Alike, Manager
    <3>3. Alike(s, refused)
      <4> HIDE DEF answered, refused
      <4> QED BY <2>2, <3>2 DEF Alike
    <3> HIDE DEF answered, refused
    <3> QED BY <3>1, <3>3, AlikeKnown DEF Alike
  <2>5. /\ removed \in Manager /\ Consistent(removed) /\ Known(removed)
        /\ removed.clients = s.clients /\ Ends(s, removed)
        /\ GoesOn(s, removed) => ~ IsEmpty(removed.query)
    <3>1. s.jit \cap {c} \in SUBSET answered.jit /\ {} \in SUBSET answered.inhibitors
      BY <2>1
    <3>2. GoesOn(s, removed) => GoesOn(answered, removed)
      <4> HIDE DEF answered, removed
      <4> QED BY <2>2 DEF Alike, GoesOn, Heard, Fewer
    <3>3. /\ Known(removed) /\ removed.clients = answered.clients /\ Ends(answered, removed)
          /\ GoesOn(answered, removed) => ~ IsEmpty(removed.query)
      <4> HIDE DEF answered
      <4> QED BY <2>1, <2>3, <3>1, RemoveInhibitorsEnds
    <3>4. removed \in Manager /\ Consistent(removed)
      <4> HIDE DEF answered
      <4> QED BY <2>1, <3>1, RemoveInhibitorsSafe, RemoveInhibitorsType
    <3>5. Ends(s, removed)
      <4> HIDE DEF answered, removed
      <4> QED BY <2>2, <3>3, AlikeFirst
    <3> HIDE DEF answered, removed
    <3> QED BY <2>1, <3>2, <3>3, <3>4, <3>5
  <2>6. \/ ~ isOk /\ t = AfterResponse(refused, c, doLast)
        \/ t = AfterResponse(removed, c, doLast)
    BY <1>3 DEF HandleEndSessionResponse, Manager, STARTUP, EXIT, QUERY_END_SESSION
  <2>7. ASSUME NEW r \in Manager, Consistent(r), Known(r), r.clients = s.clients,
               Stays(s, r), t = AfterResponse(r, c, doLast)
        PROVE  /\ t.clients = s.clients
               /\ \/ Known(t) /\ Ends(s, t)
                  \/ Breaks(s, t) /\ s.phase = END_SESSION
    <3>1. /\ t.clients = r.clients
          /\ \/ Known(t) /\ Ends(r, t)
             \/ Breaks(r, t) /\ r.phase = END_SESSION
      BY <2>7, AfterResponseEnds
    <3>2. s.phase = r.phase
      BY <2>7 DEF Stays
    <3> HIDE DEF t
    <3> QED BY <2>7, <3>1, <3>2, StaysFirst
  <2>8. ASSUME ~ Stays(s, removed), t = AfterResponse(removed, c, doLast)
        PROVE  t.clients = s.clients /\ Known(t) /\ Ends(s, t)
    <3>1. CASE removed.phase = END_SESSION
      <4>1. GoesOn(s, removed) /\ Forced(removed)
        <5> HIDE DEF removed
        <5> QED BY <2>5, <2>8, <3>1 DEF Ends, GoesAlone, Finishes, END_SESSION, EXIT
      <4>2. /\ Known(t) /\ Stays(removed, t) /\ t.clients = removed.clients
            /\ t.inhibitors = removed.inhibitors /\ t.jit = removed.jit
            /\ t.mode = removed.mode
        <5> HIDE DEF removed, t
        <5> QED BY <2>5, <2>8, <3>1, <4>1, AfterResponseEnds
      <4>3. GoesOn(s, t) /\ Forced(t)
        <5> HIDE DEF removed, t
        <5> QED BY <4>1, <4>2 DEF GoesOn, Stays, Heard, Unheard, Fewer, Forced, LogoutInhibited
      <4> HIDE DEF removed, t
      <4> QED BY <2>5, <4>2, <4>3 DEF Ends
    <3>2. CASE removed.phase # END_SESSION
      <4>1. removed.phase = EXIT
        <5> HIDE DEF removed
        <5> QED BY <2>5, <2>8, <3>2 DEF Ends, GoesOn, GoesAlone, Finishes
      <4>2. t = removed
        <5> HIDE DEF removed, t
        <5> QED BY <2>8, <4>1 DEF AfterResponse, EXIT, QUERY_END_SESSION, END_SESSION
      <4> HIDE DEF removed, t
      <4> QED BY <2>5, <4>2
    <3> QED BY <3>1, <3>2
  <2> QED
    <3> HIDE DEF refused, removed, t
    <3> QED BY <2>4, <2>5, <2>6, <2>7, <2>8 DEF t
<1>4. s.phase < QUERY_END_SESSION \/ s.phase >= QUERY_END_SESSION
  BY DEF Manager, STARTUP, EXIT, QUERY_END_SESSION
<1> QED
  <2> HIDE DEF t
  <2> QED BY <1>1, <1>2, <1>3, <1>4 DEF t

-----------------------------------------------------------------------------
(* Clients that leave *)

\* A client that disconnects ends no more than one phase, and none if it is
\* already out of the store and nobody is asked.
LEMMA DisconnectClientEnds ==
  ASSUME NEW s \in Manager, Consistent(s), Known(s), NEW c \in Clients
  PROVE  LET t == DisconnectClient(s, c)
         IN  /\ Known(t) /\ t.clients = s.clients /\ Ends(s, t)
             /\ c \notin s.clients /\ s.phase # QUERY_END_SESSION => t = s
<1> DEFINE r == RemoveInhibitors(s, {}, s.jit \cap {c})
           t == DisconnectClient(s, c)
<1>1. /\ r \in Manager /\ Consistent(r) /\ Known(r) /\ r.clients = s.clients /\ Ends(s, r)
  <2>1. s.jit \cap {c} \in SUBSET s.jit /\ {} \in SUBSET s.inhibitors
    OBVIOUS
  <2> QED BY <2>1, RemoveInhibitorsEnds, RemoveInhibitorsSafe, RemoveInhibitorsType
<1>2. CASE r.phase # QUERY_END_SESSION
  <2>1. t = r
    BY <1>2 DEF DisconnectClient
  <2>2. c \notin s.clients => r = s
    <3>1. c \notin s.clients => s.jit \cap {c} = {}
      BY DEF Consistent, Core
    <3>2. [s EXCEPT !.inhibitors = @ \ {}, !.jit = @ \ {}] = s
      BY DEF Manager
    <3> QED BY <3>1, <3>2 DEF RemoveInhibitors
  <2> QED
    <3> HIDE DEF r, t
    <3> QED BY <1>1, <2>1, <2>2 DEF t
<1>3. CASE r.phase = QUERY_END_SESSION
  <2>1. Stays(s, r)
    <3> HIDE DEF r
    <3> QED BY <1>1, <1>3
            DEF Ends, GoesOn, GoesAlone, Finishes, QUERY_END_SESSION, END_SESSION, EXIT
  <2>2. t = HandleEndSessionResponse(r, c, TRUE, FALSE, FALSE)
    BY <1>3 DEF DisconnectClient
  <2>3. Known(t) /\ t.clients = r.clients /\ Ends(r, t)
    <3>1. /\ t.clients = r.clients
          /\ \/ Known(t) /\ Ends(r, t)
             \/ Known(t) /\ Resumes(r, t) /\ FALSE
             \/ Breaks(r, t) /\ r.phase = END_SESSION
      <4>1. TRUE \in BOOLEAN /\ FALSE \in BOOLEAN /\ (~ TRUE => c \in r.clients)
            /\ (FALSE => c \notin DBusClients) /\ (FALSE => r.phase # EXIT)
        OBVIOUS
      <4> HIDE DEF r, t
      <4> QED BY <1>1, <2>2, <4>1, HandleEndSessionResponseEnds, ZenonT(30)
    <3> HIDE DEF r, t
    <3> QED BY <1>3, <3>1 DEF QUERY_END_SESSION, END_SESSION
  <2>4. s.phase = QUERY_END_SESSION
    BY <1>3, <2>1 DEF Stays
  <2> QED
    <3> HIDE DEF r, t
    <3> QED BY <1>1, <2>1, <2>3, <2>4, StaysFirst DEF t
<1> QED BY <1>2, <1>3

\* Then it is taken out of the store.
LEMMA LeavingEnds ==
  ASSUME NEW s \in Manager, Consistent(s), Known(s), NEW c \in Clients
  PROVE  LET t == RemoveClient(DisconnectClient(s, c), c)
         IN  /\ t \in Manager /\ Consistent(t) /\ Known(t)
             /\ t.clients = s.clients \ {c} /\ Ends(s, t)
             /\ c \notin s.clients /\ s.phase # QUERY_END_SESSION => t = s
<1> DEFINE u == DisconnectClient(s, c)
           t == RemoveClient(u, c)
<1>1. /\ u \in Manager /\ Known(u) /\ u.clients = s.clients /\ Ends(s, u)
      /\ c \notin s.clients /\ s.phase # QUERY_END_SESSION => u = s
  BY DisconnectClientEnds, DisconnectClientType
<1>2. t \in Manager /\ Consistent(t)
  BY <1>1, LeavingSafe, RemoveClientType
<1>3. /\ t.clients = u.clients \ {c} /\ t.phase = u.phase /\ t.told = u.told
      /\ t.next = u.next /\ t.outcome = u.outcome /\ t.quits = u.quits
      /\ t.inhibitors = u.inhibitors /\ t.jit = u.jit /\ t.mode = u.mode
  <2> HIDE DEF u
  <2> QED BY <1>1 DEF RemoveClient, Manager
<1>4. (t.saved <=> u.saved) /\ (t.phaseTimer <=> u.phaseTimer)
  <2> HIDE DEF u
  <2> QED BY <1>1 DEF RemoveClient, Manager
<1>5. Known(t)
  <2>1. (Going(u) => Going(t)) /\ (Gone(u) => Gone(t))
    <3> HIDE DEF t, u
    <3> QED BY <1>3, <1>4 DEF Going, Gone
  <2> HIDE DEF t, u
  <2> QED BY <1>1, <1>3, <1>4, <2>1 DEF Known
<1>6. Ends(s, t)
  <2> HIDE DEF t, u
  <2> QED BY <1>1, <1>3
          DEF Ends, Stays, GoesOn, GoesAlone, Finishes, Heard, Unheard, Fewer, Forced,
              LogoutInhibited
<1>7. c \notin s.clients /\ u = s => t = s
  BY DEF RemoveClient, Manager
<1> QED
  <2> HIDE DEF t, u
  <2> QED BY <1>1, <1>2, <1>3, <1>5, <1>6, <1>7 DEF t, u

\* Without clients the phase ends, and nobody hears of it.
LastLeft(s, t) ==
  \/ t = s
  \/ /\ s.phase \in {QUERY_END_SESSION, END_SESSION, EXIT} /\ s.clients = {}
     /\ t.phase = EXIT /\ t.clients = {} /\ Unheard(s, t)

LEMMA EndIfLastClientLeftEnds ==
  ASSUME NEW s \in Manager, Consistent(s), Known(s)
  PROVE  LET t == EndIfLastClientLeft(s)
         IN  Known(t) /\ t.clients = s.clients /\ LastLeft(s, t)
<1>1. CASE s.phase >= QUERY_END_SESSION /\ s.clients = {}
  <2>1. s.type # "none"
    BY <1>1 DEF Consistent, Phased
  <2>2. s.phase \in {QUERY_END_SESSION, END_SESSION, EXIT}
    BY <1>1 DEF Manager, STARTUP, QUERY_END_SESSION, END_SESSION, EXIT
  <2>3. EndIfLastClientLeft(s) = EndPhase(s)
    BY <1>1 DEF EndIfLastClientLeft
  <2> QED BY <1>1, <2>1, <2>2, <2>3, EndPhaseEnds DEF LastLeft
<1>2. CASE ~ (s.phase >= QUERY_END_SESSION /\ s.clients = {})
  BY <1>2 DEF EndIfLastClientLeft, LastLeft
<1> QED BY <1>1, <1>2

\* It does not make another kind of step of what went before.
LEMMA LastLeftEnds ==
  ASSUME NEW s, NEW t, NEW u, Ends(s, t), LastLeft(t, u)
  PROVE  Ends(s, u)
<1>1. CASE u = t
  BY <1>1
<1>2. CASE /\ t.phase \in {QUERY_END_SESSION, END_SESSION, EXIT} /\ t.clients = {}
           /\ u.phase = EXIT /\ u.clients = {} /\ Unheard(t, u)
  <2>0. Fewer(s, u)
    BY <1>2 DEF Fewer
  <2>1. CASE Stays(s, t)
    <3>1. s.phase = t.phase /\ Unheard(s, u)
      BY <1>2, <2>1 DEF Stays, Unheard
    <3> QED BY <1>2, <2>0, <3>1 DEF Ends, Stays, GoesAlone, Finishes
  <2>2. CASE GoesOn(s, t)
    BY <1>2, <2>2 DEF Ends, GoesOn, GoesAlone, Heard, Unheard
  <2>3. CASE GoesAlone(s, t)
    BY <1>2, <2>3 DEF Ends, GoesAlone, Heard, Unheard
  <2>4. CASE Finishes(s, t)
    BY <1>2, <2>0, <2>4 DEF Ends, Finishes, Heard, Unheard
  <2> QED BY <2>1, <2>2, <2>3, <2>4 DEF Ends
<1> QED BY <1>1, <1>2 DEF LastLeft

\* on_client_disconnected, called once
LEMMA OnClientDisconnectedEnds ==
  ASSUME NEW s \in Manager, Consistent(s), Known(s), NEW c \in Clients
  PROVE  LET t == OnClientDisconnected(s, c)
         IN  /\ t \in Manager /\ Consistent(t) /\ Known(t)
             /\ t.clients = s.clients \ {c} /\ Ends(s, t)
             /\ c \notin s.clients /\ s.phase # QUERY_END_SESSION => LastLeft(s, t)
<1> DEFINE u == RemoveClient(DisconnectClient(s, c), c)
           t == EndIfLastClientLeft(u)
<1>1. /\ u \in Manager /\ Consistent(u) /\ Known(u)
      /\ u.clients = s.clients \ {c} /\ Ends(s, u)
      /\ c \notin s.clients /\ s.phase # QUERY_END_SESSION => u = s
  BY LeavingEnds
<1>2. Known(t) /\ t.clients = u.clients /\ LastLeft(u, t)
  <2> HIDE DEF u
  <2> QED BY <1>1, EndIfLastClientLeftEnds
<1>3. t \in Manager /\ Consistent(t)
  <2> HIDE DEF u
  <2> QED BY <1>1, EndIfLastClientLeftSafe, EndIfLastClientLeftType
<1>4. Ends(s, t)
  <2> HIDE DEF u, t
  <2> QED BY <1>1, <1>2, LastLeftEnds
<1>5. OnClientDisconnected(s, c) = t
  BY DEF OnClientDisconnected
<1> QED
  <2> HIDE DEF u, t
  <2> QED BY <1>1, <1>2, <1>3, <1>4, <1>5

\* And called twice, for an XSMP client that registered twice: by then the
\* client is out of the store, so the second call ends a phase only if the
\* first did not.
LEMMA OnClientDisconnectedTwiceEnds ==
  ASSUME NEW s \in Manager, Consistent(s), Known(s), NEW c \in XSMPClients
  PROVE  LET t == OnClientDisconnected(OnClientDisconnected(s, c), c)
         IN  Known(t) /\ Ends(s, t)
<1> DEFINE u == OnClientDisconnected(s, c)
           t == OnClientDisconnected(u, c)
<1>1. c \in Clients /\ c \notin DBusClients
  BY ConstantsAssumption DEF Clients
<1>2. /\ u \in Manager /\ Consistent(u) /\ Known(u)
      /\ u.clients = s.clients \ {c} /\ Ends(s, u)
  BY <1>1, OnClientDisconnectedEnds
<1>3. /\ Known(t) /\ t.clients = u.clients \ {c} /\ Ends(u, t)
      /\ u.phase # QUERY_END_SESSION => LastLeft(u, t)
  <2> HIDE DEF u
  <2> QED BY <1>1, <1>2, OnClientDisconnectedEnds
<1>4. CASE u.phase # QUERY_END_SESSION
  <2> HIDE DEF u, t
  <2> QED BY <1>2, <1>3, <1>4, LastLeftEnds DEF t, u
<1>5. CASE u.phase = QUERY_END_SESSION
  <2>1. Stays(s, u)
    <3> HIDE DEF u
    <3> QED BY <1>2, <1>5
            DEF Ends, GoesOn, GoesAlone, Finishes, QUERY_END_SESSION, END_SESSION, EXIT
  <2>2. \A d \in DBusClients : d \in u.clients <=> d \in s.clients
    <3> HIDE DEF u
    <3> QED BY <1>1, <1>2
  <2>3. Ends(s, t)
    <3> HIDE DEF u, t
    <3> QED BY <1>3, <2>1, <2>2
            DEF Ends, Stays, GoesOn, GoesAlone, Finishes, Heard, Unheard, Fewer
  <2> QED BY <1>3, <2>3
<1> QED BY <1>4, <1>5

-----------------------------------------------------------------------------
(* Requests *)

\* A running session asks its clients, or stays as it is under lockdown; any
\* other goes on.
LEMMA EndPhaseRequested ==
  ASSUME NEW s \in Manager, Known(s), s.type # "none", s.phase >= RUNNING
  PROVE  LET t == EndPhase(s)
         IN  /\ Known(t)
             /\ Stays(s, t) \/ Asks(s, t) \/ GoesOn(s, t) \/ GoesAlone(s, t) \/ Finishes(s, t)
<1>1. CASE s.phase = RUNNING
  <2> DEFINE t == ClearPhase(s)
  <2>1. /\ t \in Manager /\ t.phase = RUNNING /\ t.clients = s.clients /\ t.told = s.told
        /\ t.next = NoClients /\ Going(t)
    <3>1. Going(s)
      BY <1>1 DEF Known, RUNNING, EXIT
    <3> QED BY <1>1, <3>1, ClearPhaseKeeps, PhaseGoing DEF STARTUP, EXIT
  <2>2. Known(t) /\ Stays(s, t)
    <3>1. RUNNING \in STARTUP..RUNNING
      BY DEF STARTUP, RUNNING
    <3> HIDE DEF t
    <3> QED BY <1>1, <2>1, <3>1, EarlyKnown DEF Stays, Fewer, Unheard
  <2>3. LET u == StartQuery(t)
        IN  /\ u.phase = QUERY_END_SESSION /\ Going(u) /\ Told(t, u, "query")
            /\ u.clients = t.clients /\ u.next = NoClients /\ ~ u.phaseTimer
    <3> HIDE DEF t
    <3> QED BY <2>1, StartQueryAsks
  <2>4. Known(StartQuery(t)) /\ Asks(s, StartQuery(t))
    <3> DEFINE u == StartQuery(t)
    <3>1. DBusClients \subseteq Clients
      BY DEF Clients
    <3> HIDE DEF u, t
    <3> QED BY <1>1, <2>1, <2>3, <3>1
            DEF u, Known, Asks, Told, Heard, NoClients, QUERY_END_SESSION, END_SESSION, EXIT
  <2>5. EndPhase(s) \in {t, StartQuery(t)}
    BY <1>1 DEF EndPhase, EndRunning, RUNNING, QUERY_END_SESSION, END_SESSION
  <2> QED
    <3> HIDE DEF t
    <3> QED BY <2>2, <2>4, <2>5
<1>2. CASE s.phase # RUNNING
  <2>1. s.phase >= QUERY_END_SESSION
    BY <1>2 DEF Manager, STARTUP, RUNNING, QUERY_END_SESSION, EXIT
  <2> QED BY <2>1, EndPhaseEnds
<1> QED BY <1>1, <1>2

\* So does a request that says how the session shall end.
LEMMA RequestEndEnds ==
  ASSUME NEW s \in Manager, Known(s), s.phase >= RUNNING, NEW type \in LogoutTypes \ {"none"}
  PROVE  LET t == RequestEnd(s, type)
         IN  /\ Known(t)
             /\ Stays(s, t) \/ Asks(s, t) \/ GoesOn(s, t) \/ GoesAlone(s, t) \/ Finishes(s, t)
<1> DEFINE u == [s EXCEPT !.type = type]
           t == EndPhase(u)
<1>1. u \in Manager /\ Alike(s, u) /\ u.type # "none"
  BY DEF Manager, Alike
<1>2. /\ Known(t)
      /\ Stays(u, t) \/ Asks(u, t) \/ GoesOn(u, t) \/ GoesAlone(u, t) \/ Finishes(u, t)
  <2>1. Known(u) /\ u.phase >= RUNNING
    <3> HIDE DEF u
    <3> QED BY <1>1, AlikeKnown DEF Alike
  <2> HIDE DEF u
  <2> QED BY <1>1, <2>1, EndPhaseRequested
<1>3. RequestEnd(s, type) = t
  BY DEF RequestEnd
<1> QED
  <2> HIDE DEF u, t
  <2> QED BY <1>1, <1>2, <1>3
          DEF Alike, Stays, Asks, GoesOn, GoesAlone, Finishes, Heard, Unheard, Fewer

\* And one that says in which mode
LEMMA RequestLogoutEnds ==
  ASSUME NEW s \in Manager, Known(s), s.phase >= RUNNING, NEW mode \in LogoutModes
  PROVE  LET t == RequestLogout(s, mode)
         IN  /\ Known(t)
             /\ Stays(s, t) \/ Asks(s, t) \/ GoesOn(s, t) \/ GoesAlone(s, t) \/ Finishes(s, t)
<1> DEFINE u == [s EXCEPT !.mode = mode]
           t == RequestEnd(u, "logout")
<1>1. u \in Manager /\ Alike(s, u)
  BY DEF Manager, Alike
<1>2. /\ Known(t)
      /\ Stays(u, t) \/ Asks(u, t) \/ GoesOn(u, t) \/ GoesAlone(u, t) \/ Finishes(u, t)
  <2>1. Known(u) /\ u.phase >= RUNNING /\ "logout" \in LogoutTypes \ {"none"}
    <3> HIDE DEF u
    <3> QED BY <1>1, AlikeKnown DEF Alike, LogoutTypes
  <2> HIDE DEF u
  <2> QED BY <1>1, <2>1, RequestEndEnds
<1>3. RequestLogout(s, mode) = t
  BY DEF RequestLogout
<1> QED
  <2> HIDE DEF u, t
  <2> QED BY <1>1, <1>2, <1>3
          DEF Alike, Stays, Asks, GoesOn, GoesAlone, Finishes, Heard, Unheard, Fewer

-----------------------------------------------------------------------------
(* The actions *)

\* A new client hears nothing.
LEMMA JoinsTwice ==
  ASSUME NEW s, NEW t, NEW u, s.phase \in Nat, t.phase = s.phase, s.clients \subseteq t.clients,
         Unheard(s, t), Joins(t, u)
  PROVE  Joins(s, u)
BY DEF Joins, Unheard

\* Every step is of one of the kinds, and leaves the program where it is known
\* who was told what, or broken.
LEMMA NextEnds ==
  TypeOK /\ SafetyInvariant /\ EndInvariant /\ Next =>
    /\ Known(m) /\ Step(m, m') /\ EndInvariant'
    /\ Known(m') \/ Breaks(m, m')
<1> SUFFICES ASSUME TypeOK, SafetyInvariant, EndInvariant, Next
             PROVE  /\ Known(m) /\ Step(m, m') /\ EndInvariant'
                    /\ Known(m') \/ Breaks(m, m')
  OBVIOUS
<1>m. m \in Manager /\ m.phase \in 0..9
  BY DEF TypeOK, Manager, STARTUP, EXIT
<1>i. Idle => Consistent(m) /\ Known(m) /\ Going(m) /\ m.phase \in 1..8
  <2> SUFFICES ASSUME Idle PROVE Consistent(m) /\ Known(m) /\ Going(m) /\ m.phase \in 1..8
    OBVIOUS
  <2>1. Consistent(m) /\ Known(m)
    BY DEF Idle, SafetyInvariant, EndInvariant, Broken
  <2>2. m.phase # EXIT
    BY <2>1 DEF Idle, Consistent, Phased
  <2> QED BY <1>m, <2>1, <2>2 DEF Idle, Known, STARTUP, EXIT
<1> DEFINE Fine == /\ Known(m) /\ Step(m, m') /\ EndInvariant'
                   /\ Known(m') \/ Breaks(m, m')
<1>f. Known(m) /\ Known(m') /\ Step(m, m') => Fine
  BY DEF EndInvariant, Known, Going, Gone
<1>b. Known(m) /\ Breaks(m, m') /\ leaving' = {} => Fine
  <2>1. Breaks(m, m') => Broken(m') /\ Step(m, m')
    BY DEF Breaks, Step
  <2>2. Broken(m') /\ leaving' = {} => EndInvariant'
    BY DEF EndInvariant, Broken
  <2> QED BY <2>1, <2>2
<1>1. ASSUME NEW starts \in SUBSET Apps, Start(starts) PROVE Fine
  <2>1. Known(m) /\ Going(m) /\ m.phase = 0
    BY <1>1 DEF Start, EndInvariant, Broken, Known, STARTUP, EXIT
  <2>2. Known(m') /\ Joins(m, m')
    BY <1>1, <1>m, <2>1, StartStartupJoins DEF Start, INITIALIZATION, RUNNING
  <2> QED BY <1>f, <2>1, <2>2 DEF Step
<1>2. ASSUME NEW starts \in SUBSET Apps, NEW a \in Apps, AppExited(a, starts) PROVE Fine
  <2>1. Consistent(m) /\ Known(m) /\ m.phase <= RUNNING /\ (m.phase = RUNNING => m.pending = {})
    BY <1>2, <1>m, <1>i DEF AppExited, Consistent, Phased, RUNNING
  <2>2. Known(m') /\ Joins(m, m')
    BY <1>2, <1>m, <2>1, AppRegisteredJoins DEF AppExited
  <2> QED BY <1>f, <2>1, <2>2 DEF Step
<1>3. ASSUME NEW starts \in SUBSET Apps, PhaseTimeout(starts) PROVE Fine
  <2> DEFINE s == [m EXCEPT !.phaseTimer = FALSE]
  <2>1. /\ Consistent(m) /\ Known(m) /\ Going(m) /\ m.phaseTimer /\ m.phase \in 1..8
    BY <1>3, <1>i DEF PhaseTimeout
  <2>2. s \in Manager /\ Alike(m, s) /\ s.type = m.type
    BY <1>m DEF Alike, Manager
  <2>3. Known(s) /\ Going(s) /\ s.phase = m.phase
    <3> HIDE DEF s
    <3> QED BY <2>1, <2>2, AlikeKnown DEF Alike, Going
  <2>4. m' = IF s.phase < RUNNING THEN EndStartup(s, starts) ELSE EndPhase(s)
    BY <1>3 DEF PhaseTimeout
  <2>5. CASE s.phase < RUNNING
    <3>1. Known(m') /\ Joins(s, m')
      <4> HIDE DEF s
      <4> QED BY <2>2, <2>3, <2>4, <2>5, EndStartupJoins
    <3>2. Joins(m, m')
      <4> HIDE DEF s
      <4> QED BY <2>2, <3>1 DEF Alike, Joins, Unheard
    <3> QED BY <1>f, <2>1, <3>1, <3>2 DEF Step
  <2>6. CASE ~ (s.phase < RUNNING)
    <3>1. m.phase = END_SESSION /\ m.type # "none"
      <4> HIDE DEF s
      <4> QED BY <2>1, <2>3, <2>6
              DEF Consistent, Phased, Known, RUNNING, QUERY_END_SESSION, END_SESSION
    <3>2. LET t == EndPhase(s)
          IN  /\ Known(t)
              /\ Stays(s, t) \/ GoesOn(s, t) \/ GoesAlone(s, t) \/ Finishes(s, t)
      <4> HIDE DEF s
      <4> QED BY <2>2, <2>3, <3>1, EndPhaseEnds DEF QUERY_END_SESSION, END_SESSION
    <3>3. Known(m') /\ Ends(s, m')
      <4> HIDE DEF s
      <4> QED BY <2>3, <2>4, <2>6, <3>1, <3>2
              DEF Ends, GoesOn, QUERY_END_SESSION, END_SESSION
    <3>4. Ends(m, m')
      <4> HIDE DEF s
      <4> QED BY <2>2, <3>3, AlikeFirst
    <3> QED BY <1>f, <2>1, <3>3, <3>4 DEF Step
  <2> QED BY <2>5, <2>6
<1>4. ASSUME NEW starts \in SUBSET Apps, NEW c \in DBusClients,
             NEW owner \in Apps \cup {"none"}, RegisterClient(c, owner, starts)
      PROVE  Fine
  <2> DEFINE s == [m EXCEPT !.clients = m.clients \cup {c},
                            !.registered = m.registered \cup {c},
                            !.seen = m.seen \cup {c}]
  <2>1. Consistent(m) /\ Known(m) /\ Going(m) /\ m.phase <= RUNNING
    BY <1>4, <1>m, <1>i DEF RegisterClient, QUERY_END_SESSION, RUNNING
  <2>2. /\ s \in Manager /\ s.phase = m.phase /\ s.pending = m.pending
        /\ s.next = m.next /\ s.told = m.told /\ s.clients = m.clients \cup {c}
    BY <1>m DEF Manager, Clients
  <2>3. Going(s)
    BY <1>m, <2>1 DEF Going, Manager
  <2>4. m.next = NoClients /\ (m.phase = RUNNING => m.pending = {})
    BY <2>1 DEF Consistent, Phased, Quiet
  <2>5. Known(s) /\ Joins(m, s)
    <3> HIDE DEF s
    <3> QED BY <1>m, <2>1, <2>2, <2>3, <2>4, EarlyKnown DEF Joins, Unheard, STARTUP, RUNNING
  <2>6. owner \in Apps => /\ Known(AppRegistered(s, owner, starts))
                           /\ Joins(s, AppRegistered(s, owner, starts))
    <3> HIDE DEF s
    <3> QED BY <2>1, <2>2, <2>4, <2>5, AppRegisteredJoins
  <2>7. m' = IF owner \in Apps THEN AppRegistered(s, owner, starts) ELSE s
    BY <1>4 DEF RegisterClient
  <2>8. Known(m') /\ Joins(m, m')
    <3> HIDE DEF s
    <3> QED BY <1>m, <2>2, <2>5, <2>6, <2>7, JoinsTwice DEF Joins
  <2> QED BY <1>f, <2>1, <2>8 DEF Step
<1>5. ASSUME NEW starts \in SUBSET Apps, NEW c \in XSMPClients,
             NEW owner \in Apps \cup {"new", "unknown"}, RegisterXSMPClient(c, owner, starts)
      PROVE  Fine
  <2> DEFINE h == [m.handlers EXCEPT ![c] = m.handlers[c] + 1]
             s == [m EXCEPT !.handlers = h]
             r == [s EXCEPT !.registered = s.registered \cup {c}]
  <2>1. Consistent(m) /\ Known(m) /\ Going(m) /\ m.phase <= RUNNING
    BY <1>5, <1>m, <1>i DEF RegisterXSMPClient, QUERY_END_SESSION, RUNNING
  <2>2. m.handlers[c] + 1 \in 0..2
    BY <1>5, <1>m, ConstantsAssumption DEF RegisterXSMPClient, Manager, Clients
  <2>3. h \in [Clients -> 0..2]
    BY <2>2, <1>m DEF Manager, Clients
  <2>4. /\ r \in Manager /\ Alike(m, s) /\ Alike(m, r) /\ r.pending = m.pending
    <3> HIDE DEF h
    <3> QED BY <2>3, <1>m DEF Alike, Manager, Clients
  <2>5. m.phase = RUNNING => m.pending = {}
    BY <2>1 DEF Consistent, Phased
  <2>6. /\ Known(s) /\ Stays(m, s) /\ Known(r) /\ Stays(m, r)
    <3> HIDE DEF s, r
    <3> QED BY <2>1, <2>4, AlikeKnown
  <2>7. owner \in Apps => /\ Known(AppRegistered(r, owner, starts))
                           /\ Joins(m, AppRegistered(r, owner, starts))
    <3> SUFFICES ASSUME owner \in Apps
                 PROVE  /\ Known(AppRegistered(r, owner, starts))
                        /\ Joins(m, AppRegistered(r, owner, starts))
      OBVIOUS
    <3>1. r.phase = m.phase /\ r.clients = m.clients /\ Unheard(m, r)
      <4> HIDE DEF r
      <4> QED BY <2>4 DEF Alike, Unheard
    <3>2. /\ Known(AppRegistered(r, owner, starts))
          /\ Joins(r, AppRegistered(r, owner, starts))
      <4> HIDE DEF r
      <4> QED BY <2>1, <2>4, <2>5, <2>6, <3>1, AppRegisteredJoins
    <3> HIDE DEF r
    <3> QED BY <1>m, <3>1, <3>2, JoinsTwice
  <2>8. \/ m' \in {r, s}
        \/ owner \in Apps /\ m' = AppRegistered(r, owner, starts)
    BY <1>5 DEF RegisterXSMPClient
  <2>9. Known(m') /\ (Joins(m, m') \/ Stays(m, m'))
    <3> HIDE DEF r, s
    <3> QED BY <2>6, <2>7, <2>8
  <2> QED BY <1>f, <2>1, <2>9 DEF Step, Ends
<1>6. ASSUME NEW c \in XSMPClients, AcceptXSMPConnection(c) PROVE Fine
  <2>1. Known(m) /\ Going(m) /\ m.phase \in 1..8 /\ c \notin DBusClients
    BY <1>6, <1>i, ConstantsAssumption DEF AcceptXSMPConnection
  <2>2. /\ m'.phase = m.phase /\ m'.told = m.told /\ m'.next = m.next
        /\ m'.clients = m.clients \cup {c} /\ (m'.phaseTimer <=> m.phaseTimer)
    BY <1>6, <1>m DEF AcceptXSMPConnection, Manager
  <2>3. Going(m')
    BY <1>6, <1>m, <2>1 DEF AcceptXSMPConnection, Manager, Going
  <2>4. Known(m')
    BY <2>1, <2>2, <2>3 DEF Known, QUERY_END_SESSION, END_SESSION, EXIT
  <2>5. Stays(m, m')
    BY <2>1, <2>2 DEF Stays, Fewer, Unheard
  <2> QED BY <1>f, <2>1, <2>4, <2>5 DEF Step, Ends
<1>7. ASSUME NEW c \in XSMPClients, XSMPClientGone(c) PROVE Fine
  <2>1. m' \in {m, OnClientDisconnected(m, c), OnClientDisconnected(OnClientDisconnected(m, c), c)}
    BY <1>7 DEF XSMPClientGone
  <2>2. c \in Clients /\ Consistent(m) /\ Known(m)
    BY <1>7, <1>i DEF Clients, XSMPClientGone
  <2>3. Known(OnClientDisconnected(m, c)) /\ Ends(m, OnClientDisconnected(m, c))
    BY <1>m, <2>2, OnClientDisconnectedEnds
  <2>4. /\ Known(OnClientDisconnected(OnClientDisconnected(m, c), c))
        /\ Ends(m, OnClientDisconnected(OnClientDisconnected(m, c), c))
    BY <1>m, <2>2, OnClientDisconnectedTwiceEnds
  <2>5. Ends(m, m)
    BY DEF Ends, Stays, Fewer, Unheard
  <2>6. Known(m') /\ Ends(m, m')
    BY <2>1, <2>2, <2>3, <2>4, <2>5
  <2> QED BY <1>f, <2>2, <2>6 DEF Step
<1>8. ASSUME NEW c \in Clients, NEW isOk \in BOOLEAN, NEW doLast \in BOOLEAN,
             NEW cancel \in BOOLEAN, EndSessionResponse(c, isOk, doLast, cancel)
      PROVE  Fine
  <2>1. Consistent(m) /\ Known(m) /\ m.phase # EXIT /\ c \in m.clients
    BY <1>8, <1>i DEF EndSessionResponse, EXIT
  <2>2. doLast => c \notin DBusClients
    BY <1>8, ConstantsAssumption DEF EndSessionResponse
  <2>3. m' = HandleEndSessionResponse(m, c, isOk, doLast, cancel) /\ leaving' = {}
    BY <1>8 DEF EndSessionResponse, Idle
  <2>4. \/ Known(m') /\ Ends(m, m')
        \/ Known(m') /\ Resumes(m, m')
        \/ Breaks(m, m')
    BY <1>m, <2>1, <2>2, <2>3, HandleEndSessionResponseEnds
  <2> QED BY <1>f, <1>b, <2>1, <2>3, <2>4 DEF Step
<1>9. ASSUME NEW n \in BusNames, NameOwnerLost(n) PROVE Fine
  <2> DEFINE taken == {i \in m.inhibitors : InhibitorBus[i] = n}
             jit == {c \in m.jit \cap DBusClients : ClientBus[c] = n}
             s == RemoveInhibitors(m, taken, jit)
  <2>1. taken \in SUBSET m.inhibitors /\ jit \in SUBSET m.jit /\ Consistent(m) /\ Known(m)
    BY <1>9, <1>i DEF NameOwnerLost
  <2>2. s \in Manager /\ Consistent(s) /\ Known(s) /\ Ends(m, s)
    <3> HIDE DEF taken, jit
    <3> QED BY <1>m, <2>1, RemoveInhibitorsType, RemoveInhibitorsSafe, RemoveInhibitorsEnds
  <2>3. m' \in {s, EndIfLastClientLeft(s)}
    BY <1>9 DEF NameOwnerLost
  <2>4. Known(m') /\ Ends(m, m')
    <3> HIDE DEF s
    <3> QED BY <2>2, <2>3, EndIfLastClientLeftEnds, LastLeftEnds
  <2> QED BY <1>f, <2>1, <2>4 DEF Step
<1>10. ASSUME BusDisconnected PROVE Fine
  <2>1. Consistent(m) /\ Known(m) /\ Ends(m, m)
    BY <1>10, <1>i DEF BusDisconnected, Ends, Stays, Fewer, Unheard
  <2>2. m' \in {m, EndIfLastClientLeft(m)}
    BY <1>10 DEF BusDisconnected
  <2>3. Known(m') /\ Ends(m, m')
    BY <1>m, <2>1, <2>2, EndIfLastClientLeftEnds, LastLeftEnds
  <2> QED BY <1>f, <2>1, <2>3 DEF Step
<1>11. ASSUME NEW c \in DBusClients, DisconnectNext(c) PROVE Fine
  <2> DEFINE s == RemoveClient(DisconnectClient(m, c), c)
  <2>1. c \in Clients /\ Consistent(m) /\ Known(m)
    BY <1>11 DEF Clients, DisconnectNext, SafetyInvariant, EndInvariant
  <2>2. s \in Manager /\ Consistent(s) /\ Known(s) /\ Ends(m, s)
    BY <1>m, <2>1, LeavingEnds
  <2>3. m' \in {s, EndIfLastClientLeft(s)}
    BY <1>11 DEF DisconnectNext
  <2>4. Known(m') /\ Ends(m, m')
    <3> HIDE DEF s
    <3> QED BY <2>2, <2>3, EndIfLastClientLeftEnds, LastLeftEnds
  <2> QED BY <1>f, <2>1, <2>4 DEF Step
<1>12. ASSUME NEW i \in Inhibitors, Inhibit(i) PROVE Fine
  <2>1. Alike(m, m') /\ Known(m)
    BY <1>12, <1>m, <1>i DEF Inhibit, Alike, Manager
  <2> QED BY <1>f, <2>1, AlikeKnown DEF Step, Ends
<1>13. ASSUME NEW i \in Inhibitors, Uninhibit(i) PROVE Fine
  <2>1. {i} \in SUBSET m.inhibitors /\ {} \in SUBSET m.jit /\ Consistent(m) /\ Known(m)
    BY <1>13, <1>i DEF Uninhibit
  <2>2. Known(m') /\ Ends(m, m')
    BY <1>13, <1>m, <2>1, RemoveInhibitorsEnds DEF Uninhibit
  <2> QED BY <1>f, <2>1, <2>2 DEF Step
<1>14. ASSUME NEW mode \in LogoutModes, NEW prompt \in BOOLEAN, Logout(mode, prompt) PROVE Fine
  <2>1. Known(m) /\ m.phase = RUNNING /\ m.phase >= RUNNING
    BY <1>14, <1>i DEF Logout, RUNNING
  <2>2. m' \in {ShowLogoutDialog(m, "logout"), RequestLogout(m, mode)}
    BY <1>14 DEF Logout
  <2>3. Alike(m, ShowLogoutDialog(m, "logout"))
    BY <1>m DEF ShowLogoutDialog, Alike, Manager
  <2>4. /\ Known(m')
        /\ Stays(m, m') \/ Asks(m, m') \/ GoesOn(m, m') \/ GoesAlone(m, m') \/ Finishes(m, m')
    BY <1>m, <2>1, <2>2, <2>3, AlikeKnown, RequestLogoutEnds
  <2> QED BY <1>f, <2>1, <2>4 DEF Step, Ends, GoesOn, RUNNING, QUERY_END_SESSION
<1>15. ASSUME Shutdown PROVE Fine
  <2>1. Alike(m, m') /\ Known(m)
    BY <1>15, <1>m, <1>i DEF Shutdown, ShowLogoutDialog, Alike, Manager
  <2> QED BY <1>f, <2>1, AlikeKnown DEF Step, Ends
<1>16. ASSUME NEW type \in {"reboot", "shutdown"}, RequestShutdownOrReboot(type) PROVE Fine
  <2>1. /\ Known(m) /\ m.phase = RUNNING /\ m.phase >= RUNNING
        /\ type \in LogoutTypes \ {"none"}
    BY <1>16, <1>i DEF RequestShutdownOrReboot, RUNNING, LogoutTypes
  <2>2. /\ Known(m')
        /\ Stays(m, m') \/ Asks(m, m') \/ GoesOn(m, m') \/ GoesAlone(m, m') \/ Finishes(m, m')
    BY <1>16, <1>m, <2>1, RequestEndEnds DEF RequestShutdownOrReboot
  <2> QED BY <1>f, <2>1, <2>2 DEF Step, Ends, GoesOn, RUNNING, QUERY_END_SESSION
<1>17. ASSUME NEW answer \in {"cancel", "switch-user", "logout", "suspend", "reboot",
                              "shutdown"}, LogoutDialogResponse(answer)
       PROVE  Fine
  <2> DEFINE s == [m EXCEPT !.logoutDialog = "none"]
             f == [m EXCEPT !.outcome = "assertion"]
  <2>1. /\ Consistent(m) /\ Known(m) /\ Going(m) /\ m.phase \in 1..8
        /\ m.logoutDialog # "none" /\ leaving' = {}
    BY <1>17, <1>i DEF LogoutDialogResponse, Idle
  <2>2. m.phase >= RUNNING
    BY <2>1 DEF Consistent, Phased, RUNNING
  <2>3. s \in Manager /\ Alike(m, s)
    BY <1>m DEF Manager, LogoutDialogs, Alike
  <2>4. Known(s) /\ Stays(m, s) /\ s.phase >= RUNNING
    <3> HIDE DEF s
    <3> QED BY <2>1, <2>2, <2>3, AlikeKnown DEF Alike
  <2>5. Breaks(m, f)
    <3>1. /\ f.phase = m.phase /\ f.clients = m.clients /\ f.told = m.told
          /\ f.outcome = "assertion" /\ f.quits = 0
      BY <1>m, <2>1 DEF Manager, Going
    <3>2. ~ f.saved
      BY <1>m, <2>1 DEF Manager, Going
    <3> HIDE DEF f
    <3> QED BY <2>1, <3>1, <3>2 DEF Breaks, Broken, Unheard, STARTUP
  <2>6. ASSUME NEW t, Known(t),
               Stays(s, t) \/ Asks(s, t) \/ GoesOn(s, t) \/ GoesAlone(s, t) \/ Finishes(s, t)
        PROVE  Step(m, t)
    <3> HIDE DEF s
    <3> QED BY <2>1, <2>3, <2>6
            DEF Step, Ends, Alike, Stays, Asks, GoesOn, GoesAlone, Finishes, Heard, Unheard, Fewer
  <2>7. \/ m' \in {s, f}
        \/ answer \in {"suspend", "switch-user"} /\ m' = RequestInhibitable(s, answer)
        \/ m' = RequestLogout(s, "no-confirmation")
        \/ answer \in {"reboot", "shutdown"} /\ m' = RequestEnd(s, answer)
    BY <1>17 DEF LogoutDialogResponse
  <2>8. Alike(s, RequestInhibitable(s, answer))
    <3> HIDE DEF s
    <3> QED BY <2>3 DEF RequestInhibitable, Alike, Manager
  <2>9. CASE m' = f
    <3> HIDE DEF f
    <3> QED BY <1>b, <2>1, <2>5, <2>9
  <2>10. CASE m' # f
    <3>1. /\ Known(m')
          /\ \/ Stays(s, m') \/ Asks(s, m') \/ GoesOn(s, m') \/ GoesAlone(s, m')
             \/ Finishes(s, m')
      <4>1. "no-confirmation" \in LogoutModes
            /\ (answer \in {"reboot", "shutdown"} => answer \in LogoutTypes \ {"none"})
        BY DEF LogoutModes, LogoutTypes
      <4>2. Alike(s, s)
        BY DEF Alike
      <4> HIDE DEF s, f
      <4> QED BY <2>3, <2>4, <2>7, <2>8, <2>10, <4>1, <4>2, AlikeKnown, RequestLogoutEnds,
                 RequestEndEnds
    <3>2. Step(m, m')
      BY <2>6, <3>1
    <3> QED BY <1>f, <2>1, <3>1, <3>2
  <2> QED BY <2>9, <2>10
<1>18. ASSUME NEW accept \in BOOLEAN, InhibitDialogResponse(accept) PROVE Fine
  <2> DEFINE s == [m EXCEPT !.inhibitDialog = "none"]
  <2>1. /\ Consistent(m) /\ Known(m) /\ Going(m) /\ m.phase \in 1..8
    BY <1>18, <1>i DEF InhibitDialogResponse
  <2>2. s \in Manager /\ Alike(m, s)
    BY <1>m DEF Manager, InhibitDialogs, Alike
  <2>3. Known(s) /\ Going(s) /\ Ends(m, s)
    <3> HIDE DEF s
    <3> QED BY <2>1, <2>2, AlikeKnown DEF Ends, Alike, Going
  <2>4. Known(AcceptInhibitDialog(m)) /\ Ends(m, AcceptInhibitDialog(m))
    BY <1>m, <2>1, AcceptInhibitDialogEnds DEF Consistent
  <2>5. m.inhibitDialog = "logout" => Known(CancelEndSession(s)) /\ Resumes(m, CancelEndSession(s))
    <3>1. m.inhibitDialog = "logout" => m.phase \in {QUERY_END_SESSION, END_SESSION}
      BY <2>1 DEF Consistent, Phased, Quiet, RUNNING, QUERY_END_SESSION, END_SESSION
    <3>2. s.phase = m.phase
      BY <2>2 DEF Alike
    <3> HIDE DEF s
    <3> QED BY <2>2, <2>3, <3>1, <3>2, CancelEndSessionResumes, AlikeFirst
  <2>6. \/ m' \in {s, AcceptInhibitDialog(m)}
        \/ m.inhibitDialog = "logout" /\ m' = CancelEndSession(s)
    BY <1>18 DEF InhibitDialogResponse
  <2>7. Known(m') /\ (Ends(m, m') \/ Resumes(m, m'))
    <3> HIDE DEF s
    <3> QED BY <2>3, <2>4, <2>5, <2>6
  <2> QED BY <1>f, <2>1, <2>7 DEF Step
<1>19. ASSUME QueryTimeout PROVE Fine
  <2> DEFINE silent == {c \in Clients : m.query[c] > 0}
             j == IF m.mode = "force" THEN m.jit ELSE m.jit \cup silent
             s == [m EXCEPT !.queryTimer = FALSE, !.query = NoClients, !.jit = j]
  <2>1. Consistent(m) /\ Known(m) /\ m.phase \in 1..8 /\ m.queryTimer
    BY <1>19, <1>i DEF QueryTimeout
  <2>2. m.phase = QUERY_END_SESSION /\ m.type # "none"
    BY <2>1 DEF Consistent, Phased, Quiet, RUNNING, QUERY_END_SESSION, END_SESSION
  <2>3. j \in SUBSET Clients
    BY <1>m DEF Manager
  <2>4. NoClients \in ClientBag
    BY DEF NoClients, ClientBag
  <2>5. s \in Manager /\ Alike(m, s) /\ s.type = m.type
    <3> HIDE DEF j
    <3> QED BY <1>m, <2>3, <2>4 DEF Manager, Alike
  <2>6. m' = QueryComplete(s)
    BY <1>19 DEF QueryTimeout
  <2>7. Known(m') /\ Ends(s, m')
    <3> HIDE DEF s
    <3> QED BY <2>1, <2>2, <2>5, <2>6, AlikeKnown, QueryCompleteEnds DEF Alike
  <2>8. Ends(m, m')
    <3> HIDE DEF s
    <3> QED BY <2>5, <2>7, AlikeFirst
  <2> QED BY <1>f, <2>1, <2>7, <2>8 DEF Step
<1>20. ASSUME FatalSignal PROVE Fine
  <2>1. Known(m) /\ Going(m) /\ leaving' = {}
    BY <1>20, <1>i DEF FatalSignal, Idle
  <2>2. /\ m'.phase = EXIT /\ m'.outcome = "signal" /\ m'.clients = m.clients
        /\ m'.told = m.told /\ m'.quits = 0
    BY <1>20, <1>m, <2>1 DEF FatalSignal, Manager, Going
  <2>3. ~ m'.saved
    BY <1>20, <1>m, <2>1 DEF FatalSignal, Manager, Going
  <2>4. Breaks(m, m')
    BY <2>2, <2>3 DEF Breaks, Broken, Unheard, STARTUP, EXIT
  <2> QED BY <1>b, <2>1, <2>4
<1>21. ASSUME SetLockdown PROVE Fine
  <2>1. m' = m /\ Known(m)
    BY <1>21 DEF SetLockdown, EndInvariant, Broken
  <2>2. Stays(m, m') /\ Known(m')
    BY <2>1 DEF Stays, Fewer, Unheard
  <2> QED BY <1>f, <2>1, <2>2 DEF Step, Ends
<1> QED
  <2> HIDE DEF Fine
  <2>1. Fine
    BY <1>1, <1>2, <1>3, <1>4, <1>5, <1>6, <1>7, <1>8, <1>9, <1>10, <1>11, <1>12, <1>13,
       <1>14, <1>15, <1>16, <1>17, <1>18, <1>19, <1>20, <1>21
    DEF Next, StartupStep, ClientStep, UserStep
  <2> QED BY <2>1 DEF Fine

-----------------------------------------------------------------------------
(* The invariants *)

\* The strengthening is inductive, given the types and the safety invariant.
THEOREM EndInvariantHolds == Spec => []EndInvariant
<1>1. Init => EndInvariant
  BY DEF Init, NewManager, EndInvariant, Known, Going, NoClients, Clients,
         STARTUP, QUERY_END_SESSION, END_SESSION, EXIT
<1>2. TypeOK /\ SafetyInvariant /\ EndInvariant /\ [Next]_vars => EndInvariant'
  <2>1. UNCHANGED vars /\ EndInvariant => EndInvariant'
    BY DEF vars, EndInvariant, Known, Going, Gone, Broken
  <2> QED BY <2>1, NextEnds
<1> QED BY <1>1, <1>2, TypeCorrect, SafetyInvariantHolds, PTL DEF Spec

\* With auto-save, the session is saved in every end but a crash or a signal,
\* and never before its end (maybe_save_session, called by end_phase and
\* csm_manager_quit).
THEOREM SavedWhenEndedHolds == Spec => []SavedWhenEnded
<1>1. TypeOK /\ EndInvariant => SavedWhenEnded
  BY DEF TypeOK, EndInvariant, SavedWhenEnded, Known, Going, Gone, Broken, Manager
<1> QED BY <1>1, TypeCorrect, EndInvariantHolds, PTL

\* When csm_manager_quit has run, every client that is left was told to stop,
\* even when the end of the last phase is reached twice.
THEOREM StoppedAtQuitHolds == Spec => []StoppedAtQuit
<1>1. EndInvariant => StoppedAtQuit
  BY DEF EndInvariant, StoppedAtQuit, Known, Going, Gone, Broken
<1> QED BY <1>1, EndInvariantHolds, PTL

-----------------------------------------------------------------------------
(* The action properties *)

\* A step of any kind tells a client only what it may hear next.
LEMMA StepInOrder ==
  ASSUME NEW s, NEW t, Known(s), Step(s, t), s.phase = RUNNING => Quiet(s),
         NEW c \in DBusClients, t.told[c] # s.told[c]
  PROVE  s.told[c] \in CASE t.told[c] = "query"  -> {"none", "cancel"}
                          [] t.told[c] = "end"    -> {"query"}
                          [] t.told[c] = "last"   -> {"end"}
                          [] t.told[c] = "cancel" -> {"query", "end", "last"}
                          [] OTHER                -> {"end", "last"}
<1>1. CASE Asks(s, t)
  <2>1. c \in s.clients /\ t.told[c] = "query"
    BY <1>1 DEF Asks, Heard
  <2>2. s.told[c] \in {"none", "cancel"}
    BY <1>1, <2>1 DEF Asks, Quiet
  <2> QED BY <2>1, <2>2
<1>2. CASE GoesOn(s, t) \/ GoesAlone(s, t)
  <2>1. c \in s.clients /\ t.told[c] = "end" /\ s.phase = QUERY_END_SESSION
    BY <1>2 DEF GoesOn, GoesAlone, Heard, Unheard
  <2>2. s.told[c] = "query"
    BY <2>1 DEF Known
  <2> QED BY <2>1, <2>2
<1>3. CASE Finishes(s, t)
  <2>1. c \in s.clients /\ t.told[c] = "stop" /\ s.phase = END_SESSION
    BY <1>3 DEF Finishes, Heard, Unheard
  <2>2. s.told[c] = "end"
    BY <2>1 DEF Known
  <2> QED BY <2>1, <2>2
<1>4. CASE Resumes(s, t)
  <2>1. /\ c \in s.clients /\ t.told[c] = "cancel"
        /\ s.phase \in {QUERY_END_SESSION, END_SESSION}
    BY <1>4 DEF Resumes, Heard
  <2>2. s.told[c] \in {"query", "end"}
    BY <2>1 DEF Known
  <2> QED BY <2>1, <2>2
<1>5. CASE Stays(s, t) \/ Joins(s, t) \/ Breaks(s, t)
  BY <1>5 DEF Stays, Joins, Breaks, Unheard
<1> QED BY <1>1, <1>2, <1>3, <1>4, <1>5 DEF Step, Ends

\* A D-Bus client hears of the end of the session in order: asked, then told to
\* end, then to stop, with a cancellation only when there is something to cancel
\* (csm_client_query_end_session, csm_client_end_session, csm_client_stop,
\* csm_client_cancel_end_session as the phases and cancel_end_session call them).
THEOREM MessagesInOrderHolds == Spec => MessagesInOrder
<1> DEFINE InOrder ==
      \A c \in DBusClients : m'.told[c] # m.told[c] =>
        m.told[c] \in CASE m'.told[c] = "query"  -> {"none", "cancel"}
                        [] m'.told[c] = "end"    -> {"query"}
                        [] m'.told[c] = "last"   -> {"end"}
                        [] m'.told[c] = "cancel" -> {"query", "end", "last"}
                        [] OTHER                 -> {"end", "last"}
<1>1. TypeOK /\ SafetyInvariant /\ EndInvariant /\ [Next]_vars => [InOrder]_vars
  <2> SUFFICES ASSUME TypeOK, SafetyInvariant, EndInvariant, Next
               PROVE  InOrder
    OBVIOUS
  <2>1. Known(m) /\ Step(m, m')
    BY NextEnds
  <2>2. m.phase = RUNNING => Quiet(m)
    BY DEF SafetyInvariant, Consistent, Phased, RUNNING, EXIT
  <2> QED BY <2>1, <2>2, StepInOrder
<1>2. Spec => [][InOrder]_vars
  <2> HIDE DEF InOrder
  <2> QED BY <1>1, TypeCorrect, SafetyInvariantHolds, EndInvariantHolds, PTL DEF Spec
<1> QED BY <1>2 DEF MessagesInOrder

\* With clients to ask, and no logout dialog open, an inhibited logout goes on
\* only in the forced mode (query_end_session_complete, inhibit_dialog_response).
THEOREM InhibitedLogoutWaitsHolds == Spec => InhibitedLogoutWaits
<1> DEFINE Waiting ==
      /\ m.phase = QUERY_END_SESSION
      /\ m'.phase > QUERY_END_SESSION
      /\ m'.outcome # "signal"
      /\ LogoutInhibited(m')
      /\ m'.clients # {}
      /\ m.logoutDialog = "none"
      => m'.mode = "force"
<1>1. TypeOK /\ SafetyInvariant /\ EndInvariant /\ [Next]_vars /\ TypeOK' => [Waiting]_vars
  <2> SUFFICES ASSUME TypeOK, SafetyInvariant, EndInvariant, Next, TypeOK',
                      m.phase = QUERY_END_SESSION, m'.phase > QUERY_END_SESSION, m'.outcome # "signal",
                      LogoutInhibited(m'), m'.clients # {}, m.logoutDialog = "none"
               PROVE  m'.mode = "force"
    OBVIOUS
  <2>1. Step(m, m')
    BY NextEnds
  <2>2. ~ Stays(m, m') /\ ~ GoesAlone(m, m') /\ ~ Breaks(m, m')
    BY DEF Stays, GoesAlone, Breaks, QUERY_END_SESSION
  <2>3. ~ Finishes(m, m') /\ ~ Asks(m, m') /\ ~ Resumes(m, m')
    BY DEF Finishes, Asks, Resumes, RUNNING, QUERY_END_SESSION, END_SESSION
  <2>4. ~ Joins(m, m')
    <3>1. m'.phase \in 0..9
      BY DEF TypeOK, Manager, STARTUP, EXIT
    <3> QED BY <3>1 DEF Joins, RUNNING, QUERY_END_SESSION
  <2>5. GoesOn(m, m') /\ Forced(m')
    BY <2>1, <2>2, <2>3, <2>4 DEF Step, Ends
  <2> QED BY <2>5 DEF Forced
<1>2. Spec => [][Waiting]_vars
  <2> HIDE DEF Waiting
  <2> QED BY <1>1, TypeCorrect, SafetyInvariantHolds, EndInvariantHolds, PTL DEF Spec
<1> QED BY <1>2 DEF InhibitedLogoutWaits

-----------------------------------------------------------------------------
(* The refinement *)

\* The stage a manager is in, when it is known who was told what
LEMMA StageKnown ==
  ASSUME NEW s \in Manager, Known(s)
  PROVE  /\ s.phase < RUNNING => StageOf(s) = "starting"
         /\ s.phase = RUNNING => StageOf(s) = "running"
         /\ s.phase = QUERY_END_SESSION => StageOf(s) = "asking"
         /\ s.phase = END_SESSION => StageOf(s) = "ending"
         /\ s.phase = EXIT => StageOf(s) = "over"
<1>1. s.outcome \in {"running", "quit"} /\ s.phase \in 0..9
  BY DEF Known, Going, Gone, Manager, STARTUP, EXIT
<1> QED
  BY <1>1 DEF StageOf, RUNNING, QUERY_END_SESSION, END_SESSION, EXIT

\* A broken program has aborted.
LEMMA StageBroken ==
  ASSUME NEW s, Broken(s)
  PROVE  StageOf(s) = "aborted"
BY DEF Broken, StageOf

\* Every step implements one of SessionEnd, or is none.
LEMMA StepImplements ==
  TypeOK /\ SafetyInvariant /\ EndInvariant /\ [Next]_vars /\ TypeOK' /\ EndInvariant' =>
    [SE!Next]_<<StageOf(m), m.clients \cap DBusClients,
                [c \in DBusClients |-> NoticeOf(m.told[c])]>>
<1> DEFINE N(s) == [c \in DBusClients |-> NoticeOf(s.told[c])]
           P(s) == s.clients \cap DBusClients
<1>1. /\ StageOf(m)' = StageOf(m') /\ N(m)' = N(m') /\ P(m)' = P(m')
  BY DEF StageOf, NoticeOf
<1>2. ASSUME UNCHANGED vars PROVE UNCHANGED <<StageOf(m), P(m), N(m)>>
  BY <1>2 DEF vars, StageOf, NoticeOf
<1>3. ASSUME NEW msg, Heard(m, m', msg)
      PROVE  N(m') = [c \in DBusClients |-> IF c \in P(m) THEN NoticeOf(msg) ELSE N(m)[c]]
  BY <1>3 DEF Heard
<1>4. Unheard(m, m') => N(m') = N(m)
  BY DEF Unheard
<1>5. /\ NoticeOf("query") = "asked" /\ NoticeOf("cancel") = "none"
      /\ NoticeOf("end") = "ending" /\ NoticeOf("stop") = "ending"
  BY DEF NoticeOf
<1>6. Fewer(m, m') => P(m') \subseteq P(m)
  BY DEF Fewer
<1>7. ASSUME TypeOK, SafetyInvariant, EndInvariant, Next, TypeOK', EndInvariant'
      PROVE  SE!Next \/ UNCHANGED <<StageOf(m), P(m), N(m)>>
  <2>1. Known(m) /\ Step(m, m') /\ (Known(m') \/ Breaks(m, m'))
    BY <1>7, NextEnds
  <2>2. m \in Manager /\ m' \in Manager
    BY <1>7 DEF TypeOK
  <2>3. CASE Breaks(m, m')
    <3>1. StageOf(m') = "aborted" /\ P(m') = P(m) /\ N(m') = N(m)
      BY <1>4, <2>3, StageBroken DEF Breaks
    <3>2. SE!Abort
      BY <1>1, <3>1 DEF SE!Abort
    <3> QED BY <3>2 DEF SE!Next
  <2> SUFFICES ASSUME ~ Breaks(m, m')
               PROVE  SE!Next \/ UNCHANGED <<StageOf(m), P(m), N(m)>>
    BY <2>3
  <2>4. Known(m')
    BY <2>1
  <2>5. CASE Stays(m, m')
    <3>1. StageOf(m') = StageOf(m)
      BY <2>1, <2>2, <2>4, <2>5, StageKnown
      DEF Stays, Manager, STARTUP, RUNNING, QUERY_END_SESSION, END_SESSION, EXIT
    <3>2. SE!Leave
      BY <1>1, <1>4, <1>6, <2>5, <3>1 DEF SE!Leave, Stays
    <3> QED BY <3>2 DEF SE!Next
  <2>6. CASE Joins(m, m')
    <3>1. /\ StageOf(m) \in {"starting", "running"}
          /\ StageOf(m') \in {StageOf(m), "running"}
      BY <2>1, <2>2, <2>4, <2>6, StageKnown
      DEF Joins, Manager, STARTUP, RUNNING, EXIT
    <3>2. P(m) \subseteq P(m') /\ N(m') = N(m)
      BY <1>4, <2>6 DEF Joins
    <3>3. SE!Join
      BY <1>1, <3>1, <3>2 DEF SE!Join
    <3> QED BY <3>3 DEF SE!Next
  <2>7. CASE Asks(m, m')
    <3>1. StageOf(m) = "running" /\ StageOf(m') = "asking" /\ P(m') = P(m)
      BY <2>1, <2>2, <2>4, <2>7, StageKnown DEF Asks
    <3>2. Heard(m, m', "query")
      BY <2>7 DEF Asks
    <3>3. N(m') = [c \in DBusClients |-> IF c \in P(m) THEN "asked" ELSE N(m)[c]]
      BY <1>3, <1>5, <3>2
    <3>4. SE!Ask
      BY <1>1, <3>1, <3>3 DEF SE!Ask, SE!Notify
    <3> QED BY <3>4 DEF SE!Next
  <2>8. CASE GoesOn(m, m')
    <3>1. /\ StageOf(m) = "asking" /\ StageOf(m') = "ending" /\ P(m') \subseteq P(m)
          /\ Heard(m, m', "end")
      BY <1>6, <2>1, <2>2, <2>4, <2>8, StageKnown DEF GoesOn
    <3>2. N(m') = [c \in DBusClients |-> IF c \in P(m) THEN "ending" ELSE N(m)[c]]
      BY <1>3, <1>5, <3>1
    <3>3. SE!GoOn
      BY <1>1, <3>1, <3>2 DEF SE!GoOn, SE!Notify
    <3> QED BY <3>3 DEF SE!Next
  <2>9. CASE GoesAlone(m, m')
    <3>1. /\ StageOf(m) = "asking" /\ StageOf(m') = "over" /\ P(m') = {}
          /\ Unheard(m, m') \/ Heard(m, m', "end")
      BY <2>1, <2>2, <2>4, <2>9, StageKnown DEF GoesAlone
    <3>2. \/ N(m') = N(m)
          \/ N(m') = [c \in DBusClients |-> IF c \in P(m) THEN "ending" ELSE N(m)[c]]
      BY <1>3, <1>4, <1>5, <3>1
    <3>3. SE!GoOnAlone
      BY <1>1, <3>1, <3>2 DEF SE!GoOnAlone, SE!Notify
    <3> QED BY <3>3 DEF SE!Next
  <2>10. CASE Finishes(m, m')
    <3>1. /\ StageOf(m) = "ending" /\ StageOf(m') = "over" /\ P(m') \subseteq P(m)
          /\ Unheard(m, m') \/ Heard(m, m', "stop")
      BY <1>6, <2>1, <2>2, <2>4, <2>10, StageKnown DEF Finishes
    <3>2. \A c \in P(m) : m.told[c] = "end"
      BY <2>1, <2>10 DEF Known, Finishes
    <3>3. Heard(m, m', "stop") => N(m') = N(m)
      BY <1>5, <3>2 DEF Heard
    <3>4. N(m') = N(m)
      BY <1>4, <3>1, <3>3
    <3>5. SE!Finish
      BY <1>1, <3>1, <3>4 DEF SE!Finish
    <3> QED BY <3>5 DEF SE!Next
  <2>11. CASE Resumes(m, m')
    <3>1. /\ StageOf(m) \in {"asking", "ending"} /\ StageOf(m') = "running"
          /\ P(m') = P(m) /\ Heard(m, m', "cancel")
      BY <2>1, <2>2, <2>4, <2>11, StageKnown DEF Resumes
    <3>2. N(m') = [c \in DBusClients |-> IF c \in P(m) THEN "none" ELSE N(m)[c]]
      BY <1>3, <1>5, <3>1
    <3>3. SE!Resume
      BY <1>1, <3>1, <3>2 DEF SE!Resume, SE!Notify
    <3> QED BY <3>3 DEF SE!Next
  <2> QED BY <2>1, <2>5, <2>6, <2>7, <2>8, <2>9, <2>10, <2>11 DEF Step, Ends
<1> QED BY <1>2, <1>7

\* Every D-Bus client is asked before the session ends, and whoever was asked is
\* told the outcome (the phases of CsmManager, with cancel_end_session, implement
\* SessionEnd): whatever XSMP clients, inhibitors, timers and dialogs do.
THEOREM SessionEndImplemented == Spec => ImplementsSessionEnd
<1>1. Init => SE!Init
  <2> SUFFICES ASSUME Init PROVE SE!Init
    OBVIOUS
  <2>1. /\ m = NewManager /\ m.clients = {} /\ m.phase = STARTUP /\ m.outcome = "running"
        /\ \A c \in DBusClients : m.told[c] = "none"
    BY DEF Init, NewManager, Clients
  <2>2. StageOf(m) = "starting"
    BY <2>1 DEF StageOf, STARTUP, RUNNING, QUERY_END_SESSION, END_SESSION
  <2>3. \A c \in DBusClients : NoticeOf(m.told[c]) = "none"
    BY <2>1 DEF NoticeOf
  <2> QED BY <2>1, <2>2, <2>3 DEF SE!Init
<1> QED BY <1>1, StepImplements, TypeCorrect, SafetyInvariantHolds, EndInvariantHolds, PTL
        DEF ImplementsSessionEnd, SE!Spec, Spec
=============================================================================
