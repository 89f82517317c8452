----------------------------- MODULE PowerProofs ----------------------------
(***************************************************************************)
(* Power, proved for any number of requests and of failures.               *)
(*                                                                         *)
(* The link of the session manager to logind or ConsoleKit follows the     *)
(* service.  LinkFollowsService is not inductive: a connection that is     *)
(* made anew must find no proxy of a former one, and a live connection     *)
(* the bus.                                                                *)
(*                                                                         *)
(* A session ends the way that was asked for last, and no handler of       *)
(* privileges-completed is left connected: EndInv.  A signal is emitted by *)
(* a fold over its handlers; with only one, the fold is one call.          *)
(***************************************************************************)
EXTENDS Power, TLAPS

LinkInv ==
  /\ bus \in [up : BOOLEAN, service : BOOLEAN]
  /\ link \in Links
  /\ news \in BOOLEAN
  /\ bus.service => bus.up
  /\ link.conn = "live" => bus.up /\ link.names
  /\ link.conn = "none" => ~ link.names /\ link.proxy = "none"
  /\ LinkFollowsService

\* A link that is made or renewed follows the service when the link before did, or has
\* no proxy as after a NameOwnerChanged.
LEMMA EnsureFollows ==
  ASSUME bus \in [up : BOOLEAN, service : BOOLEAN], bus.service => bus.up,
         NEW l \in Links,
         l.conn = "live" => bus.up /\ l.names,
         l.conn = "none" => ~ l.names /\ l.proxy = "none",
         NEW n \in BOOLEAN,
         ~ n /\ l.conn = "live" => l.proxy \in {"none", IF bus.service THEN "live" ELSE "none"}
  PROVE  LET e == Ensure(l, bus)
         IN  /\ e \in Links
             /\ e.conn = "live" => bus.up /\ e.names
             /\ e.conn = "none" => ~ e.names /\ e.proxy = "none"
             /\ ~ n /\ e.conn = "live" /\ e.names
                  => e.proxy = IF bus.service THEN "live" ELSE "none"
<1> DEFINE conn == IF l.conn = "none" /\ bus.up THEN "live" ELSE l.conn
           names == conn # "none" /\ (l.names \/ conn = "live")
           proxy == IF ~ names THEN "none"
                    ELSE IF l.proxy = "none" /\ conn = "live" /\ bus.service THEN "live"
                    ELSE l.proxy
           told == proxy # "none"
           e == Ensure(l, bus)
  <1>1. e = [conn |-> conn, names |-> names, proxy |-> proxy, told |-> told]
  BY DEF Ensure
<1>2. /\ l.conn \in {"none", "live", "dead"} /\ l.names \in BOOLEAN
      /\ l.proxy \in {"none", "live", "stale"}
      /\ bus.up \in BOOLEAN /\ bus.service \in BOOLEAN
  BY DEF Links
<1>3. /\ conn \in {"none", "live", "dead"} /\ names \in BOOLEAN
      /\ proxy \in {"none", "live", "stale"} /\ told \in BOOLEAN
  BY <1>2
<1>4. e \in Links
  BY <1>1, <1>3 DEF Links
<1>5. conn = "live" => bus.up /\ names
  BY <1>2
<1>6. conn = "none" => ~ names /\ proxy = "none"
  BY <1>2
<1>7. ~ n /\ conn = "live" /\ names => proxy = IF bus.service THEN "live" ELSE "none"
  BY <1>2
<1>8. e.conn = conn /\ e.names = names /\ e.proxy = proxy
  BY <1>1
<1> HIDE DEF conn, names, proxy, told
<1> QED
  BY <1>4, <1>5, <1>6, <1>7, <1>8

\* The link of LinkInv with a proxy that has been kept or dropped, made or renewed
LEMMA EnsureInv ==
  ASSUME LinkInv, UNCHANGED bus,
         \/ link' = Ensure(link, bus) /\ UNCHANGED news
         \/ link' = NameOwnerChanged(link, bus) /\ news' = FALSE
  PROVE  LinkInv'
<1>1. CASE link' = Ensure(link, bus) /\ UNCHANGED news
  <2>1. ~ news /\ link.conn = "live" =>
          link.proxy \in {"none", IF bus.service THEN "live" ELSE "none"}
    BY DEF LinkInv, LinkFollowsService
  <2> QED
    BY <1>1, <2>1, EnsureFollows DEF LinkInv, LinkFollowsService
<1>2. CASE link' = NameOwnerChanged(link, bus) /\ news' = FALSE
  <2> DEFINE l == [link EXCEPT !.proxy = "none"]
  <2>1. /\ l \in Links
        /\ l.conn = link.conn /\ l.names = link.names /\ l.proxy = "none"
    BY DEF LinkInv, Links
  <2>2. link' = Ensure(l, bus)
    BY <1>2 DEF NameOwnerChanged
  <2> HIDE DEF l
  <2> QED
    BY <1>2, <2>1, <2>2, EnsureFollows DEF LinkInv, LinkFollowsService
<1> QED
  BY <1>1, <1>2

\* Nothing else that the manager does touches the link.
LEMMA LinkStep ==
  ASSUME LinkInv, [Next]_vars
  PROVE  LinkInv'
<1>1. CASE UNCHANGED <<bus, link, news>>
  BY <1>1 DEF LinkInv, LinkFollowsService
<1>2. CASE UNCHANGED <<bus, news>> /\ link' = Ensure(link, bus)
  BY <1>2, EnsureInv
<1>3. ASSUME NEW ending \in Endings, Request(ending) \/ RespondEnd(ending)
      PROVE  LinkInv'
  BY <1>1, <1>3 DEF Request, RespondEnd, world
<1>4. CASE ShowDialog \/ Consult
  BY <1>2, <1>4 DEF ShowDialog, Consult, world
<1>5. CASE RespondSleep \/ AcceptInhibited
  BY <1>1, <1>2, <1>5 DEF RespondSleep, AcceptInhibited, AttemptSleep, world
<1>6. CASE CancelEnd \/ QueryComplete \/ EndComplete \/ Obeyed \/ Refused \/ RejectInhibited
  BY <1>1, <1>6
  DEF CancelEnd, QueryComplete, EndComplete, Obeyed, Refused, RejectInhibited, world
<1>7. CASE Quit
  BY <1>1, <1>2, <1>7 DEF Quit, world
<1>8. CASE BusDies
  <2>1. /\ bus' = [up |-> FALSE, service |-> FALSE]
        /\ link' = BusGone(ServiceGone(link))
        /\ news' = FALSE
    BY <1>8 DEF BusDies
  <2>2. /\ link' \in Links /\ link'.conn # "live"
        /\ link'.conn = "none" => ~ link'.names /\ link'.proxy = "none"
    BY <2>1 DEF BusGone, ServiceGone, LinkInv, Links
  <2> QED
    BY <2>1, <2>2 DEF LinkInv, LinkFollowsService
<1>9. CASE ServiceDies
  <2>1. /\ bus' = [bus EXCEPT !.service = FALSE]
        /\ link' = ServiceGone(link)
        /\ news' = (link.conn = "live" /\ link.names)
    BY <1>9 DEF ServiceDies
  <2>2. /\ link' \in Links /\ link'.conn = link.conn /\ link'.names = link.names
        /\ link.proxy = "none" => link'.proxy = "none"
    BY <2>1 DEF ServiceGone, LinkInv, Links
  <2>3. bus' \in [up : BOOLEAN, service : BOOLEAN] /\ bus'.up = bus.up /\ ~ bus'.service
    BY <2>1 DEF LinkInv
  <2>4. link.conn = "live" => link.names
    BY DEF LinkInv
  <2>5. news' \in BOOLEAN /\ (link.conn = "live" => news')
    BY <2>1, <2>4, Zenon
  <2> QED
    BY <2>2, <2>3, <2>5 DEF LinkInv, LinkFollowsService
<1>10. CASE BusComes
  <2>1. /\ ~ bus.up /\ bus' = [up |-> TRUE, service |-> FALSE]
        /\ UNCHANGED <<link, news>>
    BY <1>10 DEF BusComes
  <2>2. link.conn # "live"
    BY <2>1 DEF LinkInv
  <2> QED
    BY <2>1, <2>2 DEF LinkInv, LinkFollowsService
<1>11. CASE ServiceComes
  <2>1. /\ bus.up /\ bus' = [bus EXCEPT !.service = TRUE]
        /\ UNCHANGED link
        /\ news' = (link.conn = "live" /\ link.names)
    BY <1>11 DEF ServiceComes
  <2>2. bus' \in [up : BOOLEAN, service : BOOLEAN] /\ bus'.up
    BY <2>1 DEF LinkInv
  <2>3. link.conn = "live" => link.names
    BY DEF LinkInv
  <2>4. news' \in BOOLEAN /\ (link.conn = "live" => news')
    BY <2>1, <2>3, Zenon
  <2> QED
    BY <2>1, <2>2, <2>4 DEF LinkInv, LinkFollowsService
<1>12. CASE HearDisconnected
  <2>1. link' = Disconnected(link) /\ UNCHANGED <<bus, news>>
    BY <1>12 DEF HearDisconnected, world
  <2>2. link' \in Links /\ link'.conn = "none" /\ ~ link'.names /\ link'.proxy = "none"
    BY <2>1 DEF Disconnected, NoLink, LinkInv, Links
  <2> QED
    BY <2>1, <2>2 DEF LinkInv, LinkFollowsService
<1>13. CASE HearOwnerChanged
  BY <1>13, EnsureInv DEF HearOwnerChanged
<1>14. CASE CdmChanges \/ Inhibit \/ LockDown \/ Wake
  BY <1>1, <1>14 DEF CdmChanges, Inhibit, LockDown, Wake, world
<1>15. CASE UNCHANGED vars
  BY <1>1, <1>15 DEF vars
<1> QED
  BY <1>3, <1>4, <1>5, <1>6, <1>7, <1>8, <1>9, <1>10, <1>11, <1>12, <1>13, <1>14, <1>15 DEF Next

\* The proxy is that of the running service once everything the bus has told is heard,
\* however often bus and service fail (csm_consolekit_ensure_ck_connection,
\* csm_systemd_ensure_sd_connection and their filters).
THEOREM FollowsService == Spec => []LinkFollowsService
<1>1. Init => LinkInv
  <2> SUFFICES ASSUME Init PROVE LinkInv
    OBVIOUS
  <2>1. bus \in [up : BOOLEAN, service : BOOLEAN] /\ bus.up
    BY DEF Init
  <2>2. /\ link \in Links /\ ~ news /\ news \in BOOLEAN
        /\ link.conn = "none" /\ ~ link.names /\ link.proxy = "none"
    BY DEF Init, NoLink, Links
  <2> QED
    BY <2>1, <2>2 DEF LinkInv, LinkFollowsService
<1>2. LinkInv => LinkFollowsService
  BY DEF LinkInv
<1> QED
  BY <1>1, <1>2, LinkStep, PTL DEF Spec

-----------------------------------------------------------------------------
(* The end of the session *)

\* A signal with one handler calls it once.
LEMMA OneHandlerCalled ==
  ASSUME NEW s, NEW kind
  PROVE  FoldLeft(Completed, s, <<kind>>) = Completed(s, kind)
<1> DEFINE D == DOMAIN <<kind>>
           F(iter) == [t \in SUBSET D |->
                         IF t = {} THEN s
                         ELSE LET x == Max(t) IN Completed(iter[t \ {x}], <<kind>>[x])]
           one == Completed(s, kind)
           g == [t \in {{}, {1}} |-> IF t = {} THEN s ELSE one]
           It == CHOOSE iter : iter = F(iter)
<1>1. D = {1} /\ SUBSET D = {{}, {1}} /\ <<kind>>[1] = kind
  OBVIOUS
<1>2. Max({1}) = 1
  BY DEF Max
<1>3. g = F(g)
  <2>1. g[{1} \ {1}] = s /\ g[{}] = s /\ g[{1}] = one
    <3> HIDE DEF one
    <3> QED OBVIOUS
  <2>2. F(g)[{}] = s
    BY <1>1
  <2>3. F(g)[{1}] = Completed(g[{1} \ {1}], kind)
    <3> HIDE DEF g
    <3> QED BY <1>1, <1>2
  <2>4. g = [t \in {{}, {1}} |-> g[t]]
    OBVIOUS
  <2>5. F(g) = [t \in SUBSET D |-> F(g)[t]]
    <3> HIDE DEF g, D
    <3> QED OBVIOUS
  <2>6. F(g) = [t \in {{}, {1}} |-> F(g)[t]]
    <3> HIDE DEF g, F, D
    <3> QED BY <1>1, <2>5
  <2>7. \A t \in {{}, {1}} : F(g)[t] = g[t]
    <3> HIDE DEF g, F
    <3> QED BY <2>1, <2>2, <2>3
  <2>8. [t \in {{}, {1}} |-> F(g)[t]] = [t \in {{}, {1}} |-> g[t]]
    <3> HIDE DEF g, F
    <3> QED BY <2>7
  <2> HIDE DEF g, F
  <2> QED BY <2>4, <2>6, <2>8
<1>4. It = F(It)
  <2> HIDE DEF F, g
  <2> QED BY <1>3
<1>5. It[{1}] = Completed(It[{1} \ {1}], kind)
  <2> HIDE DEF It
  <2> QED BY <1>1, <1>2, <1>4
<1>6. It[{1} \ {1}] = s
  <2> HIDE DEF It
  <2> QED BY <1>1, <1>2, <1>4
<1>7. FoldLeft(Completed, s, <<kind>>) = It[D]
  BY DEF FoldLeft, MapThenFoldSet
<1> QED
  <2> HIDE DEF It, D, g
  <2> QED BY <1>1, <1>5, <1>6, <1>7

\* The only handler, disconnected, leaves none.
LEMMA OneHandlerDisconnected ==
  ASSUME NEW kind
  PROVE  Disconnect(<<kind>>, kind) = <<>>
<1> DEFINE D == DOMAIN <<kind>>
           F(iter) == [t \in SUBSET D |->
                         IF t = {} THEN <<>>
                         ELSE LET x == Max(t)
                              IN  IF <<kind>>[x] = kind THEN iter[t \ {x}]
                                  ELSE Append(iter[t \ {x}], <<kind>>[x])]
           one == (IF kind = kind THEN <<>> ELSE Append(<<>>, kind))
           g == [t \in {{}, {1}} |-> IF t = {} THEN <<>> ELSE one]
           It == CHOOSE iter : iter = F(iter)
<1>1. D = {1} /\ SUBSET D = {{}, {1}} /\ <<kind>>[1] = kind
  OBVIOUS
<1>2. Max({1}) = 1
  BY DEF Max
<1>3. g = F(g)
  <2>1. g[{1} \ {1}] = <<>> /\ g[{}] = <<>> /\ g[{1}] = one
    <3> HIDE DEF one
    <3> QED OBVIOUS
  <2>2. F(g)[{}] = <<>>
    BY <1>1
  <2>3. F(g)[{1}] = (IF kind = kind THEN g[{1} \ {1}] ELSE Append(g[{1} \ {1}], kind))
    <3> HIDE DEF g
    <3> QED BY <1>1, <1>2
  <2>4. g = [t \in {{}, {1}} |-> g[t]]
    OBVIOUS
  <2>5. F(g) = [t \in SUBSET D |-> F(g)[t]]
    <3> HIDE DEF g, D
    <3> QED OBVIOUS
  <2>6. F(g) = [t \in {{}, {1}} |-> F(g)[t]]
    <3> HIDE DEF g, F, D
    <3> QED BY <1>1, <2>5
  <2>7. \A t \in {{}, {1}} : F(g)[t] = g[t]
    <3> HIDE DEF g, F
    <3> QED BY <2>1, <2>2, <2>3
  <2>8. [t \in {{}, {1}} |-> F(g)[t]] = [t \in {{}, {1}} |-> g[t]]
    <3> HIDE DEF g, F
    <3> QED BY <2>7
  <2> HIDE DEF g, F
  <2> QED BY <2>4, <2>6, <2>8
<1>4. It = F(It)
  <2> HIDE DEF F, g
  <2> QED BY <1>3
<1>5. It[{1}] = (IF kind = kind THEN It[{1} \ {1}] ELSE Append(It[{1} \ {1}], kind))
  <2> HIDE DEF It
  <2> QED BY <1>1, <1>2, <1>4
<1>6. It[{1} \ {1}] = <<>>
  <2> HIDE DEF It
  <2> QED BY <1>1, <1>2, <1>4
<1>7. Disconnect(<<kind>>, kind) = It[D]
  BY DEF FoldLeft, MapThenFoldSet, Disconnect
<1> QED
  <2> HIDE DEF It, D, g
  <2> QED BY <1>1, <1>5, <1>6, <1>7

\* With no handler left over, a request starts the phase that follows, once.
LEMMA RequestedOnce ==
  ASSUME NEW s, s.handlers = <<>>, NEW kind,
         s = [phase |-> s.phase, type |-> s.type, handlers |-> s.handlers]
  PROVE  Requested(s, kind) = EndPhase([s EXCEPT !.type = kind])
<1> DEFINE r == [s EXCEPT !.handlers = <<kind>>]
<1>1. Requested(s, kind) = FoldLeft(Completed, r, <<kind>>)
  <2>1. Append(s.handlers, kind) = <<kind>>
    OBVIOUS
  <2> QED BY <2>1 DEF Requested
<1>2. Completed(r, kind) = EndPhase([r EXCEPT !.type = kind, !.handlers = Disconnect(@, kind)])
  BY DEF Completed
<1>3. Disconnect(r.handlers, kind) = <<>>
  BY OneHandlerDisconnected
<1>4. [r EXCEPT !.type = kind, !.handlers = Disconnect(@, kind)] = [s EXCEPT !.type = kind]
  BY <1>3
<1> HIDE DEF r
<1> QED BY <1>1, <1>2, <1>4, OneHandlerCalled

Phases == {"running", "query", "end", "exit", "calling", "over"}

\* What is known of the end of the session: its type is what was asked for last; the
\* machine is awake where its end may be next; the display manager knows nothing while the
\* service is called.  The dialog about the end is only up while there is one.
EndInv ==
  /\ end \in [phase : Phases, type : Endings \cup {"none"}, handlers : {<<>>}]
  /\ asked = end.type
  /\ end.phase # "running" => asked \in Endings
  /\ cdm \in [up : BOOLEAN, action : {"none"} \cup Kinds]
  /\ machine \in {"on", "asleep"} \cup Kinds
  /\ DOMAIN dialogs = {"logout", "inhibit"}
  /\ end.phase \in {"running", "query", "end"} => machine \in {"on", "asleep"}
  /\ end.phase \in {"exit", "calling"} => machine = "on"
  /\ end.phase = "calling" => cdm.action = "none" /\ asked \in Kinds
  /\ dialogs.inhibit = "end" => end.phase # "running"
  /\ ~ cdm.up => cdm.action = "none"
  /\ EndsAsAsked

\* The phase that follows, for a session that has not ended
LEMMA EndPhaseNext ==
  ASSUME NEW s \in [phase : Phases, type : Endings \cup {"none"}, handlers : {<<>>}]
  PROVE  LET e == EndPhase(s)
         IN  /\ e \in [phase : Phases, type : Endings \cup {"none"}, handlers : {<<>>}]
             /\ e.type = s.type /\ e.phase \notin {"calling", "over"}
             /\ s.phase = "running" => e.phase \in {"running", "query"}
             /\ s.phase # "running" => e.phase \in {"end", "exit"}
BY DEF EndPhase, Phases

\* A request, in whatever phase
LEMMA AskEnds ==
  ASSUME EndInv, Listening, NEW ending \in Endings, Ask(ending), UNCHANGED <<cdm, machine>>,
         dialogs'.inhibit = dialogs.inhibit, DOMAIN dialogs' = DOMAIN dialogs
  PROVE  EndInv' /\ (end.phase = "running" => end'.phase \in {"running", "query"})
<1> DEFINE s == [end EXCEPT !.type = ending]
<1>1. /\ s \in [phase : Phases, type : Endings \cup {"none"}, handlers : {<<>>}]
      /\ s.phase = end.phase /\ s.type = ending
  BY DEF EndInv
<1>2. end' = EndPhase(s)
  <2>1. /\ end.handlers = <<>>
        /\ end = [phase |-> end.phase, type |-> end.type, handlers |-> end.handlers]
    BY DEF EndInv
  <2>2. CASE ending = "logout"
    BY <2>2 DEF Ask, LogoutRequested
  <2>3. CASE ending # "logout"
    BY <2>1, <2>3, RequestedOnce DEF Ask
  <2> QED BY <2>2, <2>3
<1>3. /\ end' \in [phase : Phases, type : Endings \cup {"none"}, handlers : {<<>>}]
      /\ end'.type = ending /\ end'.phase \notin {"calling", "over"}
      /\ end.phase = "running" => end'.phase \in {"running", "query"}
      /\ end.phase # "running" => end'.phase \in {"end", "exit"}
  <2> HIDE DEF s
  <2> QED BY <1>1, <1>2, EndPhaseNext
<1>4. asked' = ending
  BY DEF Ask
<1>5. machine = "on"
  BY DEF Listening
<1> QED BY <1>3, <1>4, <1>5 DEF EndInv, EndsAsAsked

\* The session goes on to its end.
LEMMA EndPhaseEnds ==
  ASSUME EndInv, Listening, end.phase # "running", end' = EndPhase(end),
         UNCHANGED <<cdm, machine, asked>>, DOMAIN dialogs' = DOMAIN dialogs
  PROVE  EndInv'
<1>1. /\ end' \in [phase : Phases, type : Endings \cup {"none"}, handlers : {<<>>}]
      /\ end'.type = end.type /\ end'.phase \in {"end", "exit"}
  BY EndPhaseNext DEF EndInv
<1>2. machine = "on"
  BY DEF Listening
<1> QED BY <1>1, <1>2 DEF EndInv, EndsAsAsked

\* The end is cancelled, and the display manager told so.
LEMMA CancelledEnds ==
  ASSUME EndInv, Listening, Cancelled, UNCHANGED machine, dialogs'.inhibit = "none",
         DOMAIN dialogs' = DOMAIN dialogs
  PROVE  EndInv'
<1>1. /\ end' \in [phase : Phases, type : Endings \cup {"none"}, handlers : {<<>>}]
      /\ end'.phase = "running" /\ end'.type = "none" /\ asked' = "none"
  BY DEF Cancelled, EndInv, Phases
<1>2. /\ cdm' \in [up : BOOLEAN, action : {"none"} \cup Kinds]
      /\ cdm'.up = cdm.up /\ cdm'.action = IF cdm.up THEN "none" ELSE cdm.action
  BY DEF Cancelled, CdmSet, CdmHears, EndInv
<1>3. machine = "on"
  BY DEF Listening
<1> QED BY <1>1, <1>2, <1>3 DEF EndInv, EndsAsAsked

\* Nothing happens to the end of the session; the machine may fall asleep and wake.
LEMMA EndStays ==
  ASSUME EndInv, UNCHANGED <<end, cdm, asked>>, DOMAIN dialogs' = DOMAIN dialogs,
         dialogs'.inhibit = "end" => dialogs.inhibit = "end" \/ end.phase # "running",
         \/ UNCHANGED machine
         \/ end.phase \in {"running", "query", "end"} /\ machine' \in {"on", "asleep"}
  PROVE  EndInv'
BY DEF EndInv, EndsAsAsked

LEMMA EndStep ==
  ASSUME EndInv, [Next]_vars
  PROVE  EndInv' /\ (end.phase = "running" => end'.phase \in {"running", "query"})
<1> DEFINE Fine == EndInv' /\ (end.phase = "running" => end'.phase \in {"running", "query"})
<1>1. ASSUME UNCHANGED <<end, cdm, asked, machine>>, DOMAIN dialogs' = DOMAIN dialogs,
             dialogs'.inhibit = "end" => dialogs.inhibit = "end" \/ end.phase # "running"
      PROVE  Fine
  BY <1>1, EndStays
<1>2. /\ [dialogs EXCEPT !.inhibit = "none"].inhibit = "none"
      /\ DOMAIN [dialogs EXCEPT !.inhibit = "none"] = DOMAIN dialogs
      /\ \A offers : /\ [dialogs EXCEPT !.logout = offers].inhibit = dialogs.inhibit
                      /\ DOMAIN [dialogs EXCEPT !.logout = offers] = DOMAIN dialogs
  BY DEF EndInv
<1>3. ASSUME NEW ending \in Endings, Request(ending) \/ RespondEnd(ending)
      PROVE  Fine
  <2>1. Listening /\ Ask(ending) /\ UNCHANGED <<cdm, machine>>
    BY <1>3 DEF Request, RespondEnd
  <2>2. dialogs'.inhibit = dialogs.inhibit /\ DOMAIN dialogs' = DOMAIN dialogs
    BY <1>2, <1>3 DEF Request, RespondEnd
  <2> QED BY <2>1, <2>2, AskEnds
<1>4. CASE ShowDialog \/ Consult
  <2>1. UNCHANGED <<end, cdm, asked, machine>>
    BY <1>4 DEF ShowDialog, Consult
  <2>2. dialogs'.inhibit = dialogs.inhibit /\ DOMAIN dialogs' = DOMAIN dialogs
    BY <1>2, <1>4 DEF ShowDialog, Consult
  <2> QED BY <1>1, <2>1, <2>2
<1>5. CASE RespondSleep
  <2>1. Listening /\ UNCHANGED <<end, cdm, asked>>
    BY <1>5 DEF RespondSleep
  <2>2. CASE inhibited
    <3>1. /\ UNCHANGED machine /\ (dialogs'.inhibit = "end" => dialogs.inhibit = "end")
          /\ DOMAIN dialogs' = {"logout", "inhibit"}
      BY <1>5, <2>2 DEF RespondSleep
    <3> QED BY <1>1, <2>1, <3>1 DEF EndInv
  <2>3. CASE ~ inhibited
    <3>1. AttemptSleep /\ dialogs' = [dialogs EXCEPT !.logout = {}]
      BY <1>5, <2>3 DEF RespondSleep
    <3>2. machine' \in {"on", "asleep"}
      BY <3>1 DEF AttemptSleep, SleepOutcomes
    <3>3. dialogs'.inhibit = dialogs.inhibit /\ DOMAIN dialogs' = DOMAIN dialogs
      BY <1>2, <3>1
    <3> QED BY <2>1, <3>2, <3>3, EndStays DEF Listening
  <2> QED BY <2>2, <2>3
<1>6. CASE AcceptInhibited
  <2>1. /\ Listening /\ dialogs' = [dialogs EXCEPT !.inhibit = "none"] /\ UNCHANGED <<cdm, asked>>
        /\ \/ AttemptSleep /\ UNCHANGED end
           \/ dialogs.inhibit = "end" /\ end' = EndPhase(end) /\ UNCHANGED machine
    BY <1>6 DEF AcceptInhibited
  <2>2. dialogs'.inhibit = "none" /\ DOMAIN dialogs' = DOMAIN dialogs
    BY <1>2, <2>1
  <2>3. CASE AttemptSleep /\ UNCHANGED end
    <3>1. machine' \in {"on", "asleep"}
      BY <2>3 DEF AttemptSleep, SleepOutcomes
    <3> QED BY <2>1, <2>2, <2>3, <3>1, EndStays DEF Listening
  <2>4. CASE dialogs.inhibit = "end" /\ end' = EndPhase(end) /\ UNCHANGED machine
    <3>1. end.phase # "running"
      BY <2>4 DEF EndInv
    <3> QED BY <2>1, <2>2, <2>4, <3>1, EndPhaseEnds
  <2> QED BY <2>1, <2>3, <2>4
<1>7. CASE RejectInhibited
  <2>1. Listening /\ dialogs' = [dialogs EXCEPT !.inhibit = "none"] /\ UNCHANGED machine
    BY <1>7 DEF RejectInhibited
  <2>2. dialogs'.inhibit = "none" /\ DOMAIN dialogs' = DOMAIN dialogs
    BY <1>2, <2>1
  <2>3. (Cancelled /\ end.phase # "running") \/ UNCHANGED <<end, cdm, asked>>
    BY <1>7 DEF RejectInhibited
  <2>4. CASE Cancelled /\ end.phase # "running"
    BY <2>1, <2>2, <2>4, CancelledEnds
  <2> QED BY <1>1, <2>1, <2>2, <2>3, <2>4
<1>8. CASE CancelEnd
  <2>1. Listening /\ Cancelled /\ UNCHANGED machine /\ end.phase # "running"
    BY <1>8 DEF CancelEnd
  <2>2. dialogs'.inhibit = "none" /\ DOMAIN dialogs' = DOMAIN dialogs
    BY <1>2, <1>8 DEF CancelEnd
  <2> QED BY <2>1, <2>2, CancelledEnds
<1>9. CASE QueryComplete
  <2>1. /\ Listening /\ end.phase = "query" /\ UNCHANGED <<cdm, asked, machine>>
        /\ \/ UNCHANGED end /\ dialogs' = [dialogs EXCEPT !.inhibit = "end"]
           \/ end' = EndPhase(end) /\ UNCHANGED dialogs
    BY <1>9 DEF QueryComplete
  <2>2. UNCHANGED end => DOMAIN dialogs' = DOMAIN dialogs
    BY <2>1
  <2> QED BY <1>1, <2>1, <2>2, EndPhaseEnds
<1>10. CASE EndComplete
  <2>1. /\ Listening /\ end.phase = "end" /\ end' = EndPhase(end)
        /\ UNCHANGED <<cdm, asked, machine, dialogs>>
    BY <1>10 DEF EndComplete
  <2> QED BY <2>1, EndPhaseEnds
<1>11. CASE Quit
  <2>1. end.phase = "exit" /\ UNCHANGED <<machine, asked, dialogs>>
    BY <1>11 DEF Quit
  <2>2. CASE end.type \in Kinds
    <3>1. end' = [end EXCEPT !.phase = "calling"] /\ cdm' = CdmSet(cdm, "none")
      BY <1>11, <2>2 DEF Quit
    <3>2. /\ cdm' \in [up : BOOLEAN, action : {"none"} \cup Kinds] /\ cdm'.action = "none"
      BY <3>1 DEF CdmSet, CdmHears, EndInv
    <3>3. /\ end' \in [phase : Phases, type : Endings \cup {"none"}, handlers : {<<>>}]
          /\ end'.phase = "calling" /\ end'.type = end.type
      BY <3>1 DEF EndInv, Phases
    <3> QED BY <2>1, <2>2, <3>2, <3>3 DEF EndInv, EndsAsAsked
  <2>3. CASE end.type \notin Kinds
    <3>1. end' = [end EXCEPT !.phase = "over"] /\ UNCHANGED cdm
      BY <1>11, <2>3 DEF Quit
    <3>2. /\ end' \in [phase : Phases, type : Endings \cup {"none"}, handlers : {<<>>}]
          /\ end'.phase = "over" /\ end'.type = end.type
      BY <3>1 DEF EndInv, Phases
    <3>3. asked \notin CdmAble
      BY <2>3, PowerAssumption DEF EndInv
    <3> QED BY <2>1, <3>1, <3>2, <3>3 DEF EndInv, EndsAsAsked
  <2> QED BY <2>2, <2>3
<1>12. CASE Obeyed \/ Refused
  <2>1. /\ end.phase = "calling" /\ end' = [end EXCEPT !.phase = "over"]
        /\ UNCHANGED <<asked, dialogs>>
        /\ \/ machine' = end.type /\ UNCHANGED cdm
           \/ cdm' = CdmSet(cdm, end.type) /\ UNCHANGED machine
    BY <1>12 DEF Obeyed, Refused, Fallback
  <2>2. /\ end' \in [phase : Phases, type : Endings \cup {"none"}, handlers : {<<>>}]
        /\ end'.phase = "over" /\ end'.type = end.type
    BY <2>1 DEF EndInv, Phases
  <2>3. /\ asked \in Kinds /\ asked = end.type /\ machine = "on" /\ cdm.action = "none"
        /\ cdm \in [up : BOOLEAN, action : {"none"} \cup Kinds]
    BY <2>1 DEF EndInv
  <2>4. CASE machine' = end.type /\ UNCHANGED cdm
    BY <2>1, <2>2, <2>3, <2>4 DEF EndInv, EndsAsAsked
  <2>5. CASE cdm' = CdmSet(cdm, end.type) /\ UNCHANGED machine
    <3>1. /\ cdm' \in [up : BOOLEAN, action : {"none"} \cup Kinds]
          /\ ~ cdm'.up => cdm'.action = "none"
          /\ asked \in CdmAble /\ cdm'.up => cdm'.action = asked
      BY <2>3, <2>5 DEF CdmSet, CdmHears
    <3>2. machine' # asked
      BY <2>3, <2>5 DEF Kinds
    <3> QED BY <2>1, <2>2, <2>3, <2>5, <3>1, <3>2 DEF EndInv, EndsAsAsked
  <2> QED BY <2>1, <2>4, <2>5
<1>13. CASE CdmChanges
  <2>1. /\ end.phase # "over" /\ cdm' = [up |-> ~ cdm.up, action |-> "none"]
        /\ UNCHANGED <<end, dialogs, machine, asked>>
    BY <1>13 DEF CdmChanges
  <2>2. cdm' \in [up : BOOLEAN, action : {"none"} \cup Kinds] /\ cdm'.action = "none"
    BY <2>1 DEF EndInv
  <2> QED BY <2>1, <2>2 DEF EndInv, EndsAsAsked
<1>14. CASE \/ BusDies \/ BusComes \/ ServiceDies \/ ServiceComes
            \/ HearDisconnected \/ HearOwnerChanged \/ Inhibit \/ LockDown \/ UNCHANGED vars
  BY <1>1, <1>14 DEF BusDies, BusComes, ServiceDies, ServiceComes,
                     HearDisconnected, HearOwnerChanged, Inhibit, LockDown, vars
<1>15. CASE Wake
  <2>1. machine = "asleep" /\ machine' = "on" /\ UNCHANGED <<end, cdm, dialogs, asked>>
    BY <1>15 DEF Wake
  <2>2. end.phase \in {"running", "query", "end"}
    BY <2>1 DEF EndInv, Phases, Endings, Kinds, EndsAsAsked
  <2> QED BY <2>1, <2>2, EndStays
<1> QED
  BY <1>3, <1>4, <1>5, <1>6, <1>7, <1>8, <1>9, <1>10, <1>11, <1>12, <1>13, <1>14, <1>15 DEF Next

\* The inductive invariant of the end of the session
THEOREM EndInvariantOfPower == Spec => []EndInv
<1>1. Init => EndInv
  <2> SUFFICES ASSUME Init PROVE EndInv
    OBVIOUS
  <2>1. /\ cdm \in [up : BOOLEAN, action : {"none"} \cup Kinds]
        /\ ~ cdm.up => cdm.action = "none"
    <3>1. CASE cdm \in [up : {TRUE}, action : {"none"} \cup CdmAble]
      BY <3>1, PowerAssumption
    <3>2. CASE cdm = [up |-> FALSE, action |-> "none"]
      BY <3>2
    <3> QED BY <3>1, <3>2 DEF Init
  <2>2. end = [phase |-> "running", type |-> "none", handlers |-> <<>>] /\ asked = "none"
    BY DEF Init
  <2>3. DOMAIN dialogs = {"logout", "inhibit"} /\ dialogs.inhibit = "none" /\ machine = "on"
    BY DEF Init
  <2> QED BY <2>1, <2>2, <2>3 DEF EndInv, EndsAsAsked, Phases
<1>2. EndInv /\ [Next]_vars => EndInv'
  BY EndStep
<1> QED BY <1>1, <1>2, PTL DEF Spec

\* A session that is over ends the way that was asked for last: by the service, or by the
\* display manager that csm_manager_quit's quit_request_completed_* turn to, never by both.
THEOREM EndsAsAskedHolds == Spec => []EndsAsAsked
<1>1. EndInv => EndsAsAsked
  BY DEF EndInv
<1> QED BY <1>1, EndInvariantOfPower, PTL

\* A request in a running session takes it one phase on, for request_reboot and
\* request_shutdown disconnect their handlers when they are called.
THEOREM ClientsAreAskedHolds == Spec => ClientsAreAsked
<1> DEFINE Asked == end.phase = "running" => end.phase' \in {"running", "query"}
<1>1. EndInv /\ [Next]_vars => [Asked]_vars
  BY EndStep
<1>2. Spec => [][Asked]_vars
  <2> HIDE DEF Asked
  <2> QED BY <1>1, EndInvariantOfPower, PTL DEF Spec
<1> QED BY <1>2 DEF ClientsAreAsked
=============================================================================
