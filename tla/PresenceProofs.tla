--------------------------- MODULE PresenceProofs ---------------------------
(***************************************************************************)
(* Proofs about Presence: type correctness, and one invariant from which   *)
(* the safety properties of the module follow for any number of            *)
(* inhibitors, any delays and any number of alarms under way.              *)
(***************************************************************************)
EXTENDS Presence, TLAPS

\* What an alarm under way is
LEMMA NextAlarm ==
  ASSUME NEW s \in Seq(BOOLEAN), s # <<>>
  PROVE  Head(s) \in BOOLEAN /\ Tail(s) \in Seq(BOOLEAN)
OBVIOUS

\* The operators of the presence keep its type.
LEMMA SetSessionIdleType ==
  ASSUME NEW q \in Presence, NEW isIdle \in BOOLEAN
  PROVE  SetSessionIdle(q, isIdle) \in Presence
<1>1. AVAILABLE \in Status /\ IDLE \in Status
  BY DEF Status, AVAILABLE, IDLE
<1>2. CASE isIdle /\ q.status # IDLE
  BY <1>1, <1>2 DEF SetSessionIdle, Presence
<1>3. CASE ~ isIdle /\ q.status = IDLE
  BY <1>1, <1>3 DEF SetSessionIdle, Presence
<1>4. CASE ~ (isIdle /\ q.status # IDLE) /\ ~ (~ isIdle /\ q.status = IDLE)
  BY <1>4 DEF SetSessionIdle
<1> QED
  BY <1>2, <1>3, <1>4

\* ... however the watch is reset
LEMMA ResetIdleWatchType ==
  ASSUME NEW q \in Presence
  PROVE  ResetIdleWatch(q) \in Presence
<1> USE PresenceAssumption
<1>1. 0 \in Delays /\ q.timeout \in Delays /\ <<>> \in Seq(BOOLEAN)
  BY DEF Delays, Presence
<1> QED
  BY <1>1 DEF ResetIdleWatch, Presence

\* Type correctness: the fields of the presence hold values of their types.
THEOREM PresenceTypeCorrect == Spec => []PresenceTypeOK
<1>1. Init => PresenceTypeOK
  <2> SUFFICES ASSUME Init PROVE PresenceTypeOK
    OBVIOUS
  <2>1. <<>> \in Seq(BOOLEAN) /\ 0 \in Delays
    BY PresenceAssumption DEF Delays
  <2>2. p \in Presence
    BY <2>1 DEF Init, Presence, Status, AVAILABLE, IDLE
  <2> QED
    <3>1. AVAILABLE \in Status /\ 0 \in 0..MaxAway
      BY PresenceAssumption DEF Status, AVAILABLE, IDLE
    <3>2. away = 0 /\ inhibitors = {} /\ proxy = FALSE /\ chosen = AVAILABLE
      BY DEF Init
    <3> QED
      BY <2>2, <3>1, <3>2 DEF PresenceTypeOK
<1>2. PresenceTypeOK /\ [Next]_vars => PresenceTypeOK'
  <2> SUFFICES ASSUME PresenceTypeOK, [Next]_vars PROVE PresenceTypeOK'
    OBVIOUS
  <2> USE DEF PresenceTypeOK
  <2>a. ASSUME NEW positive \in BOOLEAN, Alarm(positive) PROVE p' \in Presence
    <3>1. Append(p.events, positive) \in Seq(BOOLEAN)
      <4>1. p.events \in Seq(BOOLEAN)
        BY DEF Presence
      <4> QED
        BY <4>1
    <3> QED
      BY <2>a, <3>1 DEF Alarm, Presence
  <2>1. CASE UserStaysAway
    <3>1. p' \in Presence
      BY <2>1, <2>a DEF UserStaysAway
    <3>2. away' \in 0..MaxAway
      BY <2>1, PresenceAssumption DEF UserStaysAway
    <3> QED
      BY <2>1, <3>1, <3>2 DEF UserStaysAway
  <2>2. CASE UserReturns
    <3>1. p' \in Presence
      BY <2>2, <2>a DEF UserReturns
    <3> QED
      BY <2>2, <3>1, PresenceAssumption DEF UserReturns
  <2>3. CASE AlarmNotify
    <3>1. Head(p.events) \in BOOLEAN /\ Tail(p.events) \in Seq(BOOLEAN)
      BY <2>3 DEF AlarmNotify, Presence
    <3>2. [p EXCEPT !.events = Tail(@)] \in Presence
      BY <3>1 DEF Presence
    <3> QED
      BY <2>3, <3>1, <3>2, SetSessionIdleType DEF AlarmNotify
  <2>4. CASE UpdateIdle
    <3>1. [p EXCEPT !.enabled = (inhibitors' = {})] \in Presence
      BY DEF Presence
    <3>2. p' \in Presence
      BY <2>4, <3>1, ResetIdleWatchType DEF UpdateIdle, SetIdleEnabled
    <3> QED
      BY <2>4, <3>2 DEF UpdateIdle
  <2>5. ASSUME NEW delay \in Delays, SetIdleTimeout(delay) PROVE PresenceTypeOK'
    <3>1. [p EXCEPT !.timeout = delay] \in Presence
      BY DEF Presence
    <3> QED
      BY <2>5, <3>1, ResetIdleWatchType DEF SetIdleTimeout
  <2>6. ASSUME NEW status \in Status, SetStatus(status) PROVE PresenceTypeOK'
    BY <2>6 DEF SetStatus, Presence
  <2>7. ASSUME NEW active \in BOOLEAN, ScreensaverChanges(active) PROVE PresenceTypeOK'
    <3>1. [p EXCEPT !.active = active] \in Presence
      BY DEF Presence
    <3> QED
      BY <2>7, <3>1, ResetIdleWatchType, SetSessionIdleType
         DEF ScreensaverChanges, ScreensaverActive
  <2>8. CASE ScreensaverAppears
    BY <2>8 DEF ScreensaverAppears
  <2>9. CASE ScreensaverLeaves
    <3>1. [p EXCEPT !.active = FALSE] \in Presence
      BY DEF Presence
    <3> QED
      BY <2>9, <3>1, ResetIdleWatchType, SetSessionIdleType DEF ScreensaverLeaves
  <2>10. CASE UNCHANGED vars
    BY <2>10 DEF vars
  <2> QED
    BY <2>1, <2>2, <2>3, <2>4, <2>5, <2>6, <2>7, <2>8, <2>9, <2>10 DEF Next
<1> QED
  BY <1>1, <1>2, PTL DEF Spec

-----------------------------------------------------------------------------

\* What the presence keeps to itself in every state: the watch is current, has
\* alarms under way only if it exists, and is not there while an inhibitor is;
\* the status last chosen is in the status or, during idleness, in the saved one.
NoStrayAlarms(q) == q.events # <<>> => q.watch > 0
Remembered(q, s) ==
  s # IDLE => /\ q.status # IDLE => q.status = s
              /\ q.status = IDLE => q.saved = s

PresenceInvariant ==
  /\ WatchIsCurrent
  /\ NoStrayAlarms(p)
  /\ p.enabled => inhibitors = {}
  /\ Remembered(p, chosen)

\* set_session_idle touches nothing but the two statuses
LEMMA SetSessionIdleKeeps ==
  ASSUME NEW q \in Presence, NEW isIdle \in BOOLEAN
  PROVE  /\ SetSessionIdle(q, isIdle).watch = q.watch
         /\ SetSessionIdle(q, isIdle).events = q.events
         /\ SetSessionIdle(q, isIdle).enabled = q.enabled
         /\ SetSessionIdle(q, isIdle).active = q.active
         /\ SetSessionIdle(q, isIdle).timeout = q.timeout
<1>1. CASE isIdle /\ q.status # IDLE
  BY <1>1 DEF SetSessionIdle, Presence
<1>2. CASE ~ isIdle /\ q.status = IDLE
  BY <1>2 DEF SetSessionIdle, Presence
<1>3. CASE ~ (isIdle /\ q.status # IDLE) /\ ~ (~ isIdle /\ q.status = IDLE)
  BY <1>3 DEF SetSessionIdle
<1> QED
  BY <1>1, <1>2, <1>3

\* ... and forgets no status that was chosen
LEMMA SetSessionIdleRemembers ==
  ASSUME NEW q \in Presence, NEW isIdle \in BOOLEAN, NEW s \in Status, Remembered(q, s)
  PROVE  Remembered(SetSessionIdle(q, isIdle), s)
<1>1. CASE isIdle /\ q.status # IDLE
  BY <1>1 DEF SetSessionIdle, Presence, Remembered
<1>2. CASE ~ isIdle /\ q.status = IDLE
  BY <1>2 DEF SetSessionIdle, Presence, Remembered
<1>3. CASE ~ (isIdle /\ q.status # IDLE) /\ ~ (~ isIdle /\ q.status = IDLE)
  BY <1>3 DEF SetSessionIdle
<1> QED
  BY <1>1, <1>2, <1>3

\* reset_idle_watch makes the watch current, with no alarm, whatever it was
LEMMA ResetIdleWatchResets ==
  ASSUME NEW q \in Presence
  PROVE  LET r == ResetIdleWatch(q)
         IN  /\ r.watch = IF r.enabled /\ ~ r.active THEN r.timeout ELSE 0
             /\ r.events = <<>>
             /\ r.enabled = q.enabled /\ r.active = q.active
             /\ r.status = q.status /\ r.saved = q.saved
BY DEF ResetIdleWatch, Presence

\* The invariant holds in every reachable state.
THEOREM PresenceInvariantHolds == Spec => []PresenceInvariant
<1>1. Init => PresenceInvariant
  BY DEF Init, PresenceInvariant, WatchIsCurrent, NoStrayAlarms, Remembered, AVAILABLE, IDLE
<1>2. PresenceTypeOK /\ PresenceInvariant /\ [Next]_vars => PresenceInvariant'
  <2> SUFFICES ASSUME PresenceTypeOK, PresenceInvariant, [Next]_vars
               PROVE  PresenceInvariant'
    OBVIOUS
  <2>0. /\ p \in Presence
        /\ p.events \in Seq(BOOLEAN)
        /\ p.watch \in Nat
        /\ chosen \in Status
        /\ away \in Nat
    BY PresenceAssumption DEF PresenceTypeOK, Presence, Delays
  <2>c. p.events # <<>> => Head(p.events) \in BOOLEAN /\ Tail(p.events) \in Seq(BOOLEAN)
    BY <2>0, NextAlarm
  <2>d. UserStaysAway => (UNCHANGED p \/ (p.watch > 0 /\ Alarm(TRUE)))
    <3>1. p.watch = away + 1 => p.watch > 0
      BY <2>0
    <3> QED
      BY <3>1 DEF UserStaysAway
  <2>e. UserReturns => (UNCHANGED p \/ (p.watch > 0 /\ Alarm(FALSE)))
    <3>1. p.watch \in 1..away => p.watch > 0
      BY <2>0
    <3> QED
      BY <3>1 DEF UserReturns
  <2> USE DEF PresenceInvariant, WatchIsCurrent, NoStrayAlarms
  \* An alarm is sent by a watch there is, and changes nothing else.
  <2>a. ASSUME NEW positive \in BOOLEAN, Alarm(positive), p.watch > 0,
               UNCHANGED <<inhibitors, chosen>>
        PROVE  PresenceInvariant'
    BY <2>a, <2>0 DEF Alarm, Presence, Remembered
  <2>b. UNCHANGED <<p, inhibitors, chosen>> => PresenceInvariant'
    BY DEF Remembered
  <2>1. CASE UserStaysAway
    BY <2>1, <2>a, <2>b, <2>d DEF UserStaysAway
  <2>2. CASE UserReturns
    BY <2>2, <2>a, <2>b, <2>e DEF UserReturns
  <2>3. CASE AlarmNotify
    <3> DEFINE q == [p EXCEPT !.events = Tail(p.events)]
    <3>1. /\ Head(p.events) \in BOOLEAN
          /\ Tail(p.events) \in Seq(BOOLEAN)
      BY <2>3, <2>c DEF AlarmNotify
    <3>2. q \in Presence /\ Remembered(q, chosen)
      BY <2>0, <3>1 DEF Presence, Remembered
    <3>3. /\ q.watch = p.watch /\ q.enabled = p.enabled
          /\ q.active = p.active /\ q.timeout = p.timeout
      BY <2>0 DEF Presence
    <3>4. p' = SetSessionIdle(q, Head(p.events)) /\ UNCHANGED <<inhibitors, chosen>>
      BY <2>3 DEF AlarmNotify
    <3>5. p.watch > 0
      BY <2>3 DEF AlarmNotify
    <3> HIDE DEF q
    <3>6. Remembered(p', chosen)
      BY <3>1, <3>2, <3>4, <2>0, SetSessionIdleRemembers
    <3>7. /\ p'.watch = p.watch /\ p'.enabled = p.enabled
          /\ p'.active = p.active /\ p'.timeout = p.timeout
      BY <3>1, <3>2, <3>3, <3>4, SetSessionIdleKeeps
    <3> QED
      BY <3>4, <3>5, <3>6, <3>7
  <2>4. CASE UpdateIdle
    <3> DEFINE q == [p EXCEPT !.enabled = (inhibitors' = {})]
    <3>1. /\ q \in Presence
          /\ q.enabled = (inhibitors' = {})
          /\ q.status = p.status /\ q.saved = p.saved
      BY <2>0 DEF Presence
    <3>2. UNCHANGED chosen
      BY <2>4 DEF UpdateIdle
    <3>3. CASE p.enabled = (inhibitors' = {})
      BY <2>4, <3>2, <3>3 DEF UpdateIdle, SetIdleEnabled, Remembered
    <3>4. CASE p.enabled # (inhibitors' = {})
      <4>1. p' = ResetIdleWatch(q)
        BY <2>4, <3>4 DEF UpdateIdle, SetIdleEnabled
      <4> QED
        BY <4>1, <3>1, <3>2, ResetIdleWatchResets DEF Remembered
    <3> QED
      BY <3>3, <3>4
  <2>5. ASSUME NEW delay \in Delays, SetIdleTimeout(delay) PROVE PresenceInvariant'
    <3> DEFINE q == [p EXCEPT !.timeout = delay]
    <3>1. /\ q \in Presence
          /\ q.enabled = p.enabled
          /\ q.status = p.status /\ q.saved = p.saved
      BY <2>0 DEF Presence
    <3>2. UNCHANGED <<inhibitors, chosen>>
      BY <2>5 DEF SetIdleTimeout
    <3>3. CASE delay = p.timeout
      BY <2>5, <3>2, <3>3 DEF SetIdleTimeout, Remembered
    <3>4. CASE delay # p.timeout
      <4>1. p' = ResetIdleWatch(q)
        BY <2>5, <3>4 DEF SetIdleTimeout
      <4> QED
        BY <4>1, <3>1, <3>2, ResetIdleWatchResets DEF Remembered
    <3> QED
      BY <3>3, <3>4
  <2>6. ASSUME NEW status \in Status, SetStatus(status) PROVE PresenceInvariant'
    BY <2>6, <2>0 DEF SetStatus, Presence, Remembered
  <2>7. ASSUME NEW active \in BOOLEAN, ScreensaverChanges(active) PROVE PresenceInvariant'
    <3> DEFINE q == [p EXCEPT !.active = active]
               r == ResetIdleWatch(q)
    <3>1. /\ q \in Presence
          /\ q.enabled = p.enabled
          /\ q.status = p.status /\ q.saved = p.saved
      BY <2>0 DEF Presence
    <3>2. UNCHANGED <<inhibitors, chosen>>
      BY <2>7 DEF ScreensaverChanges
    <3>3. CASE p.active = active
      BY <2>7, <3>2, <3>3 DEF ScreensaverChanges, ScreensaverActive, Remembered
    <3>4. CASE p.active # active
      <4>1. p' = SetSessionIdle(r, active)
        BY <2>7, <3>4 DEF ScreensaverChanges, ScreensaverActive
      <4>2. r \in Presence
        BY <3>1, ResetIdleWatchType
      <4>3. Remembered(r, chosen)
        BY <3>1, ResetIdleWatchResets DEF Remembered
      <4>4. /\ r.watch = IF r.enabled /\ ~ r.active THEN r.timeout ELSE 0
            /\ r.events = <<>>
            /\ r.enabled = p.enabled
        BY <3>1, ResetIdleWatchResets
      <4> HIDE DEF r, q
      <4>5. Remembered(p', chosen)
        BY <4>1, <4>2, <4>3, <2>0, SetSessionIdleRemembers
      <4>6. /\ p'.watch = r.watch /\ p'.events = r.events /\ p'.enabled = r.enabled
            /\ p'.active = r.active /\ p'.timeout = r.timeout
        BY <4>1, <4>2, SetSessionIdleKeeps
      <4> QED
        BY <4>4, <4>5, <4>6, <3>2
    <3> QED
      BY <3>3, <3>4
  <2>8. CASE ScreensaverAppears
    BY <2>8, <2>b DEF ScreensaverAppears
  <2>9. CASE ScreensaverLeaves
    <3> DEFINE q == [p EXCEPT !.active = FALSE]
               r == SetSessionIdle(q, FALSE)
    <3>1. q \in Presence /\ q.enabled = p.enabled /\ Remembered(q, chosen)
      BY <2>0 DEF Presence, Remembered
    <3>2. p' = ResetIdleWatch(r) /\ UNCHANGED <<inhibitors, chosen>>
      BY <2>9 DEF ScreensaverLeaves
    <3> HIDE DEF q
    <3>3. r \in Presence /\ Remembered(r, chosen) /\ r.enabled = p.enabled
      BY <3>1, <2>0, SetSessionIdleType, SetSessionIdleRemembers, SetSessionIdleKeeps
    <3> HIDE DEF r
    <3> QED
      BY <3>2, <3>3, ResetIdleWatchResets DEF Remembered
  <2>10. CASE UNCHANGED vars
    BY <2>10, <2>b DEF vars
  <2> QED
    BY <2>1, <2>2, <2>3, <2>4, <2>5, <2>6, <2>7, <2>8, <2>9, <2>10 DEF Next
<1> QED
  BY <1>1, <1>2, PresenceTypeCorrect, PTL DEF Spec

\* There is a watch of the set delay exactly when idleness is to be watched.
THEOREM WatchIsCurrentHolds == Spec => []WatchIsCurrent
<1>1. PresenceInvariant => WatchIsCurrent
  BY DEF PresenceInvariant
<1> QED
  BY <1>1, PresenceInvariantHolds, PTL

\* The status that a caller has set outlives every idleness.
THEOREM ChosenStatusReturnsHolds == Spec => []ChosenStatusReturns
<1>1. PresenceInvariant => ChosenStatusReturns
  BY DEF PresenceInvariant, Remembered, ChosenStatusReturns
<1> QED
  BY <1>1, PresenceInvariantHolds, PTL

\* No alarm marks a session idle while an inhibitor of idleness is there.
THEOREM InhibitedIsNotMarkedHolds == Spec => InhibitedIsNotMarked
<1> DEFINE Marks == AlarmNotify /\ p.status # IDLE /\ p'.status = IDLE
<1>1. PresenceInvariant => (Marks => inhibitors = {})
  BY DEF PresenceInvariant, WatchIsCurrent, NoStrayAlarms, AlarmNotify
<1>2. PresenceInvariant /\ [Next]_vars => [Marks => inhibitors = {}]_vars
  BY <1>1
<1> QED
  BY <1>2, PresenceInvariantHolds, PTL DEF Spec, InhibitedIsNotMarked
=============================================================================
