------------------------- MODULE XSMPSessionProofs -------------------------
(***************************************************************************)
(* The two ends of an XSMP connection, proved whatever the manager does to *)
(* its other clients and however many it has.                              *)
(*                                                                         *)
(* They keep in step.  InStep is not inductive: Conversation says where    *)
(* the only SaveYourself under way is, at the manager, on its way, at the  *)
(* application or answered.  The manager may say Die at any time; what it  *)
(* says after that is not heard.                                           *)
(*                                                                         *)
(* The manager does not wait in vain (NotWaitingInVain).  HeedInv ties the *)
(* conversation to the manager's lists: what it waits for from X it has    *)
(* asked.  Of the manager itself it needs SafetyInvariant, which holds     *)
(* with X too, for its steps are those of SessionManager.                  *)
(*                                                                         *)
(* Nobody but the application agrees to the end (ConsentIsReal).  ConsInv  *)
(* says which SaveYourself asks the manager's question.                    *)
(***************************************************************************)
EXTENDS XSMPSession, SessionManagerSafety

\* Of a sequence of messages: none is such a message, one at most is.
NoneOf(out, msg) == \A k \in 1..Len(out) : out[k].msg # msg
OneOf(out, msg) == \A i, k \in 1..Len(out) : out[i].msg = msg /\ out[k].msg = msg => i = k

\* Every message of one kind comes before every message of the other.
Before(out, first, msg) ==
  \A i, k \in 1..Len(out) : out[i].msg = first /\ out[k].msg = msg => i < k

\* What is under way to the manager: nothing that is about a SaveYourself, nothing
\* but the request to interact, the answer.
Silent(e) ==
  /\ NoneOf(e.out, "InteractRequest") /\ NoneOf(e.out, "InteractDone")
  /\ NoneOf(e.out, "SaveYourselfDone")
Requested(e) ==
  /\ OneOf(e.out, "InteractRequest") /\ NoneOf(e.out, "InteractDone")
  /\ NoneOf(e.out, "SaveYourselfDone")
Answered(e) ==
  /\ NoneOf(e.out, "InteractRequest") /\ Before(e.out, "InteractDone", "SaveYourselfDone")
  /\ OneOf(e.out, "SaveYourselfDone") /\ ~ NoneOf(e.out, "SaveYourselfDone")

\* What is to be heard by the application
Nothing(s) == Len(s.out) = 0
Only(s, msg) == Len(s.out) = 1 /\ s.out[1].msg = msg

\* Where the SaveYourself is that the manager waits for
Conversation(s, e) ==
  \/ /\ s.current = "none" /\ Nothing(s)
     /\ e.state = "idle" /\ Silent(e)
  \/ /\ s.current = "none" /\ Only(s, "SaveComplete")
     /\ e.state = "save-yourself-done" /\ Silent(e)
  \/ /\ s.current # "none" /\ Only(s, "SaveYourself")
     /\ e.state = "idle" /\ Silent(e)
  \/ /\ s.current # "none" /\ Len(s.out) = 2
     /\ s.out[1].msg = "SaveComplete" /\ s.out[2].msg = "SaveYourself"
     /\ e.state = "save-yourself-done" /\ Silent(e)
  \/ /\ s.current # "none" /\ Nothing(s)
     /\ e.state = "interact-request" /\ e.waits > 0 /\ Requested(e)
  \/ /\ s.current # "none" /\ Only(s, "Interact")
     /\ e.state = "interact-request" /\ e.waits > 0 /\ Silent(e)
  \/ /\ s.current # "none" /\ Nothing(s)
     /\ e.state = "interact" /\ Silent(e)
  \/ /\ s.current # "none" /\ Nothing(s)
     /\ e.state = "save-yourself-done" /\ Answered(e)

\* The application is in the state in which it expects the message.
Expects(e, msg) ==
  /\ msg = "SaveYourself" => e.state = "idle"
  /\ msg = "SaveComplete" => e.state = "save-yourself-done"
  /\ msg = "Interact"     => e.state = "interact-request"
  /\ msg # "ShutdownCancelled"

\* Before it has heard a Die it hears only what it expects.
Dying(s, e) ==
  /\ e.state \in {"idle", "interact-request", "interact", "save-yourself-done"}
  /\ \/ Len(s.out) >= 1 /\ s.out[1].msg = "Die"
     \/ Len(s.out) >= 2 /\ s.out[2].msg = "Die" /\ Expects(e, s.out[1].msg)
     \/ /\ Len(s.out) >= 3 /\ s.out[3].msg = "Die"
        /\ s.out[1].msg = "SaveComplete" /\ s.out[2].msg = "SaveYourself"
        /\ e.state = "save-yourself-done"

InTouch(s, e) == Conversation(s, e) \/ Dying(s, e)

ServerFields == {"current", "next", "allow", "out", "saving", "askable", "cancellable",
                 "interacting"}
EggFields == {"state", "connected", "initial", "expecting", "needQuit", "shuttingDown", "quit",
              "quitCancelled", "saveMyself", "idle", "ending", "out", "shutdown", "waits"}

ServerOK(s) ==
  /\ DOMAIN s = ServerFields
  /\ s.next \in Csm!SaveTypes /\ s.allow \in BOOLEAN
  /\ s.out \in Seq(Csm!ToClient)

EggOK(e) == DOMAIN e = EggFields /\ e.out \in Seq(Egg!ToManager)

\* While no end is cancelled nothing is put off until the application has answered.
Prompt(e) ==
  e.waits \in Nat /\ e.quit = FALSE /\ e.quitCancelled = FALSE /\ e.saveMyself = FALSE

\* libSM takes an answer to the SaveYourself the manager waits for.
Saving(s) == s.current # "none" => s.saving

\* A SaveYourself is not done, or queued.
Busy(s) == s.current # "none" \/ s.next # "none"

\* The manager has not told the client to end.
Unended(s) == NoneOf(s.out, "Die")

TalkInv ==
  /\ cancels \in Nat
  /\ cancels = 0 => m.told[X] # "cancel"
  /\ ServerOK(server)
  /\ EggOK(egg)
  /\ cancels = 0 /\ egg.connected => Prompt(egg) /\ Saving(server) /\ InTouch(server, egg)

-----------------------------------------------------------------------------
(* Sequences of messages *)

LEMMA NoneOfAppend ==
  ASSUME NEW S, NEW out \in Seq(S), NEW v \in S, NEW msg, NoneOf(out, msg), v.msg # msg
  PROVE  NoneOf(Append(out, v), msg)
BY DEF NoneOf

LEMMA OneOfAppend ==
  ASSUME NEW S, NEW out \in Seq(S), NEW v \in S, NEW msg,
         NoneOf(out, msg) \/ (OneOf(out, msg) /\ v.msg # msg)
  PROVE  OneOf(Append(out, v), msg)
BY DEF NoneOf, OneOf

LEMMA AppendToNothing ==
  ASSUME NEW S, NEW out \in Seq(S), Len(out) = 0, NEW v \in S
  PROVE  Len(Append(out, v)) = 1 /\ Append(out, v)[1] = v
OBVIOUS

LEMMA SomeOfAppend ==
  ASSUME NEW S, NEW out \in Seq(S), NEW v \in S, NEW msg,
         ~ NoneOf(out, msg) \/ v.msg = msg
  PROVE  ~ NoneOf(Append(out, v), msg)
<1> DEFINE all == Append(out, v)
<1>1. /\ Len(out) \in Nat /\ Len(all) = Len(out) + 1 /\ all[Len(out) + 1] = v
      /\ \A k \in 1..Len(out) : all[k] = out[k]
  OBVIOUS
<1> HIDE DEF all
<1> QED BY <1>1 DEF NoneOf, all

LEMMA BeforeAppend ==
  ASSUME NEW S, NEW out \in Seq(S), NEW v \in S, NEW first, NEW msg, v.msg # first,
         Before(out, first, msg) \/ NoneOf(out, msg)
  PROVE  Before(Append(out, v), first, msg)
<1> DEFINE all == Append(out, v)
<1>1. /\ Len(out) \in Nat /\ Len(all) = Len(out) + 1 /\ all[Len(out) + 1] = v
      /\ \A k \in 1..Len(out) : all[k] = out[k]
  OBVIOUS
<1> HIDE DEF all
<1> QED BY <1>1 DEF NoneOf, Before, all

LEMMA TailOf ==
  ASSUME NEW S, NEW out \in Seq(S), out # <<>>, NEW msg, NEW first
  PROVE  /\ Tail(out) \in Seq(S)
         /\ NoneOf(out, msg) => NoneOf(Tail(out), msg) /\ Head(out).msg # msg
         /\ OneOf(out, msg) => OneOf(Tail(out), msg)
         /\ OneOf(out, msg) /\ Head(out).msg = msg => NoneOf(Tail(out), msg)
         /\ ~ NoneOf(out, msg) /\ Head(out).msg # msg => ~ NoneOf(Tail(out), msg)
         /\ Before(out, first, msg) => Before(Tail(out), first, msg)
         /\ Before(out, first, msg) /\ Head(out).msg = msg => NoneOf(out, first)
<1> DEFINE rest == Tail(out)
<1>1. /\ Len(out) \in Nat \ {0} /\ rest \in Seq(S) /\ Len(rest) = Len(out) - 1
      /\ Head(out) = out[1] /\ \A k \in 1..Len(rest) : rest[k] = out[k + 1]
  OBVIOUS
<1>2. /\ NoneOf(out, msg) => NoneOf(rest, msg) /\ Head(out).msg # msg
      /\ OneOf(out, msg) => OneOf(rest, msg)
      /\ OneOf(out, msg) /\ Head(out).msg = msg => NoneOf(rest, msg)
  BY DEF NoneOf, OneOf
<1> HIDE DEF rest
<1>3. ASSUME ~ NoneOf(out, msg), Head(out).msg # msg PROVE ~ NoneOf(rest, msg)
  <2>1. PICK k \in 1..Len(out) : out[k].msg = msg
    BY <1>3 DEF NoneOf
  <2>2. k - 1 \in 1..Len(rest) /\ rest[k - 1] = out[k]
    BY <1>1, <1>3, <2>1
  <2> QED BY <2>1, <2>2 DEF NoneOf
<1>4. Before(out, first, msg) => Before(rest, first, msg)
  BY <1>1 DEF Before
<1>5. Before(out, first, msg) /\ Head(out).msg = msg => NoneOf(out, first)
  BY <1>1 DEF Before, NoneOf
<1> QED BY <1>1, <1>2, <1>3, <1>4, <1>5 DEF rest

LEMMA MessageToManager ==
  ASSUME NEW v \in Egg!ToManager
  PROVE  v.msg \in {"InteractRequest", "InteractDone", "SaveYourselfDone",
                    "SaveYourselfRequest"}
BY DEF Egg!ToManager, Egg!InteractRequest, Egg!InteractDone, Egg!SaveYourselfDone,
       Egg!SaveYourselfRequest

-----------------------------------------------------------------------------
(* What the manager says without being answered *)

\* To the conversation, t is s or s has started a SaveYourself or said Die.
Adds(s, t) ==
  /\ ServerOK(t)
  /\ Saving(s) => Saving(t)
  /\ Busy(s) => Busy(t)
  /\ \/ t.current = s.current /\ t.out = s.out
     \/ t.current = s.current /\ t.out = Append(s.out, Csm!Die)
     \/ /\ s.current = "none" /\ t.current # "none"
        /\ \E v \in Csm!ToClient : v.msg = "SaveYourself" /\ t.out = Append(s.out, v)

LEMMA SaveYourselfIsMessage ==
  ASSUME NEW type \in Csm!SaveTypes, type # "none", NEW ask \in BOOLEAN
  PROVE  Csm!SaveYourself(type, ask) \in Csm!ToClient
         /\ Csm!SaveYourself(type, ask).msg = "SaveYourself"
BY DEF Csm!ToClient, Csm!SaveYourself

LEMMA SendSaves ==
  ASSUME NEW s, ServerOK(s), NEW type \in Csm!SaveTypes, NEW ask \in BOOLEAN
  PROVE  LET t == Csm!SendSaveYourself(s, type, ask)
         IN  /\ ServerOK(t) /\ t.current = s.current /\ t.next = s.next /\ Saving(t)
             /\ type = "none" => t.out = s.out
             /\ type # "none" =>
                  \E v \in Csm!ToClient : v.msg = "SaveYourself" /\ t.out = Append(s.out, v)
<1>1. CASE type = "none"
  BY <1>1 DEF ServerOK, ServerFields, Saving, Csm!SendSaveYourself
<1>2. CASE type # "none"
  <2>1. Csm!SaveYourself(type, ask) \in Csm!ToClient
        /\ Csm!SaveYourself(type, ask).msg = "SaveYourself"
    BY <1>2, SaveYourselfIsMessage
  <2> QED
    BY <1>2, <2>1 DEF ServerOK, ServerFields, Saving, Csm!SendSaveYourself, Csm!Send
<1> QED BY <1>1, <1>2

LEMMA UnendedAppend ==
  ASSUME NEW s, ServerOK(s), NEW t, NEW v \in Csm!ToClient, t.out = Append(s.out, v),
         v.msg # "Die", Unended(s)
  PROVE  Unended(t)
<1> DEFINE out == s.out
<1>1. out \in Seq(Csm!ToClient) /\ NoneOf(out, "Die") /\ t.out = Append(out, v)
  BY DEF ServerOK, Unended
<1> HIDE DEF out
<1>2. NoneOf(Append(out, v), "Die")
  BY <1>1, NoneOfAppend
<1> QED BY <1>1, <1>2 DEF Unended

LEMMA UnendedTail ==
  ASSUME NEW s, ServerOK(s), NEW t, s.out # <<>>, t.out = Tail(s.out), Unended(s)
  PROVE  Unended(t)
<1> DEFINE out == s.out
<1>1. /\ out \in Seq(Csm!ToClient) /\ NoneOf(out, "Die") /\ out # <<>>
      /\ t.out = Tail(out)
  BY DEF ServerOK, Unended
<1> HIDE DEF out
<1>2. NoneOf(Tail(out), "Die")
  BY <1>1, TailOf
<1> QED BY <1>1, <1>2 DEF Unended

LEMMA DoSaveAdds ==
  ASSUME NEW s, ServerOK(s), NEW type \in Csm!SaveTypes, NEW ask \in BOOLEAN
  PROVE  LET t == Csm!DoSaveYourself(s, type, ask)
         IN  Adds(s, t) /\ (type # "none" => Busy(t)) /\ (Unended(s) => Unended(t))
<1>1. CASE s.next # "none" \/ s.current # "none"
  BY <1>1 DEF Adds, Saving, Busy, Unended, ServerOK, ServerFields, Csm!DoSaveYourself
<1>2. CASE s.next = "none" /\ s.current = "none"
  <2> DEFINE r == [s EXCEPT !.current = type, !.allow = FALSE]
             asks == type # "local" /\ ask
  <2>1. ServerOK(r) /\ r.current = type /\ r.next = s.next /\ r.out = s.out
    BY DEF ServerOK, ServerFields
  <2>2. asks \in BOOLEAN
    OBVIOUS
  <2>3. Csm!DoSaveYourself(s, type, ask) = Csm!SendSaveYourself(r, type, asks)
    BY <1>2 DEF Csm!DoSaveYourself
  <2> DEFINE t == Csm!SendSaveYourself(r, type, asks)
  <2> HIDE DEF asks, r
  <2>4. /\ ServerOK(t) /\ t.current = type /\ t.next = s.next /\ Saving(t)
        /\ type = "none" => t.out = r.out
        /\ type # "none" =>
             \E v \in Csm!ToClient : v.msg = "SaveYourself" /\ t.out = Append(r.out, v)
    BY <2>1, <2>2, SendSaves
  <2> HIDE DEF t
  <2>5. Adds(s, t) /\ (type # "none" => Busy(t))
    BY <1>2, <2>1, <2>4 DEF Adds, Busy
  <2>6. Unended(s) => Unended(t)
    <3>1. CASE type = "none"
      BY <2>1, <2>4, <3>1 DEF Unended
    <3>2. CASE type # "none"
      <4>1. PICK v \in Csm!ToClient : v.msg = "SaveYourself" /\ t.out = Append(r.out, v)
        BY <2>4, <3>2
      <4>2. v.msg # "Die" /\ t.out = Append(s.out, v)
        BY <2>1, <4>1
      <4> QED BY <4>2, UnendedAppend
    <3> QED BY <3>1, <3>2
  <2> QED BY <2>3, <2>5, <2>6 DEF t
<1> QED BY <1>1, <1>2

LEMMA HearAdds ==
  ASSUME NEW s, ServerOK(s), NEW msg, msg # "cancel",
         NEW forced \in BOOLEAN, NEW save
  PROVE  Adds(s, Csm!Hear(s, msg, forced, save))
<1>1. CASE msg = "query"
  BY <1>1, DoSaveAdds DEF Csm!Hear, Csm!SaveTypes
<1>2. CASE msg = "end"
  BY <1>2, DoSaveAdds DEF Csm!Hear, Csm!SaveTypes
<1>3. CASE msg = "stop"
  <2>1. Csm!Hear(s, msg, forced, save) = Csm!Send(s, Csm!Die)
    BY <1>3 DEF Csm!Hear
  <2>2. Csm!Die \in Csm!ToClient
    BY DEF Csm!ToClient
  <2> QED BY <2>1, <2>2 DEF Csm!Send, Adds, Saving, Busy, ServerOK, ServerFields
<1>4. CASE msg \notin {"query", "end", "stop"}
  BY <1>4 DEF Csm!Hear, Adds
<1> QED BY <1>1, <1>2, <1>3, <1>4

LEMMA ToldAdds ==
  ASSUME NEW s, ServerOK(s), m'.told[X] # "cancel"
  PROVE  Adds(s, Told(s))
<1>1. Adds(s, s)
  BY DEF Adds
<1>2. (m'.mode = "force") \in BOOLEAN
  OBVIOUS
<1> QED BY <1>1, <1>2, HearAdds DEF Told

LEMMA CancelIsServer ==
  ASSUME NEW s, ServerOK(s)
  PROVE  ServerOK(Csm!CancelEndSessionOfClient(s))
BY DEF ServerOK, ServerFields, Csm!CancelEndSessionOfClient, Csm!Send, Csm!ToClient,
       Csm!SaveTypes

LEMMA ToldIsServer ==
  ASSUME NEW s, ServerOK(s)
  PROVE  ServerOK(Told(s))
<1>1. CASE m'.told[X] # "cancel"
  BY <1>1, ToldAdds DEF Adds
<1>2. CASE m'.told[X] = "cancel"
  BY <1>2, CancelIsServer DEF Told, Csm!Hear
<1> QED BY <1>1, <1>2

LEMMA StartQueuedAdds ==
  ASSUME NEW s, ServerOK(s)
  PROVE  LET t == Csm!StartQueued(s)
         IN  Adds(s, t) /\ (Unended(s) => Unended(t))
<1>1. CASE s.next = "global"
  BY <1>1 DEF Adds, Csm!StartQueued
<1>2. CASE s.next # "global"
  <2> DEFINE r == [s EXCEPT !.next = "none", !.allow = TRUE]
  <2>1. ServerOK(r) /\ r.current = s.current /\ r.out = s.out /\ (Saving(s) => Saving(r))
    BY DEF ServerOK, ServerFields, Saving, Csm!SaveTypes
  <2>2. Csm!StartQueued(s) = Csm!DoSaveYourself(r, s.next, s.allow)
    BY <1>2 DEF Csm!StartQueued
  <2>3. s.next \in Csm!SaveTypes /\ s.allow \in BOOLEAN
    BY DEF ServerOK
  <2> HIDE DEF r
  <2> DEFINE t == Csm!DoSaveYourself(r, s.next, s.allow)
  <2>4. Adds(r, t) /\ (s.next # "none" => Busy(t)) /\ (Unended(r) => Unended(t))
    BY <2>1, <2>3, DoSaveAdds
  <2> HIDE DEF t
  <2>5. Adds(s, t) /\ (Unended(s) => Unended(t))
    BY <2>1, <2>4 DEF Adds, Saving, Busy, Unended
  <2> QED BY <2>2, <2>5 DEF t
<1> QED BY <1>1, <1>2

\* What the manager says after a Die is not heard.
LEMMA DyingStays ==
  ASSUME NEW s, NEW t, NEW e, s.out \in Seq(Csm!ToClient), Dying(s, e),
         NEW v \in Csm!ToClient, t.out = s.out \/ t.out = Append(s.out, v)
  PROVE  Dying(t, e)
<1>1. CASE t.out = s.out
  BY <1>1 DEF Dying
<1>2. CASE t.out = Append(s.out, v)
  <2>1. \A k \in 1..Len(s.out) : t.out[k] = s.out[k]
    BY <1>2
  <2>2. Len(t.out) = Len(s.out) + 1 /\ Len(s.out) \in Nat
    BY <1>2
  <2> QED BY <2>1, <2>2 DEF Dying
<1> QED BY <1>1, <1>2

\* Whatever the manager adds, the application will hear it when it expects it.
LEMMA InTouchAdds ==
  ASSUME NEW s, NEW t, NEW e, ServerOK(s), Adds(s, t), InTouch(s, e)
  PROVE  InTouch(t, e)
<1>1. CASE t.current = s.current /\ t.out = s.out
  BY <1>1 DEF InTouch, Conversation, Dying, Only, Nothing
<1>2. CASE t.current = s.current /\ t.out = Append(s.out, Csm!Die)
  <2>1. Csm!Die.msg = "Die" /\ s.out \in Seq(Csm!ToClient) /\ Csm!Die \in Csm!ToClient
    BY DEF Csm!Die, ServerOK, Csm!ToClient
  <2>2. CASE Dying(s, e)
    BY <1>2, <2>1, <2>2, DyingStays DEF InTouch
  <2>3. CASE Conversation(s, e)
    BY <1>2, <2>1, <2>3 DEF Conversation, Dying, InTouch, Only, Nothing, Expects
  <2> QED BY <2>2, <2>3 DEF InTouch
<1>3. CASE s.current = "none" /\ t.current # "none"
           /\ \E v \in Csm!ToClient : v.msg = "SaveYourself" /\ t.out = Append(s.out, v)
  <2>1. PICK v \in Csm!ToClient : v.msg = "SaveYourself" /\ t.out = Append(s.out, v)
    BY <1>3
  <2>2. s.out \in Seq(Csm!ToClient)
    BY DEF ServerOK
  <2>3. CASE Dying(s, e)
    BY <2>1, <2>2, <2>3, DyingStays DEF InTouch
  <2>4. CASE Conversation(s, e)
    BY <1>3, <2>1, <2>2, <2>4 DEF Conversation, InTouch, Only, Nothing
  <2> QED BY <2>3, <2>4 DEF InTouch
<1> QED BY <1>1, <1>2, <1>3 DEF Adds

-----------------------------------------------------------------------------
(* What the application does to the conversation *)

\* The application refuses: the next answer under way to the manager cancels the end.
Refusal == Egg!InteractDone(TRUE)
Refusing(e) ==
  \E i \in 1..Len(e.out) :
    /\ e.out[i] = Refusal
    /\ \A k \in 1..(i - 1) : e.out[k].msg = "SaveYourselfRequest"

\* t is e, but for what it has said and what is no part of the conversation.
Still(e, t) ==
  /\ EggOK(t)
  /\ t.state = e.state /\ t.connected = e.connected /\ t.waits = e.waits
  /\ Prompt(e) => Prompt(t)

\* To the conversation t is e: it has said nothing that is part of it.
SameTalk(e, t) ==
  /\ Still(e, t)
  /\ Silent(e) => Silent(t)
  /\ Requested(e) => Requested(t)
  /\ Answered(e) => Answered(t)
  /\ Refusing(e) => Refusing(t)

LEMMA InTouchSameTalk ==
  ASSUME NEW s, NEW e, NEW t, SameTalk(e, t), InTouch(s, e)
  PROVE  InTouch(s, t)
BY DEF InTouch, Conversation, Dying, Expects, SameTalk, Still

LEMMA SameTalkTwice ==
  ASSUME NEW e, NEW t, NEW u, SameTalk(e, t), SameTalk(t, u)
  PROVE  SameTalk(e, u)
BY DEF SameTalk, Still

\* Nothing is said at all.
LEMMA UnsaidIsSameTalk ==
  ASSUME NEW e, NEW t, Still(e, t), t.out = e.out
  PROVE  SameTalk(e, t)
BY DEF SameTalk, Silent, Requested, Answered, Refusing

\* What a further message makes of what the application has said
LEMMA SaidTalk ==
  ASSUME NEW e, EggOK(e), NEW t, NEW v \in Egg!ToManager, t.out = Append(e.out, v)
  PROVE  /\ v.msg = "SaveYourselfRequest" =>
              /\ Silent(e) => Silent(t)
              /\ Requested(e) => Requested(t)
              /\ Answered(e) => Answered(t)
         /\ v.msg = "InteractRequest" /\ Silent(e) => Requested(t)
         /\ v.msg = "SaveYourselfDone" /\ NoneOf(e.out, "InteractRequest")
              /\ NoneOf(e.out, "SaveYourselfDone") => Answered(t)
         /\ Refusing(e) => Refusing(t)
         /\ v = Refusal /\ Silent(e) => Refusing(t)
<1>1. e.out \in Seq(Egg!ToManager)
  BY DEF EggOK
<1>2. /\ \A msg : v.msg # msg /\ NoneOf(e.out, msg) => NoneOf(t.out, msg)
      /\ \A msg : NoneOf(e.out, msg) \/ (OneOf(e.out, msg) /\ v.msg # msg) => OneOf(t.out, msg)
      /\ \A msg : ~ NoneOf(e.out, msg) \/ v.msg = msg => ~ NoneOf(t.out, msg)
      /\ \A first, msg : v.msg # first /\ (Before(e.out, first, msg) \/ NoneOf(e.out, msg))
                           => Before(t.out, first, msg)
  BY <1>1, NoneOfAppend, OneOfAppend, SomeOfAppend, BeforeAppend
<1>3. v.msg = "SaveYourselfRequest" =>
        /\ Silent(e) => Silent(t)
        /\ Requested(e) => Requested(t)
        /\ Answered(e) => Answered(t)
  BY <1>2 DEF Silent, Requested, Answered
<1>4. v.msg = "InteractRequest" /\ Silent(e) => Requested(t)
  BY <1>2 DEF Silent, Requested
<1>5. v.msg = "SaveYourselfDone" /\ NoneOf(e.out, "InteractRequest")
        /\ NoneOf(e.out, "SaveYourselfDone") => Answered(t)
  BY <1>2 DEF Answered
<1>6. /\ Len(e.out) \in Nat /\ Len(t.out) = Len(e.out) + 1 /\ t.out[Len(e.out) + 1] = v
      /\ \A k \in 1..Len(e.out) : t.out[k] = e.out[k]
  BY <1>1
<1>7. Refusing(e) => Refusing(t)
  BY <1>6 DEF Refusing
<1>8. ASSUME v = Refusal, Silent(e) PROVE Refusing(t)
  <2>1. \A k \in 1..Len(e.out) : e.out[k] \in Egg!ToManager
    BY <1>1
  <2>2. \A k \in 1..Len(e.out) : e.out[k].msg = "SaveYourselfRequest"
    BY <1>8, <2>1, MessageToManager DEF Silent, NoneOf
  <2> QED BY <1>6, <1>8, <2>2 DEF Refusing
<1> QED BY <1>3, <1>4, <1>5, <1>7, <1>8

\* What is left of it when the manager takes the next message
LEMMA TakenTalk ==
  ASSUME NEW e, EggOK(e), e.out # <<>>
  PROVE  LET t == [e EXCEPT !.out = Tail(@)]
         IN  /\ Still(e, t) /\ t.out = Tail(e.out) /\ Head(e.out) \in Egg!ToManager
             /\ Silent(e) => Silent(t) /\ Head(e.out).msg = "SaveYourselfRequest"
             /\ Requested(e) =>
                  IF Head(e.out).msg = "InteractRequest" THEN Silent(t)
                  ELSE Requested(t) /\ Head(e.out).msg = "SaveYourselfRequest"
             /\ Answered(e) =>
                  IF Head(e.out).msg = "SaveYourselfDone" THEN Silent(t)
                  ELSE Answered(t) /\ Head(e.out).msg # "InteractRequest"
             /\ Refusing(e) /\ Head(e.out) # Refusal =>
                  Refusing(t) /\ Head(e.out).msg = "SaveYourselfRequest"
<1> DEFINE t == [e EXCEPT !.out = Tail(@)]
           v == Head(e.out)
<1>1. Still(e, t) /\ t.out = Tail(e.out) /\ e.out \in Seq(Egg!ToManager)
  BY DEF Still, Prompt, EggOK, EggFields
<1>2. v \in Egg!ToManager
  BY <1>1
<1>3. v.msg \in {"InteractRequest", "InteractDone", "SaveYourselfDone", "SaveYourselfRequest"}
  BY <1>2, MessageToManager
<1> HIDE DEF t, v
<1>4. ASSUME NEW msg, NEW first
      PROVE
        /\ NoneOf(e.out, msg) => NoneOf(t.out, msg) /\ v.msg # msg
        /\ OneOf(e.out, msg) => OneOf(t.out, msg)
        /\ OneOf(e.out, msg) /\ v.msg = msg => NoneOf(t.out, msg)
        /\ ~ NoneOf(e.out, msg) /\ v.msg # msg => ~ NoneOf(t.out, msg)
        /\ Before(e.out, first, msg) => Before(t.out, first, msg)
        /\ Before(e.out, first, msg) /\ v.msg = msg => NoneOf(e.out, first)
  <2> DEFINE out == e.out
  <2>1. out \in Seq(Egg!ToManager) /\ out # <<>> /\ v = Head(out) /\ t.out = Tail(out)
    BY <1>1 DEF v
  <2> HIDE DEF out
  <2>2. /\ NoneOf(out, msg) => NoneOf(Tail(out), msg) /\ Head(out).msg # msg
        /\ OneOf(out, msg) => OneOf(Tail(out), msg)
        /\ OneOf(out, msg) /\ Head(out).msg = msg => NoneOf(Tail(out), msg)
        /\ ~ NoneOf(out, msg) /\ Head(out).msg # msg => ~ NoneOf(Tail(out), msg)
        /\ Before(out, first, msg) => Before(Tail(out), first, msg)
        /\ Before(out, first, msg) /\ Head(out).msg = msg => NoneOf(out, first)
    BY <2>1, TailOf
  <2> QED BY <2>1, <2>2 DEF out
<1>5. Silent(e) => Silent(t) /\ v.msg = "SaveYourselfRequest"
  BY <1>3, <1>4 DEF Silent
<1>6. Requested(e) => IF v.msg = "InteractRequest" THEN Silent(t)
                      ELSE Requested(t) /\ v.msg = "SaveYourselfRequest"
  BY <1>3, <1>4 DEF Requested, Silent
<1>7. Answered(e) => IF v.msg = "SaveYourselfDone" THEN Silent(t)
                     ELSE Answered(t) /\ v.msg # "InteractRequest"
  BY <1>3, <1>4 DEF Answered, Silent
<1>8. ASSUME Refusing(e), v # Refusal
      PROVE  Refusing(t) /\ v.msg = "SaveYourselfRequest"
  <2>1. PICK i \in 1..Len(e.out) :
          /\ e.out[i] = Refusal
          /\ \A k \in 1..(i - 1) : e.out[k].msg = "SaveYourselfRequest"
    BY <1>8 DEF Refusing
  <2>2. /\ Len(e.out) \in Nat \ {0} /\ Len(t.out) = Len(e.out) - 1 /\ v = e.out[1]
        /\ \A k \in 1..Len(t.out) : t.out[k] = e.out[k + 1]
    BY <1>1 DEF v
  <2>3. i # 1
    BY <1>8, <2>1, <2>2
  <2>4. 1 \in 1..(i - 1)
    BY <2>3
  <2>5. v.msg = "SaveYourselfRequest"
    BY <2>1, <2>2, <2>4
  <2>6. i - 1 \in 1..Len(t.out) /\ t.out[i - 1] = e.out[i]
    BY <2>2, <2>3
  <2>7. \A k \in 1..(i - 2) : t.out[k].msg = "SaveYourselfRequest"
    <3>1. \A k \in 1..(i - 2) : k + 1 \in 1..(i - 1) /\ k \in 1..Len(t.out)
      BY <2>2
    <3> QED BY <2>1, <2>2, <3>1
  <2>8. \A k \in 1..(i - 1 - 1) : t.out[k].msg = "SaveYourselfRequest"
    BY <2>7
  <2> QED BY <2>1, <2>5, <2>6, <2>8 DEF Refusing
<1> QED BY <1>1, <1>2, <1>5, <1>6, <1>7, <1>8 DEF t, v

\* Unless it ends the conversation, a message the manager takes leaves it in order.
LEMMA TakenInTouch ==
  ASSUME NEW s, NEW e, EggOK(e), e.out # <<>>, InTouch(s, e), Saving(s),
         Head(e.out).msg = "SaveYourselfDone" => ~ s.saving
  PROVE  InTouch(s, [e EXCEPT !.out = Tail(@)])
<1> DEFINE t == [e EXCEPT !.out = Tail(@)]
           v == Head(e.out)
<1>1. /\ Still(e, t) 
      /\ Silent(e) => Silent(t) /\ v.msg = "SaveYourselfRequest"
      /\ Requested(e) => Requested(t) \/ Silent(t)
      /\ Answered(e) => v.msg = "SaveYourselfDone" \/ Answered(t)
  BY TakenTalk
<1> HIDE DEF t, v
<1>2. Silent(t) => Requested(t)
  BY DEF Silent, Requested, NoneOf, OneOf
<1>3. CASE Conversation(s, e)
  <2>1. s.current # "none" => v.msg # "SaveYourselfDone"
    BY DEF Saving, v
  <2>2. t.state = e.state /\ t.waits = e.waits
    BY <1>1 DEF Still
  <2>3. Conversation(s, t)
    BY <1>1, <1>2, <1>3, <2>1, <2>2 DEF Conversation
  <2> QED BY <2>3 DEF InTouch, t
<1>4. CASE Dying(s, e)
  <2>1. t.state = e.state
    BY <1>1 DEF Still
  <2>2. Dying(s, t)
    BY <1>4, <2>1 DEF Dying, Expects
  <2> QED BY <2>2 DEF InTouch, t
<1> QED BY <1>3, <1>4 DEF InTouch

LEMMA UpdateIsSameTalk ==
  ASSUME NEW e, EggOK(e)
  PROVE  SameTalk(e, Egg!UpdatePendingEvents(e))
<1> DEFINE t == Egg!UpdatePendingEvents(e)
<1>1. Still(e, t) /\ t.out = e.out
  BY DEF Still, Prompt, EggOK, EggFields, Egg!UpdatePendingEvents
<1> HIDE DEF t
<1> QED BY <1>1, UnsaidIsSameTalk DEF t

LEMMA SetInitialIsSameTalk ==
  ASSUME NEW e, EggOK(e)
  PROVE  SameTalk(e, Egg!SetInitialProperties(e))
<1> DEFINE t == [e EXCEPT !.initial = FALSE]
<1>1. Still(e, t) /\ t.out = e.out
  BY DEF Still, Prompt, EggOK, EggFields
<1> HIDE DEF t
<1>2. SameTalk(e, t)
  BY <1>1, UnsaidIsSameTalk
<1>3. SameTalk(t, Egg!UpdatePendingEvents(t))
  BY <1>1, UpdateIsSameTalk DEF Still
<1> QED BY <1>2, <1>3, SameTalkTwice DEF Egg!SetInitialProperties, t

\* Of egg_sm_client_end_session the manager hears at most a SaveYourselfRequest.
LEMMA EndSessionLoopIsSameTalk ==
  ASSUME NEW e, EggOK(e)
  PROVE  SameTalk(e, Egg!EndSessionLoop(e))
<1>1. SameTalk(e, e)
  BY DEF SameTalk, Still
<1>2. SameTalk(e, Egg!SetInitialProperties(e))
  BY SetInitialIsSameTalk
<1>3. SameTalk(e, [e EXCEPT !.ending = "no"])
  <2> DEFINE t == [e EXCEPT !.ending = "no"]
  <2>1. Still(e, t) /\ t.out = e.out
    BY DEF Still, Prompt, EggOK, EggFields
  <2> HIDE DEF t
  <2> QED BY <2>1, UnsaidIsSameTalk DEF t
<1>4. ASSUME NEW fast \in BOOLEAN
      PROVE  SameTalk(e, [Egg!Say(e, Egg!SaveYourselfRequest(fast)) EXCEPT !.ending = "no"])
  <2> DEFINE v == Egg!SaveYourselfRequest(fast)
             t == [Egg!Say(e, v) EXCEPT !.ending = "no"]
  <2>1. v \in Egg!ToManager /\ v.msg = "SaveYourselfRequest"
    BY DEF Egg!ToManager, Egg!SaveYourselfRequest
  <2>2. t.out = Append(e.out, v) /\ Still(e, t)
    BY <2>1 DEF Still, Prompt, Egg!Say, EggOK, EggFields
  <2> HIDE DEF v, t
  <2>3. /\ Silent(e) => Silent(t)
        /\ Requested(e) => Requested(t)
        /\ Answered(e) => Answered(t)
        /\ Refusing(e) => Refusing(t)
    BY <2>1, <2>2, SaidTalk
  <2> QED BY <2>2, <2>3 DEF SameTalk, t, v
<1>5. (e.ending = "fast") \in BOOLEAN
  OBVIOUS
<1>6. SameTalk(e, [Egg!Say(e, Egg!SaveYourselfRequest(e.ending = "fast")) EXCEPT !.ending = "no"])
  BY <1>4, <1>5
<1> QED BY <1>1, <1>2, <1>3, <1>6 DEF Egg!EndSessionLoop

LEMMA SaidIsEgg ==
  ASSUME NEW e, EggOK(e), NEW v \in Egg!ToManager
  PROVE  EggOK(Egg!Say(e, v)) /\ Still(e, Egg!Say(e, v)) /\ Egg!Say(e, v).out = Append(e.out, v)
BY DEF EggOK, EggFields, Egg!Say, Still, Prompt

LEMMA DoneIsEgg ==
  ASSUME NEW e, EggOK(e)
  PROVE  LET t == Egg!Done(e)
         IN  /\ EggOK(t)
             /\ t.state = "save-yourself-done"
             /\ t.connected = e.connected /\ t.waits = e.waits
             /\ Prompt(e) => Prompt(t)
             /\ NoneOf(e.out, "InteractRequest") /\ NoneOf(e.out, "SaveYourselfDone")
                  => Answered(t)
             /\ Refusing(e) => Refusing(t)
<1> DEFINE t == Egg!Done(e)
           v == Egg!SaveYourselfDone
<1>1. v \in Egg!ToManager /\ v.msg = "SaveYourselfDone"
  BY DEF Egg!ToManager, Egg!SaveYourselfDone
<1>2. /\ EggOK(t) /\ t.out = Append(e.out, v)
      /\ t.state = "save-yourself-done"
      /\ t.connected = e.connected /\ t.waits = e.waits
      /\ Prompt(e) => Prompt(t)
  BY <1>1 DEF EggOK, EggFields, Egg!Say, Egg!Done, Prompt
<1> HIDE DEF t, v
<1>3. /\ NoneOf(e.out, "InteractRequest") /\ NoneOf(e.out, "SaveYourselfDone") => Answered(t)
      /\ Refusing(e) => Refusing(t)
  BY <1>1, <1>2, SaidTalk
<1> QED BY <1>2, <1>3 DEF t

LEMMA FixedIsEgg ==
  ASSUME NEW e, EggOK(e), NEW b \in BOOLEAN, NEW c \in BOOLEAN
  PROVE  EggOK(Egg!FixBrokenState(e, b, c))
<1> DEFINE t == Egg!UpdatePendingEvents([e EXCEPT !.saveMyself = FALSE])
           u == IF b THEN Egg!Say(t, Egg!InteractDone(FALSE)) ELSE t
<1>1. EggOK(t)
  BY DEF Egg!UpdatePendingEvents, EggOK, EggFields
<1>2. Egg!InteractDone(FALSE) \in Egg!ToManager
  BY DEF Egg!ToManager
<1> HIDE DEF t
<1>3. EggOK(u)
  BY <1>1, <1>2, SaidIsEgg
<1> HIDE DEF u
<1>4. EggOK(IF c THEN Egg!Done(u) ELSE [u EXCEPT !.state = "idle"])
  BY <1>3, DoneIsEgg DEF EggOK
<1> QED BY <1>4 DEF Egg!FixBrokenState, t, u

\* The answer of a client that was silent to a SaveYourself: at once, or once
\* the application may ask its user.
Answers(e, t) ==
  /\ EggOK(t)
  /\ t.connected = e.connected
  /\ Prompt(e) => Prompt(t)
  /\ \/ /\ t.state = "save-yourself-done" /\ t.waits = e.waits
        /\ Silent(e) => Answered(t)
     \/ /\ t.state = "interact-request" /\ t.waits = e.waits + 1
        /\ Silent(e) => Requested(t)

LEMMA SameTalkAnswers ==
  ASSUME NEW e, NEW r, NEW t, NEW u, SameTalk(e, r), Answers(r, t), SameTalk(t, u)
  PROVE  Answers(e, u)
BY DEF SameTalk, Still, Answers

LEMMA DoneAnswers ==
  ASSUME NEW e, EggOK(e)
  PROVE  Answers(e, Egg!Done(e))
BY DoneIsEgg DEF Answers, Silent

LEMMA RequestAnswers ==
  ASSUME NEW e, EggOK(e)
  PROVE  LET t == [Egg!Say(e, Egg!InteractRequest) EXCEPT !.state = "interact-request",
                                                          !.waits = @ + 1]
         IN  Answers(e, t) /\ t.state = "interact-request"
<1> DEFINE v == Egg!InteractRequest
           t == [Egg!Say(e, v) EXCEPT !.state = "interact-request", !.waits = @ + 1]
<1>1. v \in Egg!ToManager /\ v.msg = "InteractRequest"
  BY DEF Egg!ToManager, Egg!InteractRequest
<1>2. /\ EggOK(t) /\ t.out = Append(e.out, v)
      /\ t.state = "interact-request" /\ t.waits = e.waits + 1 /\ t.connected = e.connected
      /\ Prompt(e) => Prompt(t)
  BY <1>1 DEF Egg!Say, EggOK, EggFields, Prompt
<1> HIDE DEF v, t
<1>3. Silent(e) => Requested(t)
  BY <1>1, <1>2, SaidTalk
<1>4. Answers(e, t) /\ t.state = "interact-request"
  BY <1>2, <1>3 DEF Answers
<1> QED BY <1>4 DEF t, v

LEMMA DoSaveMyselfAnswers ==
  ASSUME NEW e, EggOK(e), e.state # "shutdown-cancelled"
  PROVE  LET t == Egg!DoSaveMyself(e)
         IN  Answers(e, t) /\ (e.needQuit => t.state = "interact-request")
<1>1. CASE e.needQuit
  BY <1>1, RequestAnswers DEF Egg!DoSaveMyself
<1>2. CASE ~ e.needQuit
  BY <1>2, DoneAnswers DEF Egg!DoSaveMyself
<1> QED BY <1>1, <1>2

LEMMA SavedMyselfIsEgg ==
  ASSUME NEW e, EggOK(e)
  PROVE  EggOK(Egg!DoSaveMyself(e))
<1>1. CASE e.state = "shutdown-cancelled"
  BY <1>1 DEF Egg!DoSaveMyself, Egg!UpdatePendingEvents, EggOK, EggFields
<1>2. CASE e.state # "shutdown-cancelled"
  BY <1>2, DoSaveMyselfAnswers DEF Answers
<1> QED BY <1>1, <1>2

\* xsmp_save_yourself
LEMMA SaveYourselfAnswered ==
  ASSUME NEW e, EggOK(e), NEW type, NEW ask
  PROVE  LET u == Egg!OnSaveYourself(e, type, ask)
         IN  /\ EggOK(u)
             /\ e.state = "idle" => Answers(e, u)
             /\ e.state = "idle" /\ type # "local" /\ ask => u.state = "interact-request"
<1> DEFINE t == IF e.initial THEN Egg!SetInitialProperties(e) ELSE e
           r == [t EXCEPT !.expecting = FALSE]
           w == [t EXCEPT !.expecting = FALSE, !.needQuit = ask,
                          !.shuttingDown = type # "local"]
           u == Egg!OnSaveYourself(e, type, ask)
<1>1. SameTalk(e, t)
  BY SetInitialIsSameTalk DEF SameTalk, Still
<1>2. u = CASE e.state \notin {"idle", "shutdown-cancelled"} ->
                 Egg!FixBrokenState(e, FALSE, TRUE)
            [] e.state \in {"idle", "shutdown-cancelled"} /\ e.expecting /\ type = "local" ->
                 Egg!Done(r)
            [] OTHER -> Egg!DoSaveMyself(w)
  BY DEF Egg!OnSaveYourself
<1>3. EggOK(t) /\ t.state = e.state
  BY <1>1 DEF SameTalk, Still
<1> HIDE DEF t, u
<1>4. SameTalk(t, r) /\ SameTalk(t, w) /\ w.needQuit = ask
  <2>1. Still(t, r) /\ Still(t, w) /\ r.out = t.out /\ w.out = t.out /\ w.needQuit = ask
    BY <1>3 DEF Still, Prompt, EggOK, EggFields
  <2> HIDE DEF r, w
  <2> QED BY <2>1, UnsaidIsSameTalk
<1>5. SameTalk(e, r) /\ SameTalk(e, w) /\ EggOK(r) /\ EggOK(w) /\ w.state = e.state
  BY <1>1, <1>3, <1>4, SameTalkTwice DEF SameTalk, Still
<1> HIDE DEF r, w
<1>6. CASE e.state \notin {"idle", "shutdown-cancelled"}
  BY <1>2, <1>6, FixedIsEgg DEF u
<1>7. CASE e.state \in {"idle", "shutdown-cancelled"} /\ e.expecting /\ type = "local"
  <2>1. Answers(r, Egg!Done(r)) /\ u = Egg!Done(r)
    BY <1>2, <1>5, <1>7, DoneAnswers
  <2>2. EggOK(u) /\ SameTalk(u, u)
    BY <2>1 DEF Answers, SameTalk, Still
  <2>3. Answers(e, u)
    BY <1>5, <2>1, <2>2, SameTalkAnswers
  <2> QED BY <1>7, <2>2, <2>3 DEF u
<1>8. CASE e.state \in {"idle", "shutdown-cancelled"} /\ ~ (e.expecting /\ type = "local")
  <2>1. u = Egg!DoSaveMyself(w)
    BY <1>2, <1>8
  <2>2. EggOK(u) /\ SameTalk(u, u)
    BY <1>5, <2>1, SavedMyselfIsEgg DEF SameTalk, Still
  <2>3. ASSUME e.state = "idle"
        PROVE  Answers(e, u) /\ (ask => u.state = "interact-request")
    <3>1. Answers(w, u) /\ (w.needQuit => u.state = "interact-request")
      BY <1>5, <2>1, <2>3, DoSaveMyselfAnswers
    <3>2. Answers(e, u)
      BY <1>5, <2>2, <3>1, SameTalkAnswers
    <3> QED BY <1>4, <3>1, <3>2
  <2> QED BY <2>2, <2>3 DEF u
<1> QED BY <1>6, <1>7, <1>8

\* idle_do_pending_events: nothing is pending before an end was cancelled.
LEMMA IdleIsSameTalk ==
  ASSUME NEW e, EggOK(e)
  PROVE  LET u == Egg!OnIdle(e)
         IN  EggOK(u) /\ (~ e.quitCancelled /\ ~ e.saveMyself => SameTalk(e, u))
<1> DEFINE t == [e EXCEPT !.idle = FALSE]
           r == IF e.quitCancelled THEN [t EXCEPT !.quitCancelled = FALSE, !.state = "idle"]
                                   ELSE t
           w == [r EXCEPT !.saveMyself = FALSE]
           q == [t EXCEPT !.quit = FALSE]
<1>1. SameTalk(e, t) /\ SameTalk(e, q)
  <2>1. Still(e, t) /\ Still(e, q) /\ t.out = e.out /\ q.out = e.out
    BY DEF Still, Prompt, EggOK, EggFields
  <2> HIDE DEF t, q
  <2> QED BY <2>1, UnsaidIsSameTalk
<1>2. EggOK(t) /\ EggOK(q)
  BY <1>1 DEF SameTalk, Still
<1>3. Egg!OnIdle(e) = CASE e.initial             -> Egg!SetInitialProperties(e)
                        [] ~ e.initial /\ e.quit -> q
                        [] OTHER                 ->
                             IF r.saveMyself THEN Egg!DoSaveMyself(w) ELSE r
  BY DEF Egg!OnIdle
<1>4. EggOK(r) /\ (~ e.quitCancelled => r = t)
  BY <1>2 DEF EggOK, EggFields
<1> HIDE DEF q, r
<1>5. EggOK(w)
  BY <1>4 DEF EggOK, EggFields
<1>6. ~ e.quitCancelled /\ ~ e.saveMyself => ~ r.saveMyself
  BY <1>4 DEF EggOK, EggFields
<1> HIDE DEF t, w
<1>7. CASE e.initial
  BY <1>3, <1>7, SetInitialIsSameTalk DEF SameTalk, Still
<1>8. CASE ~ e.initial /\ e.quit
  BY <1>1, <1>2, <1>3, <1>8
<1>9. CASE ~ e.initial /\ ~ e.quit
  BY <1>1, <1>3, <1>4, <1>5, <1>6, <1>9, SavedMyselfIsEgg
<1> QED BY <1>7, <1>8, <1>9

\* sm_client_xsmp_will_quit
LEMMA AnswerInTouch ==
  ASSUME NEW e, EggOK(e), NEW answer \in BOOLEAN
  PROVE  LET t == Egg!WillQuit(e, answer)
         IN  /\ EggOK(t)
             /\ \A s : Prompt(e) /\ InTouch(s, e) => Prompt(t) /\ InTouch(s, t)
             /\ e.state = "interact" => t.state = "save-yourself-done"
             /\ e.state = "interact" /\ ~ answer /\ Silent(e) => Refusing(t)
<1> DEFINE t == Egg!WillQuit(e, answer)
<1>1. CASE e.state = "interact"
  <2> DEFINE v == Egg!InteractDone(~ answer)
             r == Egg!Say(e, v)
  <2>1. v \in Egg!ToManager /\ v.msg = "InteractDone"
    BY DEF Egg!ToManager, Egg!InteractDone
  <2>2. t = Egg!Done(r)
    BY <1>1 DEF Egg!WillQuit
  <2>3. ~ answer => v = Refusal
    BY DEF Refusal
  <2>4. EggOK(r) /\ Still(e, r) /\ r.out = Append(e.out, v)
    BY <2>1, SaidIsEgg
  <2>5. e.out \in Seq(Egg!ToManager)
    BY DEF EggOK
  <2> HIDE DEF v, r
  <2>6. /\ NoneOf(e.out, "InteractRequest") => NoneOf(r.out, "InteractRequest")
        /\ NoneOf(e.out, "SaveYourselfDone") => NoneOf(r.out, "SaveYourselfDone")
    BY <2>1, <2>4, <2>5, NoneOfAppend
  <2>7. v = Refusal /\ Silent(e) => Refusing(r)
    BY <2>1, <2>4, SaidTalk
  <2>8. /\ EggOK(t) /\ t.state = "save-yourself-done"
        /\ t.waits = r.waits /\ t.connected = r.connected
        /\ Prompt(r) => Prompt(t)
        /\ Silent(e) => Answered(t)
        /\ Refusing(r) => Refusing(t)
    BY <2>2, <2>4, <2>6, DoneIsEgg DEF Silent
  <2>9. ~ answer /\ Silent(e) => Refusing(t)
    BY <2>3, <2>7, <2>8
  <2> HIDE DEF t
  <2>10. ASSUME NEW s, Prompt(e), InTouch(s, e)
         PROVE  Prompt(t) /\ InTouch(s, t)
    <3>1. Prompt(t)
      BY <2>4, <2>8, <2>10 DEF Still
    <3>2. CASE Conversation(s, e)
      <4>1. s.current # "none" /\ Nothing(s) /\ Silent(e)
        BY <1>1, <3>2 DEF Conversation
      <4> QED BY <2>8, <3>1, <4>1 DEF Conversation, InTouch
    <3>3. CASE Dying(s, e)
      <4>1. \/ Len(s.out) >= 1 /\ s.out[1].msg = "Die"
            \/ Len(s.out) >= 2 /\ s.out[2].msg = "Die" /\ Expects(e, s.out[1].msg)
        BY <1>1, <3>3 DEF Dying
      <4>2. Expects(e, s.out[1].msg) => Expects(t, s.out[1].msg)
        BY <1>1, <2>8 DEF Expects
      <4> QED BY <2>8, <3>1, <4>1, <4>2 DEF Dying, InTouch
    <3> QED BY <2>10, <3>1, <3>2, <3>3 DEF InTouch
  <2> QED BY <2>8, <2>9, <2>10 DEF t
<1>2. CASE e.state \in {"connection-closed", "shutdown-cancelled"}
  <2>1. EggOK(t)
    BY <1>2 DEF Egg!WillQuit, Egg!UpdatePendingEvents, EggOK, EggFields
  <2>2. \A s : ~ InTouch(s, e)
    BY <1>2 DEF InTouch, Conversation, Dying
  <2> QED BY <1>2, <2>1, <2>2
<1>3. CASE e.state \notin {"interact", "connection-closed", "shutdown-cancelled"}
  BY <1>3 DEF Egg!WillQuit
<1> QED BY <1>1, <1>2, <1>3

LEMMA IdleKeepsConnection ==
  ASSUME NEW e, EggOK(e)
  PROVE  Egg!OnIdle(e).connected = e.connected
BY DEF Egg!OnIdle, Egg!SetInitialProperties, Egg!UpdatePendingEvents, Egg!DoSaveMyself,
       Egg!Done, Egg!Say, EggOK, EggFields

LEMMA AnswerKeepsConnection ==
  ASSUME NEW e, EggOK(e), NEW answer
  PROVE  Egg!WillQuit(e, answer).connected = e.connected
BY DEF Egg!WillQuit, Egg!UpdatePendingEvents, Egg!Done, Egg!Say, EggOK, EggFields

LEMMA DisconnectIsEgg ==
  ASSUME NEW e, EggOK(e)
  PROVE  EggOK(Egg!Disconnect(e)) /\ ~ Egg!Disconnect(e).connected
BY DEF Egg!Disconnect, Egg!UpdatePendingEvents, EggOK, EggFields

LEMMA SaveCompletedIsEgg ==
  ASSUME NEW e, EggOK(e)
  PROVE  EggOK(Egg!OnSaveComplete(e))
BY FixedIsEgg DEF Egg!OnSaveComplete, EggOK, EggFields

LEMMA InteractedIsEgg ==
  ASSUME NEW e, EggOK(e)
  PROVE  EggOK(Egg!OnInteract(e))
BY FixedIsEgg DEF Egg!OnInteract, EggOK, EggFields

LEMMA CancelledIsEgg ==
  ASSUME NEW e, EggOK(e)
  PROVE  EggOK(Egg!OnShutdownCancelled(e))
<1> DEFINE t == [e EXCEPT !.shuttingDown = FALSE]
           r == Egg!Say(t, Egg!SaveYourselfDone)
           w == [t EXCEPT !.saveMyself = FALSE]
<1>1. EggOK(t)
  BY DEF EggOK, EggFields
<1>2. Egg!SaveYourselfDone \in Egg!ToManager
  BY DEF Egg!ToManager
<1>3. Egg!OnShutdownCancelled(e) =
        CASE Egg!TellsCancelled(e) -> [t EXCEPT !.state = "idle"]
          [] e.state = "shutdown-cancelled" -> Egg!UpdatePendingEvents(w)
          [] e.state = "interact" -> [r EXCEPT !.state = "shutdown-cancelled"]
          [] OTHER -> [r EXCEPT !.state = "idle"]
  BY DEF Egg!OnShutdownCancelled
<1> HIDE DEF t
<1>4. EggOK(r) /\ EggOK(w)
  BY <1>1, <1>2, SaidIsEgg DEF EggOK, EggFields
<1> HIDE DEF r, w
<1>5. /\ EggOK([t EXCEPT !.state = "idle"]) /\ EggOK(Egg!UpdatePendingEvents(w))
      /\ EggOK([r EXCEPT !.state = "shutdown-cancelled"]) /\ EggOK([r EXCEPT !.state = "idle"])
  BY <1>1, <1>4, UpdateIsSameTalk DEF EggOK, EggFields, SameTalk, Still
<1> QED BY <1>3, <1>5

-----------------------------------------------------------------------------
(* A message arrives *)

\* save_yourself_done_callback, up to the response to the manager
LEMMA CompletionInTouch ==
  ASSUME NEW s, NEW e, ServerOK(s), EggOK(e), e.out # <<>>
  PROVE  LET t == [e EXCEPT !.out = Tail(@)]
             r == Csm!CompleteSaveYourself(Csm!SaveYourselfEnded(s))
         IN  /\ ServerOK(r) /\ Saving(r) /\ r.next = s.next
             /\ InTouch(s, e) /\ Head(e.out).msg = "SaveYourselfDone" => InTouch(r, t)
<1> DEFINE t == [e EXCEPT !.out = Tail(@)]
           q == Csm!SaveYourselfEnded(s)
           r == Csm!CompleteSaveYourself(q)
<1>1. ServerOK(q) /\ q.current = s.current /\ q.out = s.out /\ q.next = s.next
  BY DEF Csm!SaveYourselfEnded, ServerOK, ServerFields
<1>2. /\ Still(e, t)
      /\ Silent(e) => Head(e.out).msg = "SaveYourselfRequest"
      /\ Requested(e) => Head(e.out).msg \in {"InteractRequest", "SaveYourselfRequest"}
      /\ Answered(e) /\ Head(e.out).msg = "SaveYourselfDone" => Silent(t)
  BY TakenTalk
<1>3. Csm!SaveComplete \in Csm!ToClient /\ Csm!SaveComplete.msg = "SaveComplete"
  BY DEF Csm!ToClient, Csm!SaveComplete
<1> HIDE DEF q, t
<1>4. /\ ServerOK(r) /\ r.current = "none" /\ r.next = q.next
      /\ q.current # "none" => r.out = Append(q.out, Csm!SaveComplete)
      /\ q.current = "none" => r = q
  BY <1>1, <1>3 DEF Csm!CompleteSaveYourself, Csm!Send, ServerOK, ServerFields, Csm!SaveTypes
<1> HIDE DEF r
<1>5. ASSUME InTouch(s, e), Head(e.out).msg = "SaveYourselfDone"
      PROVE  InTouch(r, t)
  <2>1. CASE Conversation(s, e)
    <3>1. /\ s.current # "none" /\ Nothing(s) /\ e.state = "save-yourself-done"
          /\ Answered(e)
      BY <1>2, <1>5, <2>1 DEF Conversation
    <3>2. Silent(t) /\ t.state = "save-yourself-done"
      BY <1>2, <1>5, <3>1 DEF Still
    <3>3. Only(r, "SaveComplete")
      <4>1. q.out \in Seq(Csm!ToClient)
        BY <1>1 DEF ServerOK
      <4>2. r.out = Append(q.out, Csm!SaveComplete) /\ Len(q.out) = 0
        BY <1>1, <1>4, <3>1 DEF Nothing
      <4> QED BY <1>3, <4>1, <4>2, AppendToNothing DEF Only
    <3> QED BY <1>4, <3>2, <3>3 DEF Conversation, InTouch
  <2>2. CASE Dying(s, e)
    <3>1. Dying(s, t)
      BY <1>2, <2>2 DEF Dying, Expects, Still
    <3>2. s.out \in Seq(Csm!ToClient)
      BY DEF ServerOK
    <3>3. r.out = s.out \/ r.out = Append(s.out, Csm!SaveComplete)
      BY <1>1, <1>4
    <3>4. Dying(r, t)
      BY <1>3, <3>1, <3>2, <3>3, DyingStays
    <3> QED BY <3>4 DEF InTouch
  <2> QED BY <1>5, <2>1, <2>2 DEF InTouch
<1> QED BY <1>1, <1>4, <1>5 DEF r, q, t, Saving

\* interact_request_callback
LEMMA InteractInTouch ==
  ASSUME NEW s, NEW r, NEW e, ServerOK(s), ServerOK(r), EggOK(e), e.out # <<>>
  PROVE  LET t == [e EXCEPT !.out = Tail(@)]
             u == Csm!SendInteract(r)
         IN  /\ ServerOK(u) /\ (Saving(r) => Saving(u))
             /\ InTouch(s, e) /\ Adds(s, r) /\ Head(e.out).msg = "InteractRequest"
                  => InTouch(u, t)
<1> DEFINE t == [e EXCEPT !.out = Tail(@)]
           u == Csm!SendInteract(r)
<1>1. /\ Still(e, t)
      /\ Silent(e) => Head(e.out).msg = "SaveYourselfRequest"
      /\ Requested(e) /\ Head(e.out).msg = "InteractRequest" => Silent(t)
      /\ Answered(e) => Head(e.out).msg # "InteractRequest"
  BY TakenTalk
<1>2. Csm!Interact \in Csm!ToClient /\ Csm!Interact.msg = "Interact"
  BY DEF Csm!ToClient, Csm!Interact
<1>3. /\ ServerOK(u) /\ u.current = r.current /\ u.out = Append(r.out, Csm!Interact)
      /\ Saving(r) => Saving(u)
  BY <1>2 DEF Csm!SendInteract, Csm!Send, ServerOK, ServerFields, Saving
<1>4. r.out \in Seq(Csm!ToClient)
  BY DEF ServerOK
<1> HIDE DEF t, u
<1>5. ASSUME InTouch(s, e), Adds(s, r), Head(e.out).msg = "InteractRequest"
      PROVE  InTouch(u, t)
  <2>1. CASE Conversation(s, e)
    <3>1. /\ s.current # "none" /\ Nothing(s) /\ e.state = "interact-request" /\ e.waits > 0
          /\ Requested(e)
      BY <1>1, <1>5, <2>1 DEF Conversation
    <3>2. Silent(t) /\ t.state = e.state /\ t.waits = e.waits
      BY <1>1, <1>5, <3>1 DEF Still
    <3>3. /\ r.current # "none"
          /\ \/ Len(r.out) = 0
             \/ Len(r.out) = 1 /\ r.out[1].msg = "Die"
      <4>1. s.out \in Seq(Csm!ToClient) /\ Csm!Die \in Csm!ToClient /\ Csm!Die.msg = "Die"
        BY DEF ServerOK, Csm!ToClient, Csm!Die
      <4>2. Len(Append(s.out, Csm!Die)) = 1 /\ Append(s.out, Csm!Die)[1] = Csm!Die
        BY <3>1, <4>1, AppendToNothing DEF Nothing
      <4> QED BY <1>5, <3>1, <4>1, <4>2 DEF Adds, Nothing
    <3>4. CASE Len(r.out) = 0
      BY <1>2, <1>3, <1>4, <3>1, <3>2, <3>3, <3>4 DEF Only, Conversation, InTouch
    <3>5. CASE Len(r.out) = 1 /\ r.out[1].msg = "Die"
      BY <1>2, <1>3, <1>4, <3>1, <3>2, <3>5 DEF Dying, InTouch
    <3> QED BY <3>3, <3>4, <3>5
  <2>2. CASE Dying(s, e)
    <3>1. Dying(r, e)
      <4>1. s.out \in Seq(Csm!ToClient) /\ Csm!Die \in Csm!ToClient
        BY DEF ServerOK, Csm!ToClient
      <4>2. \E v \in Csm!ToClient : r.out = s.out \/ r.out = Append(s.out, v)
        BY <1>5, <4>1 DEF Adds
      <4> QED BY <2>2, <4>1, <4>2, DyingStays
    <3>2. Dying(r, t)
      BY <1>1, <3>1 DEF Dying, Expects, Still
    <3> QED BY <1>2, <1>3, <1>4, <3>2, DyingStays DEF InTouch
  <2> QED BY <1>5, <2>1, <2>2 DEF InTouch
<1> QED BY <1>3, <1>5 DEF u, t

\* The application hears what it expects.
LEMMA HeardIsExpected ==
  ASSUME NEW s, NEW e, ServerOK(s), s.out # <<>>, InTouch(s, e)
  PROVE  Expects(e, Head(s.out).msg)
<1>1. Head(s.out) = s.out[1] /\ Len(s.out) \in Nat /\ Len(s.out) > 0
  BY DEF ServerOK
<1>2. CASE Conversation(s, e)
  BY <1>1, <1>2 DEF Conversation, Expects, Only, Nothing
<1>3. CASE Dying(s, e)
  BY <1>1, <1>3 DEF Dying, Expects
<1> QED BY <1>2, <1>3 DEF InTouch

\* xsmp_save_yourself, xsmp_save_complete and xsmp_interact
LEMMA SaveYourselfInTouch ==
  ASSUME NEW s, NEW e, NEW u, ServerOK(s), s.out # <<>>, InTouch(s, e), Prompt(e),
         Head(s.out).msg = "SaveYourself", Answers(e, u)
  PROVE  InTouch([s EXCEPT !.out = Tail(@)], u) /\ Prompt(u)
<1> DEFINE t == [s EXCEPT !.out = Tail(@)]
<1> SUFFICES InTouch(t, u) /\ Prompt(u)
  OBVIOUS
<1>1. t.out = Tail(s.out) /\ t.current = s.current
  BY DEF ServerOK, ServerFields
<1>2. Head(s.out) = s.out[1] /\ s.out \in Seq(Csm!ToClient)
  BY DEF ServerOK
<1> HIDE DEF t
<1>3. Prompt(u)
  BY DEF Prompt, Answers
<1>4. CASE Conversation(s, e)
  <2>1. s.current # "none" /\ Only(s, "SaveYourself") /\ Silent(e)
    BY <1>2, <1>4 DEF Conversation, Only, Nothing
  <2>2. Nothing(t)
    BY <1>1, <1>2, <2>1 DEF Only, Nothing
  <2>3. CASE u.state = "save-yourself-done"
    BY <1>1, <1>3, <2>1, <2>2, <2>3 DEF Answers, Silent, Conversation, InTouch
  <2>4. CASE u.state # "save-yourself-done"
    <3>1. u.state = "interact-request" /\ u.waits > 0
      BY <2>4 DEF Answers, Prompt
    <3> QED BY <1>1, <2>1, <2>2, <1>3, <2>4, <3>1 DEF Answers, Silent, Conversation, InTouch
  <2> QED BY <2>3, <2>4
<1>5. CASE Dying(s, e)
  <2>1. Len(s.out) >= 2 /\ s.out[2].msg = "Die"
    BY <1>2, <1>5 DEF Dying
  <2>2. Len(t.out) >= 1 /\ t.out[1].msg = "Die"
    BY <1>1, <1>2, <2>1
  <2>3. u.state \in {"save-yourself-done", "interact-request"}
    BY DEF Answers
  <2> QED BY <1>3, <2>2, <2>3 DEF Dying, InTouch
<1> QED BY <1>4, <1>5 DEF InTouch

LEMMA SaveCompleteInTouch ==
  ASSUME NEW s, NEW e, NEW u, ServerOK(s), s.out # <<>>, InTouch(s, e),
         Head(s.out).msg = "SaveComplete", e.state = "save-yourself-done",
         u = [e EXCEPT !.state = "idle"], EggOK(e)
  PROVE  InTouch([s EXCEPT !.out = Tail(@)], u)
<1> DEFINE t == [s EXCEPT !.out = Tail(@)]
<1> SUFFICES InTouch(t, u)
  OBVIOUS
<1>1. t.out = Tail(s.out) /\ t.current = s.current
  BY DEF ServerOK, ServerFields
<1>2. Head(s.out) = s.out[1] /\ s.out \in Seq(Csm!ToClient)
  BY DEF ServerOK
<1>3. u.state = "idle" /\ u.out = e.out
  BY DEF EggOK, EggFields
<1> HIDE DEF t
<1>4. CASE Conversation(s, e)
  <2>1. CASE s.current = "none" /\ Only(s, "SaveComplete") /\ Silent(e)
    BY <1>1, <1>2, <1>3, <2>1 DEF Only, Nothing, Silent, Conversation, InTouch
  <2>2. CASE /\ s.current # "none" /\ Len(s.out) = 2 /\ s.out[2].msg = "SaveYourself"
             /\ Silent(e)
    BY <1>1, <1>2, <1>3, <2>2 DEF Only, Silent, Conversation, InTouch
  <2> QED BY <1>2, <1>4, <2>1, <2>2 DEF Conversation, Only, Nothing
<1>5. CASE Dying(s, e)
  <2>1. \/ Len(s.out) >= 2 /\ s.out[2].msg = "Die"
        \/ Len(s.out) >= 3 /\ s.out[3].msg = "Die" /\ s.out[2].msg = "SaveYourself"
    BY <1>2, <1>5 DEF Dying
  <2>2. \/ Len(t.out) >= 1 /\ t.out[1].msg = "Die"
        \/ Len(t.out) >= 2 /\ t.out[2].msg = "Die" /\ t.out[1].msg = "SaveYourself"
    BY <1>1, <1>2, <2>1
  <2> QED BY <1>3, <2>2 DEF Dying, Expects, InTouch
<1> QED BY <1>4, <1>5 DEF InTouch

LEMMA InteractHeardInTouch ==
  ASSUME NEW s, NEW e, NEW u, ServerOK(s), s.out # <<>>, InTouch(s, e), Prompt(e),
         Head(s.out).msg = "Interact", EggOK(e),
         u = IF e.waits = 0 THEN e ELSE [e EXCEPT !.waits = @ - 1, !.state = "interact"]
  PROVE  InTouch([s EXCEPT !.out = Tail(@)], u) /\ Prompt(u)
<1> DEFINE t == [s EXCEPT !.out = Tail(@)]
<1> SUFFICES InTouch(t, u) /\ Prompt(u)
  OBVIOUS
<1>1. t.out = Tail(s.out) /\ t.current = s.current
  BY DEF ServerOK, ServerFields
<1>2. Head(s.out) = s.out[1] /\ s.out \in Seq(Csm!ToClient)
  BY DEF ServerOK
<1>3. /\ u.out = e.out /\ u.quit = e.quit
      /\ u.quitCancelled = e.quitCancelled /\ u.saveMyself = e.saveMyself
      /\ u.state \in {e.state, "interact"} /\ (e.waits # 0 => u.state = "interact")
      /\ u.waits \in Nat
  BY DEF EggOK, EggFields, Prompt
<1> HIDE DEF t
<1>4. Prompt(u)
  BY <1>3 DEF Prompt
<1>5. CASE Conversation(s, e)
  <2>1. s.current # "none" /\ Only(s, "Interact") /\ e.waits > 0 /\ Silent(e)
    BY <1>2, <1>5 DEF Conversation, Only, Nothing
  <2>2. Nothing(t)
    BY <1>1, <1>2, <2>1 DEF Only, Nothing
  <2> QED BY <1>1, <1>3, <1>4, <2>1, <2>2 DEF Silent, Conversation, InTouch, Prompt
<1>6. CASE Dying(s, e)
  <2>1. Len(s.out) >= 2 /\ s.out[2].msg = "Die"
    BY <1>2, <1>6 DEF Dying
  <2>2. Len(t.out) >= 1 /\ t.out[1].msg = "Die"
    BY <1>1, <1>2, <2>1
  <2>3. u.state \in {"idle", "interact-request", "interact", "save-yourself-done"}
    BY <1>3, <1>6 DEF Dying
  <2> QED BY <1>4, <2>2, <2>3 DEF Dying, InTouch
<1> QED BY <1>5, <1>6 DEF InTouch

-----------------------------------------------------------------------------
(* The steps *)

LEMMA TalkInit == XSMPInit => TalkInv
<1> SUFFICES ASSUME XSMPInit PROVE TalkInv
  OBVIOUS
<1>1. m.told[X] # "cancel"
  BY XSMPAssumption DEF XSMPInit, NewManager, Clients
<1>2. PICK isNew \in BOOLEAN : server = Csm!Registered(isNew) /\ egg = Egg!Started(isNew)
  BY DEF XSMPInit
<1>3. EggOK(egg) /\ Prompt(egg) /\ egg.out = <<>> /\ egg.state = "idle"
  BY <1>2 DEF Egg!Started, EggOK, EggFields, Prompt
<1>4. Silent(egg)
  BY <1>3 DEF Silent, NoneOf
<1>5. server.next \in Csm!SaveTypes /\ server.allow \in BOOLEAN /\ DOMAIN server = ServerFields
  BY <1>2 DEF Csm!Registered, Csm!SaveTypes, ServerFields
<1>6. CASE isNew
  <2> DEFINE v == Csm!SaveYourself("local", FALSE)
  <2>1. server.out = <<v>> /\ server.current # "none" /\ Saving(server)
    BY <1>2, <1>6 DEF Csm!Registered, Saving
  <2>2. v \in Csm!ToClient /\ v.msg = "SaveYourself"
    <3>1. "local" \in Csm!SaveTypes /\ "local" # "none"
      BY DEF Csm!SaveTypes
    <3> QED BY <3>1, SaveYourselfIsMessage
  <2> HIDE DEF v
  <2>3. Only(server, "SaveYourself") /\ server.out \in Seq(Csm!ToClient)
    BY <2>1, <2>2 DEF Only
  <2> QED BY <1>1, <1>3, <1>4, <1>5, <2>1, <2>3
          DEF XSMPInit, TalkInv, ServerOK, InTouch, Conversation
<1>7. CASE ~ isNew
  <2>1. server.out = <<>> /\ server.current = "none" /\ Saving(server)
    BY <1>2, <1>7 DEF Csm!Registered, Saving
  <2>2. server.out \in Seq(Csm!ToClient) /\ Nothing(server)
    BY <2>1 DEF Nothing
  <2> QED BY <1>1, <1>3, <1>4, <1>5, <2>1, <2>2
          DEF XSMPInit, TalkInv, ServerOK, InTouch, Conversation
<1> QED BY <1>6, <1>7

\* No end is cancelled by a step after which none was.
LEMMA NoneCancelled ==
  ASSUME TalkInv, CountCancels
  PROVE  cancels' \in Nat /\ (cancels' = 0 => cancels = 0 /\ m'.told[X] # "cancel")
BY DEF TalkInv, CountCancels

LEMMA ManagerStepKeepsTalk ==
  ASSUME TalkInv, server' = Told(server), CountCancels, EggOK(egg'),
         cancels = 0 /\ egg'.connected => Prompt(egg') /\ Saving(server) /\ InTouch(server, egg')
  PROVE  TalkInv'
<1>1. ServerOK(server) /\ ServerOK(server')
  BY ToldIsServer DEF TalkInv
<1>2. ASSUME cancels' = 0, egg'.connected
      PROVE  Prompt(egg') /\ Saving(server') /\ InTouch(server', egg')
  <2>1. Prompt(egg') /\ Saving(server) /\ InTouch(server, egg')
    BY <1>2, NoneCancelled
  <2>2. Adds(server, server')
    BY <1>1, <1>2, NoneCancelled, ToldAdds
  <2>3. Saving(server')
    BY <2>1, <2>2 DEF Adds
  <2> QED BY <1>1, <2>1, <2>2, <2>3, InTouchAdds
<1> QED BY <1>1, <1>2, NoneCancelled DEF TalkInv

\* The manager takes the next message of the application, or refuses it.
LEMMA TakenByManager ==
  ASSUME TalkInv, NEW message, Receives(message)
  PROVE  /\ Still(egg, egg') /\ EggOK(egg) /\ EggOK(egg')
         /\ egg.out # <<>> /\ Head(egg.out) = message
         /\ egg' = [egg EXCEPT !.out = Tail(@)]
         /\ egg'.connected = egg.connected
         /\ cancels = 0 /\ egg.connected => Prompt(egg') /\ Saving(server)
         /\ cancels = 0 /\ egg.connected /\ (message.msg = "SaveYourselfDone" => ~ server.saving)
              => InTouch(server, egg')
<1>1. EggOK(egg) /\ egg.out # <<>> /\ Head(egg.out) = message
      /\ egg' = [egg EXCEPT !.out = Tail(@)]
  BY DEF TalkInv, Receives
<1>2. Still(egg, egg')
  BY <1>1, TakenTalk
<1>3. ASSUME cancels = 0, egg.connected, message.msg = "SaveYourselfDone" => ~ server.saving
      PROVE  InTouch(server, egg')
  BY <1>1, <1>3, TakenInTouch DEF TalkInv
<1> QED BY <1>1, <1>2, <1>3 DEF Still, TalkInv

\* libSM refuses the message.
LEMMA RefusedKeepsTalk ==
  ASSUME TalkInv, NEW message, Receives(message), UNCHANGED <<m, server, cancels>>,
         message.msg = "SaveYourselfDone" => ~ server.saving
  PROVE  TalkInv'
BY TakenByManager DEF TalkInv

LEMMA SaveYourselfDoneKeepsTalk ==
  ASSUME TalkInv, SaveYourselfDoneReceived
  PROVE  TalkInv'
<1>1. Receives(Egg!SaveYourselfDone) /\ Egg!SaveYourselfDone.msg = "SaveYourselfDone"
  BY DEF SaveYourselfDoneReceived, Egg!SaveYourselfDone
<1>2. /\ EggOK(egg) /\ EggOK(egg') /\ egg.out # <<>> /\ egg'.connected = egg.connected
      /\ Head(egg.out).msg = "SaveYourselfDone" /\ egg' = [egg EXCEPT !.out = Tail(@)]
      /\ cancels = 0 /\ egg.connected => Prompt(egg')
  BY <1>1, TakenByManager
<1>3. CASE ~ Csm!TakesSaveYourselfDone(server)
  <2>1. UNCHANGED <<m, server, cancels>>
    BY <1>3 DEF SaveYourselfDoneReceived, Refuses, vars
  <2>2. ~ server.saving
    BY <1>3 DEF Csm!TakesSaveYourselfDone
  <2> QED BY <1>1, <2>1, <2>2, RefusedKeepsTalk
<1>4. CASE Csm!TakesSaveYourselfDone(server)
  <2> DEFINE r == Csm!CompleteSaveYourself(Csm!SaveYourselfEnded(server))
             q == Told(r)
  <2>1. server' = Csm!StartQueued(q) /\ CountCancels
    BY <1>4 DEF SaveYourselfDoneReceived
  <2>2. ServerOK(server)
    BY DEF TalkInv
  <2>3. /\ ServerOK(r) /\ Saving(r)
        /\ InTouch(server, egg) => InTouch(r, egg')
    BY <1>2, <2>2, CompletionInTouch
  <2> HIDE DEF r
  <2>4. ServerOK(q) /\ (m'.told[X] # "cancel" => Adds(r, q))
    BY <2>3, ToldIsServer, ToldAdds
  <2> HIDE DEF q
  <2>5. ServerOK(server') /\ Adds(q, server')
    BY <2>1, <2>4, StartQueuedAdds DEF Adds
  <2>6. ASSUME cancels' = 0, egg'.connected
        PROVE  Prompt(egg') /\ Saving(server') /\ InTouch(server', egg')
    <3>1. Prompt(egg') /\ InTouch(server, egg) /\ m'.told[X] # "cancel"
      BY <1>2, <2>1, <2>6, NoneCancelled DEF TalkInv
    <3>2. InTouch(q, egg') /\ Saving(q)
      BY <2>3, <2>4, <3>1, InTouchAdds DEF Adds
    <3>3. InTouch(server', egg') /\ Saving(server')
      BY <2>4, <2>5, <3>2, InTouchAdds DEF Adds
    <3> QED BY <3>1, <3>3
  <2> QED BY <1>2, <2>1, <2>5, <2>6, NoneCancelled DEF TalkInv
<1> QED BY <1>3, <1>4

LEMMA InteractRequestKeepsTalk ==
  ASSUME TalkInv, InteractRequestReceived
  PROVE  TalkInv'
<1>1. Receives(Egg!InteractRequest) /\ Egg!InteractRequest.msg = "InteractRequest"
  BY DEF InteractRequestReceived, Egg!InteractRequest
<1>2. /\ EggOK(egg) /\ EggOK(egg') /\ egg.out # <<>> /\ egg'.connected = egg.connected
      /\ Head(egg.out).msg = "InteractRequest" /\ egg' = [egg EXCEPT !.out = Tail(@)]
      /\ cancels = 0 /\ egg.connected => Prompt(egg')
  BY <1>1, TakenByManager
<1>3. CASE ~ Csm!TakesInteractRequest(server)
  <2>1. UNCHANGED <<m, server, cancels>>
    BY <1>3 DEF InteractRequestReceived, Refuses, vars
  <2> QED BY <1>1, <2>1, RefusedKeepsTalk
<1>4. CASE Csm!TakesInteractRequest(server)
  <2> DEFINE r == Told(server)
  <2>1. server' = Csm!SendInteract(r) /\ CountCancels
    BY <1>4 DEF InteractRequestReceived
  <2>2. ServerOK(server)
    BY DEF TalkInv
  <2>3. ServerOK(r) /\ (m'.told[X] # "cancel" => Adds(server, r))
    BY <2>2, ToldIsServer, ToldAdds
  <2> HIDE DEF r
  <2>4. /\ ServerOK(server') /\ (Saving(r) => Saving(server'))
        /\ InTouch(server, egg) /\ Adds(server, r) => InTouch(server', egg')
    BY <1>2, <2>1, <2>2, <2>3, InteractInTouch
  <2>5. ASSUME cancels' = 0, egg'.connected
        PROVE  Prompt(egg') /\ Saving(server') /\ InTouch(server', egg')
    <3>1. Prompt(egg') /\ Saving(server) /\ InTouch(server, egg) /\ m'.told[X] # "cancel"
      BY <1>2, <2>1, <2>5, NoneCancelled DEF TalkInv
    <3>2. Saving(r)
      BY <2>3, <3>1 DEF Adds
    <3> QED BY <2>3, <2>4, <3>1, <3>2
  <2> QED BY <1>2, <2>1, <2>4, <2>5, NoneCancelled DEF TalkInv
<1> QED BY <1>3, <1>4

LEMMA InteractDoneKeepsTalk ==
  ASSUME TalkInv, NEW cancel \in BOOLEAN, InteractDoneReceived(cancel)
  PROVE  TalkInv'
<1>1. Receives(Egg!InteractDone(cancel)) /\ Egg!InteractDone(cancel).msg = "InteractDone"
  BY DEF InteractDoneReceived, Egg!InteractDone
<1>2. /\ EggOK(egg) /\ EggOK(egg') /\ egg'.connected = egg.connected
      /\ cancels = 0 /\ egg.connected =>
           Prompt(egg') /\ Saving(server) /\ InTouch(server, egg')
  BY <1>1, TakenByManager
<1>3. CASE ~ Csm!TakesInteractDone(server, cancel)
  <2>1. UNCHANGED <<m, server, cancels>>
    BY <1>3 DEF InteractDoneReceived, Refuses, vars
  <2> QED BY <1>1, <2>1, RefusedKeepsTalk
<1>4. CASE Csm!TakesInteractDone(server, cancel)
  <2> DEFINE r == Csm!InteractEnded(server, cancel)
  <2>1. server' = Told(r) /\ CountCancels
    BY <1>4 DEF InteractDoneReceived
  <2>2. ServerOK(server)
    BY DEF TalkInv
  <2>3. Adds(server, r)
    BY <2>2 DEF Csm!InteractEnded, ServerOK, ServerFields, Adds, Saving, Busy
  <2> HIDE DEF r
  <2>4. ServerOK(r) /\ ServerOK(server') /\ (m'.told[X] # "cancel" => Adds(r, server'))
    BY <2>1, <2>3, ToldIsServer, ToldAdds DEF Adds
  <2>5. ASSUME cancels' = 0, egg'.connected
        PROVE  Prompt(egg') /\ Saving(server') /\ InTouch(server', egg')
    <3>1. Prompt(egg') /\ Saving(server) /\ InTouch(server, egg') /\ m'.told[X] # "cancel"
      BY <1>2, <2>1, <2>5, NoneCancelled
    <3>2. InTouch(r, egg') /\ Saving(r)
      BY <2>2, <2>3, <3>1, InTouchAdds DEF Adds
    <3>3. InTouch(server', egg') /\ Saving(server')
      BY <2>4, <3>1, <3>2, InTouchAdds DEF Adds
    <3> QED BY <3>1, <3>3
  <2> QED BY <1>2, <2>1, <2>4, <2>5, NoneCancelled DEF TalkInv
<1> QED BY <1>3, <1>4

LEMMA SaveYourselfRequestKeepsTalk ==
  ASSUME TalkInv, NEW fast \in BOOLEAN, NEW prompt \in BOOLEAN,
         SaveYourselfRequestReceived(fast, prompt)
  PROVE  TalkInv'
<1>1. /\ Receives(Egg!SaveYourselfRequest(fast))
      /\ Egg!SaveYourselfRequest(fast).msg = "SaveYourselfRequest"
  BY DEF SaveYourselfRequestReceived, Egg!SaveYourselfRequest
<1>2. /\ EggOK(egg') /\ egg'.connected = egg.connected
      /\ cancels = 0 /\ egg.connected =>
           Prompt(egg') /\ Saving(server) /\ InTouch(server, egg')
  BY <1>1, TakenByManager
<1>3. CASE m.phase = RUNNING /\ ~ lockdown
  <2>1. server' = Told(server) /\ CountCancels
    BY <1>3 DEF SaveYourselfRequestReceived
  <2> QED BY <1>2, <2>1, ManagerStepKeepsTalk
<1>4. CASE ~ (m.phase = RUNNING /\ ~ lockdown)
  <2>1. UNCHANGED <<m, server, cancels>>
    BY <1>4 DEF SaveYourselfRequestReceived, Refuses, vars
  <2> QED BY <1>1, <2>1, RefusedKeepsTalk
<1> QED BY <1>3, <1>4

\* What the application has heard leaves the connection to the manager.
LEMMA HeardByApplication ==
  ASSUME TalkInv, NEW message, Hears(message)
  PROVE  /\ ServerOK(server) /\ ServerOK(server') /\ EggOK(egg)
         /\ server.out # <<>> /\ Head(server.out) = message
         /\ server' = [server EXCEPT !.out = Tail(@)]
         /\ egg.connected
         /\ cancels \in Nat /\ cancels' = cancels /\ m' = m
         /\ cancels' = 0 => /\ Prompt(egg) /\ Saving(server) /\ Saving(server')
                         /\ InTouch(server, egg) /\ Expects(egg, message.msg)
<1>1. ServerOK(server) /\ EggOK(egg) /\ server.out # <<>>
      /\ server' = [server EXCEPT !.out = Tail(@)]
  BY DEF TalkInv, Hears
<1>2. ServerOK(server')
  BY <1>1 DEF ServerOK, ServerFields
<1>3. cancels' = 0 => Prompt(egg) /\ InTouch(server, egg) /\ Expects(egg, message.msg)
  BY <1>1, HeardIsExpected DEF TalkInv, Hears
<1>4. cancels' = 0 => Saving(server) /\ Saving(server')
  BY <1>1 DEF TalkInv, Hears, Saving, ServerOK, ServerFields
<1> QED BY <1>1, <1>2, <1>3, <1>4 DEF TalkInv, Hears, vars

LEMMA SaveYourselfHeardKeepsTalk ==
  ASSUME TalkInv, NEW type, NEW ask, SaveYourselfHeard(type, ask)
  PROVE  TalkInv'
<1> DEFINE e == [egg EXCEPT !.shutdown = @ \/ type # "local"]
           u == Egg!OnSaveYourself(e, type, ask)
<1>1. /\ ServerOK(server) /\ ServerOK(server') /\ EggOK(egg) /\ server.out # <<>>
      /\ server' = [server EXCEPT !.out = Tail(@)]
      /\ cancels \in Nat /\ cancels' = cancels /\ m' = m
      /\ Head(server.out).msg = "SaveYourself"
      /\ cancels' = 0 => /\ Prompt(egg) /\ Saving(server') /\ InTouch(server, egg)
                         /\ egg.state = "idle"
  BY HeardByApplication DEF SaveYourselfHeard, Csm!SaveYourself, Expects
<1>2. egg' = Egg!EndSessionLoop(u)
  BY DEF SaveYourselfHeard
<1>3. SameTalk(egg, e) /\ EggOK(e) /\ e.state = egg.state
  <2>1. Still(egg, e) /\ e.out = egg.out
    BY <1>1 DEF Still, Prompt, EggOK, EggFields
  <2> HIDE DEF e
  <2> QED BY <2>1, UnsaidIsSameTalk DEF Still
<1> HIDE DEF e
<1>4. EggOK(u) /\ (egg.state = "idle" => Answers(e, u))
  BY <1>3, SaveYourselfAnswered
<1> HIDE DEF u
<1>5. SameTalk(u, egg') /\ EggOK(egg')
  BY <1>2, <1>4, EndSessionLoopIsSameTalk DEF SameTalk, Still
<1>6. egg.state = "idle" => Answers(egg, egg')
  BY <1>3, <1>4, <1>5, SameTalkAnswers
<1>7. cancels' = 0 => Prompt(egg') /\ InTouch(server', egg')
  BY <1>1, <1>6, SaveYourselfInTouch
<1> QED BY <1>1, <1>5, <1>7 DEF TalkInv

LEMMA SaveCompleteHeardKeepsTalk ==
  ASSUME TalkInv, SaveCompleteHeard
  PROVE  TalkInv'
<1> DEFINE u == Egg!OnSaveComplete(egg)
<1>1. /\ ServerOK(server) /\ ServerOK(server') /\ EggOK(egg) /\ server.out # <<>>
      /\ server' = [server EXCEPT !.out = Tail(@)]
      /\ cancels \in Nat /\ cancels' = cancels /\ m' = m
      /\ Head(server.out).msg = "SaveComplete"
      /\ cancels' = 0 => /\ Prompt(egg) /\ Saving(server') /\ InTouch(server, egg)
                         /\ egg.state = "save-yourself-done"
  BY HeardByApplication DEF SaveCompleteHeard, Csm!SaveComplete, Expects
<1>2. egg' = Egg!EndSessionLoop(u)
  BY DEF SaveCompleteHeard
<1>3. EggOK(u) /\ (egg.state = "save-yourself-done" => u = [egg EXCEPT !.state = "idle"])
  BY <1>1, SaveCompletedIsEgg DEF Egg!OnSaveComplete
<1> HIDE DEF u
<1>4. SameTalk(u, egg') /\ EggOK(egg')
  BY <1>2, <1>3, EndSessionLoopIsSameTalk DEF SameTalk, Still
<1>5. ASSUME cancels' = 0
      PROVE  Prompt(egg') /\ InTouch(server', egg')
  <2>1. InTouch(server', u)
    BY <1>1, <1>3, <1>5, SaveCompleteInTouch
  <2>2. Prompt(u)
    BY <1>1, <1>3, <1>5 DEF Prompt, EggOK, EggFields
  <2> QED BY <1>4, <2>1, <2>2, InTouchSameTalk DEF SameTalk, Still
<1> QED BY <1>1, <1>4, <1>5 DEF TalkInv

LEMMA InteractHeardKeepsTalk ==
  ASSUME TalkInv, InteractHeard
  PROVE  TalkInv'
<1> DEFINE e == [egg EXCEPT !.waits = @ - 1]
           w == Egg!OnInteract(e)
           u == IF egg.waits = 0 THEN egg ELSE [egg EXCEPT !.waits = @ - 1, !.state = "interact"]
<1>1. /\ ServerOK(server) /\ ServerOK(server') /\ EggOK(egg) /\ server.out # <<>>
      /\ server' = [server EXCEPT !.out = Tail(@)]
      /\ cancels \in Nat /\ cancels' = cancels /\ m' = m
      /\ Head(server.out).msg = "Interact"
      /\ cancels' = 0 => /\ Prompt(egg) /\ Saving(server') /\ InTouch(server, egg)
                         /\ egg.state = "interact-request"
  BY HeardByApplication DEF InteractHeard, Csm!Interact, Expects
<1>2. egg' = IF egg.waits = 0 THEN egg ELSE Egg!EndSessionLoop(w)
  BY DEF InteractHeard
<1>3. EggOK(e) /\ e.state = egg.state
  BY <1>1 DEF EggOK, EggFields
<1>4. EggOK(w) /\ (egg.state = "interact-request" /\ egg.waits # 0 => w = u)
  BY <1>3, InteractedIsEgg DEF Egg!OnInteract, Egg!Asks
<1>5. EggOK(u)
  BY <1>1 DEF EggOK, EggFields
<1>6. SameTalk(w, Egg!EndSessionLoop(w))
  BY <1>4, EndSessionLoopIsSameTalk
<1> HIDE DEF e, w
<1>7. EggOK(egg')
  BY <1>1, <1>2, <1>6 DEF SameTalk, Still
<1>8. ASSUME cancels' = 0
      PROVE  Prompt(egg') /\ InTouch(server', egg')
  <2>1. Prompt(u) /\ InTouch(server', u)
    BY <1>1, <1>8, InteractHeardInTouch
  <2>2. SameTalk(u, egg')
    <3>1. CASE egg.waits = 0
      BY <1>2, <1>5, <3>1 DEF SameTalk, Still
    <3>2. CASE egg.waits # 0
      BY <1>1, <1>2, <1>4, <1>6, <1>8, <3>2
    <3> QED BY <3>1, <3>2
  <2> HIDE DEF u
  <2> QED BY <2>1, <2>2, InTouchSameTalk DEF SameTalk, Still
<1> QED BY <1>1, <1>7, <1>8 DEF TalkInv

LEMMA ShutdownCancelledHeardKeepsTalk ==
  ASSUME TalkInv, ShutdownCancelledHeard
  PROVE  TalkInv'
<1> DEFINE e == [egg EXCEPT !.shutdown = FALSE]
           u == Egg!OnShutdownCancelled(e)
<1>1. /\ ServerOK(server') /\ EggOK(egg)
      /\ cancels \in Nat /\ cancels' = cancels /\ m' = m /\ cancels' # 0
  BY HeardByApplication DEF ShutdownCancelledHeard, Csm!ShutdownCancelled, Expects
<1>2. EggOK(e)
  BY <1>1 DEF EggOK, EggFields
<1> HIDE DEF e
<1>3. EggOK(u)
  BY <1>2, CancelledIsEgg
<1> HIDE DEF u
<1>4. EggOK(Egg!EndSessionLoop(u))
  BY <1>3, EndSessionLoopIsSameTalk DEF SameTalk, Still
<1>5. EggOK(egg')
  BY <1>1, <1>4 DEF ShutdownCancelledHeard, u, e
<1> QED BY <1>1, <1>5 DEF TalkInv

\* The application's end of the connection is closed.
LEMMA DisconnectKeepsTalk ==
  ASSUME TalkInv, ServerOK(server'), m' = m, cancels' = cancels, NEW e, EggOK(e),
         egg' = Egg!Disconnect(e) \/ egg' = Egg!EndSessionLoop(Egg!Disconnect(e))
  PROVE  TalkInv'
<1>1. EggOK(Egg!Disconnect(e)) /\ ~ Egg!Disconnect(e).connected
  BY DisconnectIsEgg
<1>2. SameTalk(Egg!Disconnect(e), Egg!EndSessionLoop(Egg!Disconnect(e)))
  BY <1>1, EndSessionLoopIsSameTalk
<1>3. EggOK(egg') /\ ~ egg'.connected
  BY <1>1, <1>2 DEF SameTalk, Still
<1> QED BY <1>3 DEF TalkInv

LEMMA ApplicationReceivesKeepsTalk ==
  ASSUME TalkInv, ApplicationReceives
  PROVE  TalkInv'
<1>1. ASSUME NEW type \in Csm!SaveTypes, NEW ask \in BOOLEAN, SaveYourselfHeard(type, ask)
      PROVE  TalkInv'
  BY <1>1, SaveYourselfHeardKeepsTalk
<1>2. CASE InteractHeard
  BY <1>2, InteractHeardKeepsTalk
<1>3. CASE SaveCompleteHeard
  BY <1>3, SaveCompleteHeardKeepsTalk
<1>4. CASE ShutdownCancelledHeard
  BY <1>4, ShutdownCancelledHeardKeepsTalk
<1>5. CASE DieHeard
  BY <1>5, HeardByApplication, DisconnectKeepsTalk DEF DieHeard
<1>6. CASE ManagerLost
  BY <1>6, DisconnectKeepsTalk DEF ManagerLost, vars, TalkInv
<1> QED BY <1>1, <1>2, <1>3, <1>4, <1>5, <1>6 DEF ApplicationReceives

\* A step of the application that nobody else takes part in
LEMMA AloneKeepsTalk ==
  ASSUME TalkInv, UNCHANGED <<vars, server, cancels>>, EggOK(egg'),
         cancels = 0 /\ egg.connected => SameTalk(egg, egg'),
         egg'.connected => egg.connected
  PROVE  TalkInv'
BY InTouchSameTalk DEF TalkInv, SameTalk, Still, vars

LEMMA ApplicationStepKeepsTalk ==
  ASSUME TalkInv, ApplicationStep
  PROVE  TalkInv'
<1>1. EggOK(egg)
  BY DEF TalkInv
<1>2. CASE IdleDispatched
  <2>1. egg' = Egg!OnIdle(egg) /\ UNCHANGED <<vars, server, cancels>>
    BY <1>2 DEF IdleDispatched
  <2>2. EggOK(egg') /\ (~ egg.quitCancelled /\ ~ egg.saveMyself => SameTalk(egg, egg'))
    BY <1>1, <2>1, IdleIsSameTalk
  <2>3. cancels = 0 /\ egg.connected => SameTalk(egg, egg')
    BY <2>2 DEF TalkInv, Prompt
  <2>4. egg'.connected = egg.connected
    BY <1>1, <2>1, IdleKeepsConnection
  <2> QED BY <2>1, <2>2, <2>3, <2>4, AloneKeepsTalk
<1>3. ASSUME NEW answer \in BOOLEAN, ApplicationAnswers(answer) PROVE TalkInv'
  <2>1. egg' = Egg!WillQuit(egg, answer) /\ UNCHANGED <<vars, server, cancels>>
    BY <1>3 DEF ApplicationAnswers
  <2>2. /\ EggOK(egg')
        /\ Prompt(egg) /\ InTouch(server, egg) => Prompt(egg') /\ InTouch(server, egg')
    BY <1>1, <2>1, AnswerInTouch
  <2>3. egg'.connected = egg.connected
    BY <1>1, <2>1, AnswerKeepsConnection
  <2> QED BY <2>1, <2>2, <2>3 DEF TalkInv, vars
<1>4. ASSUME NEW fast \in BOOLEAN, ApplicationEndsSession(fast) PROVE TalkInv'
  <2> DEFINE e == [egg EXCEPT !.ending = IF fast THEN "fast" ELSE "confirm"]
  <2>1. egg' = Egg!EndSessionLoop(e) /\ UNCHANGED <<vars, server, cancels>>
    BY <1>4 DEF ApplicationEndsSession
  <2>2. SameTalk(egg, e) /\ EggOK(e)
    <3>1. Still(egg, e) /\ e.out = egg.out
      BY <1>1 DEF Still, Prompt, EggOK, EggFields
    <3> HIDE DEF e
    <3> QED BY <3>1, UnsaidIsSameTalk DEF Still
  <2> HIDE DEF e
  <2>3. SameTalk(e, egg')
    BY <2>1, <2>2, EndSessionLoopIsSameTalk
  <2>4. SameTalk(egg, egg')
    BY <2>2, <2>3, SameTalkTwice
  <2> QED BY <2>1, <2>4, AloneKeepsTalk DEF SameTalk, Still
<1>5. CASE ApplicationDies
  <2> DEFINE e == [egg EXCEPT !.ending = "no"]
  <2>1. EggOK(e)
    BY <1>1 DEF EggOK, EggFields
  <2>2. egg' = Egg!Disconnect(e) /\ UNCHANGED <<vars, server, cancels>>
    BY <1>5 DEF ApplicationDies
  <2> HIDE DEF e
  <2> QED BY <2>1, <2>2, DisconnectKeepsTalk DEF TalkInv, vars
<1> QED BY <1>2, <1>3, <1>4, <1>5 DEF ApplicationStep, ApplicationDies

LEMMA TalkKept == TalkInv /\ [XSMPNext]_xsmpVars => TalkInv'
<1> SUFFICES ASSUME TalkInv, [XSMPNext]_xsmpVars PROVE TalkInv'
  OBVIOUS
<1>1. CASE ManagerStep
  <2>1. server' = Told(server) /\ CountCancels /\ egg' = egg
    BY <1>1 DEF ManagerStep
  <2>2. /\ EggOK(egg')
        /\ cancels = 0 /\ egg'.connected =>
             Prompt(egg') /\ Saving(server) /\ InTouch(server, egg')
    BY <2>1 DEF TalkInv
  <2> QED BY <2>1, <2>2, ManagerStepKeepsTalk
<1>2. CASE ManagerReceives
  <2>1. CASE SaveYourselfDoneReceived
    BY <2>1, SaveYourselfDoneKeepsTalk
  <2>2. CASE InteractRequestReceived
    BY <2>2, InteractRequestKeepsTalk
  <2>3. ASSUME NEW cancel \in BOOLEAN, InteractDoneReceived(cancel) PROVE TalkInv'
    BY <2>3, InteractDoneKeepsTalk
  <2>4. ASSUME NEW fast \in BOOLEAN, NEW prompt \in BOOLEAN,
               SaveYourselfRequestReceived(fast, prompt)
        PROVE  TalkInv'
    BY <2>4, SaveYourselfRequestKeepsTalk
  <2> QED BY <1>2, <2>1, <2>2, <2>3, <2>4 DEF ManagerReceives
<1>3. CASE ConnectionClosed
  <2>1. ~ egg.connected /\ egg' = egg /\ server' = server /\ CountCancels
    BY <1>3 DEF ConnectionClosed
  <2> QED BY <2>1, NoneCancelled DEF TalkInv
<1>4. CASE ApplicationReceives
  BY <1>4, ApplicationReceivesKeepsTalk
<1>5. CASE ApplicationStep
  BY <1>5, ApplicationStepKeepsTalk
<1>6. CASE UNCHANGED xsmpVars
  BY <1>6 DEF xsmpVars, vars, TalkInv
<1> QED BY <1>1, <1>2, <1>3, <1>4, <1>5, <1>6 DEF XSMPNext

-----------------------------------------------------------------------------
(* What a handler of the manager makes of a client it has not cancelled *)

\* X takes part in the end of the session: it was last told what the phase tells
\* a client, once, and it does not ask to be the last.
Heeds(s) ==
  /\ X \in s.clients /\ s.phase \in RUNNING..EXIT
  /\ s.phase = RUNNING => s.told[X] = "none"
  /\ s.phase = QUERY_END_SESSION => s.told[X] = "query"
  /\ s.phase = END_SESSION => s.told[X] = "end"
  /\ s.phase = EXIT => s.told[X] = "stop"
  /\ s.next[X] = 0 /\ s.query[X] \in {0, 1}
  /\ s.query[X] = 1 => s.phase \in {QUERY_END_SESSION, END_SESSION}

\* From s the session has gone on to t, for X: no phase was gone back to, and
\* within a phase X was not asked again, nor a forced end unforced.
Turn(s, t) ==
  /\ Heeds(t)
  /\ t.phase >= s.phase
  /\ t.phase = s.phase => t.query[X] <= s.query[X]
  /\ t.phase = s.phase /\ s.phase = QUERY_END_SESSION /\ s.mode = "force" => t.mode = "force"

LEMMA XIsClient == X \in Clients /\ X \notin DBusClients
BY XSMPAssumption, ConstantsAssumption DEF Clients

LEMMA TurnTwice ==
  ASSUME NEW s, NEW t, NEW u, Heeds(s), Turn(s, t), Turn(t, u)
  PROVE  Turn(s, u)
BY DEF Turn, Heeds, RUNNING, EXIT

\* A change that X need not notice
LEMMA SameTurn ==
  ASSUME NEW s, NEW t, Heeds(s), X \in t.clients, t.phase = s.phase,
         t.told[X] = s.told[X], t.next[X] \in {s.next[X], 0}, t.query[X] \in {s.query[X], 0},
         s.phase = QUERY_END_SESSION => t.mode = s.mode \/ t.mode = "force"
  PROVE  Turn(s, t)
BY DEF Turn, Heeds, RUNNING, EXIT

LEMMA ClearPhaseTurn ==
  ASSUME NEW s \in Manager, Heeds(s)
  PROVE  LET t == ClearPhase(s)
         IN  t \in Manager /\ t.phase = s.phase /\ t.clients = s.clients /\ Turn(s, t)
<1> DEFINE t == ClearPhase(s)
<1>1. /\ t \in Manager /\ t.phase = s.phase /\ t.clients = s.clients /\ t.told = s.told
      /\ t.next = NoClients /\ t.query = NoClients /\ t.mode = s.mode
  BY ClearPhaseKeeps
<1>2. NoClients[X] = 0
  BY XIsClient DEF NoClients
<1> HIDE DEF t
<1>3. Turn(s, t)
  BY <1>1, <1>2, SameTurn DEF Heeds
<1> QED BY <1>1, <1>3 DEF t

\* Starting a phase tells X so.
LEMMA StartedPhase ==
  ASSUME NEW s \in Manager, Heeds(s), NEW p \in STARTUP..EXIT, NEW msg \in Messages
  PROVE  LET t == Tell(StartPhase(s, p), s.clients, msg)
         IN  /\ t \in Manager /\ t.phase = p /\ t.clients = s.clients /\ t.told[X] = msg
             /\ t.query[X] = 0 /\ t.next[X] = 0
<1> DEFINE r == StartPhase(s, p)
           t == Tell(r, s.clients, msg)
<1>1. /\ r \in Manager /\ r.phase = p /\ r.clients = s.clients
      /\ r.query = NoClients /\ r.next = NoClients
  BY StartPhaseKeeps
<1>2. s.clients \in SUBSET Clients /\ X \in s.clients
  BY DEF Manager, Heeds
<1> HIDE DEF r
<1>3. /\ t \in Manager /\ t.phase = p /\ t.clients = s.clients
      /\ t.query = NoClients /\ t.next = NoClients
  BY <1>1, <1>2, TellKeeps
<1>4. t.told[X] = msg
  BY <1>1, <1>2, XIsClient, TellTold
<1>5. NoClients[X] = 0
  BY XIsClient DEF NoClients
<1> HIDE DEF t
<1> QED BY <1>3, <1>4, <1>5 DEF t, r

LEMMA EndExitTurn ==
  ASSUME NEW s \in Manager, Heeds(s)
  PROVE  Turn(s, EndExit(s))
<1> DEFINE t == ClearPhase(s)
           o == IF t.type = "none" THEN "assertion" ELSE "quit"
           u == [t EXCEPT !.quits = t.quits + 1, !.outcome = o]
<1>1. EndExit(s) = u
  BY DEF EndExit, Quit
<1>2. t \in Manager /\ Turn(s, t)
  BY ClearPhaseTurn
<1> HIDE DEF t, o
<1>3. /\ u.phase = t.phase /\ u.clients = t.clients /\ u.told = t.told
      /\ u.next = t.next /\ u.query = t.query /\ u.mode = t.mode
  BY <1>2 DEF Manager
<1> HIDE DEF u
<1>4. Turn(t, u)
  BY <1>2, <1>3, SameTurn DEF Turn, Heeds
<1> QED BY <1>1, <1>2, <1>4, TurnTwice

LEMMA StartExitTurn ==
  ASSUME NEW s \in Manager, Heeds(s)
  PROVE  Turn(s, StartExit(s))
<1> DEFINE u == Tell(StartPhase(s, EXIT), s.clients, "stop")
<1>1. EXIT \in STARTUP..EXIT /\ "stop" \in Messages
  BY DEF STARTUP, EXIT, Messages
<1>2. /\ u \in Manager /\ u.phase = EXIT /\ u.clients = s.clients /\ u.told[X] = "stop"
      /\ u.query[X] = 0 /\ u.next[X] = 0
  BY <1>1, StartedPhase
<1>3. StartExit(s) = EndExit(u)
  BY DEF StartExit
<1> HIDE DEF u
<1>4. Heeds(u)
  BY <1>2 DEF Heeds, RUNNING, QUERY_END_SESSION, END_SESSION, EXIT
<1>5. Turn(s, u)
  BY <1>2, <1>4 DEF Turn, Heeds, RUNNING, QUERY_END_SESSION, EXIT
<1>6. Turn(u, EndExit(u))
  BY <1>2, <1>4, EndExitTurn
<1> QED BY <1>3, <1>5, <1>6, TurnTwice

LEMMA EndEndSessionTurn ==
  ASSUME NEW s \in Manager, Heeds(s)
  PROVE  Turn(s, EndEndSession(s))
<1> DEFINE v == s.saved \/ AutoSave
           t == ClearPhase(s)
           u == [t EXCEPT !.saved = v]
<1>1. t \in Manager /\ Turn(s, t)
  BY ClearPhaseTurn
<1>2. v \in BOOLEAN /\ EndEndSession(s) = StartExit(u)
  BY DEF EndEndSession
<1> HIDE DEF v, t
<1>3. /\ u \in Manager /\ u.phase = t.phase /\ u.clients = t.clients /\ u.told = t.told
      /\ u.next = t.next /\ u.query = t.query /\ u.mode = t.mode
  BY <1>1, <1>2 DEF Manager
<1> HIDE DEF u
<1>4. Turn(t, u)
  BY <1>1, <1>3, SameTurn DEF Turn, Heeds
<1>5. Turn(u, StartExit(u))
  BY <1>3, <1>4, StartExitTurn DEF Turn
<1> QED BY <1>1, <1>2, <1>4, <1>5, TurnTwice

LEMMA StartEndSessionTurn ==
  ASSUME NEW s \in Manager, Heeds(s), s.phase < END_SESSION
  PROVE  Turn(s, StartEndSession(s))
<1> DEFINE u == Tell(StartPhase(s, END_SESSION), s.clients, "end")
           q == [c \in Clients |-> IF c \in s.clients THEN 1 ELSE 0]
           v == [u EXCEPT !.query = q, !.phaseTimer = TRUE]
<1>1. END_SESSION \in STARTUP..EXIT /\ "end" \in Messages
  BY DEF STARTUP, EXIT, END_SESSION, Messages
<1>2. /\ u \in Manager /\ u.phase = END_SESSION /\ u.clients = s.clients /\ u.told[X] = "end"
      /\ u.next[X] = 0
  BY <1>1, StartedPhase
<1>3. X \in s.clients /\ q[X] = 1
  BY XIsClient DEF Heeds
<1>4. StartEndSession(s) = v
  BY <1>3 DEF StartEndSession
<1> HIDE DEF u, q
<1>5. /\ v.phase = END_SESSION /\ v.clients = s.clients /\ v.told[X] = "end"
      /\ v.next[X] = 0 /\ v.query[X] = 1
  BY <1>2, <1>3 DEF Manager
<1> HIDE DEF v
<1>6. Heeds(v)
  BY <1>3, <1>5 DEF Heeds, RUNNING, QUERY_END_SESSION, END_SESSION, EXIT
<1>7. Turn(s, v)
  BY <1>5, <1>6 DEF Turn, Heeds, RUNNING, QUERY_END_SESSION, END_SESSION, EXIT
<1> QED BY <1>4, <1>7

LEMMA EndQueryTurn ==
  ASSUME NEW s \in Manager, Heeds(s), s.phase = QUERY_END_SESSION
  PROVE  Turn(s, EndQuery(s))
<1> DEFINE t == ClearPhase(s)
<1>1. t \in Manager /\ Turn(s, t) /\ t.phase = s.phase
  BY ClearPhaseTurn
<1> HIDE DEF t
<1>2. Turn(t, StartEndSession(t))
  BY <1>1, StartEndSessionTurn DEF Turn, QUERY_END_SESSION, END_SESSION
<1> QED BY <1>1, <1>2, TurnTwice DEF EndQuery, t

LEMMA EndRunningTurn ==
  ASSUME NEW s \in Manager, Heeds(s), s.phase = RUNNING
  PROVE  Turn(s, EndRunning(s))
<1> DEFINE t == ClearPhase(s)
           u == Tell(StartPhase(t, QUERY_END_SESSION), t.clients, "query")
           q == [c \in Clients |-> IF c \in t.clients THEN 1 ELSE 0]
           v == [u EXCEPT !.query = q, !.queryTimer = TRUE]
<1>1. t \in Manager /\ Turn(s, t) /\ t.phase = s.phase
  BY ClearPhaseTurn
<1>2. QUERY_END_SESSION \in STARTUP..EXIT /\ "query" \in Messages
  BY DEF STARTUP, EXIT, QUERY_END_SESSION, Messages
<1>3. EndRunning(s) \in {t, v}
  BY DEF EndRunning, StartQuery
<1> HIDE DEF t
<1>4. /\ u \in Manager /\ u.phase = QUERY_END_SESSION /\ u.clients = t.clients
      /\ u.told[X] = "query" /\ u.next[X] = 0
  BY <1>1, <1>2, StartedPhase DEF Turn
<1>5. X \in t.clients /\ q[X] = 1
  BY <1>1, XIsClient DEF Turn, Heeds
<1> HIDE DEF u, q
<1>6. /\ v.phase = QUERY_END_SESSION /\ v.clients = t.clients /\ v.told[X] = "query"
      /\ v.next[X] = 0 /\ v.query[X] = 1
  BY <1>4, <1>5 DEF Manager
<1> HIDE DEF v
<1>7. Heeds(v)
  BY <1>5, <1>6 DEF Heeds, RUNNING, QUERY_END_SESSION, END_SESSION, EXIT
<1>8. Turn(s, v)
  BY <1>6, <1>7 DEF Turn, RUNNING, QUERY_END_SESSION
<1> QED BY <1>1, <1>3, <1>8

LEMMA EndPhaseTurn ==
  ASSUME NEW s \in Manager, Heeds(s)
  PROVE  Turn(s, EndPhase(s))
<1>1. s.phase \in {RUNNING, QUERY_END_SESSION, END_SESSION, EXIT}
  BY DEF Heeds, RUNNING, QUERY_END_SESSION, END_SESSION, EXIT
<1>2. EndPhase(s) = CASE s.phase = RUNNING           -> EndRunning(s)
                      [] s.phase = QUERY_END_SESSION -> EndQuery(s)
                      [] s.phase = END_SESSION       -> EndEndSession(s)
                      [] OTHER                       -> EndExit(s)
  BY DEF EndPhase
<1> QED
  BY <1>1, <1>2, EndRunningTurn, EndQueryTurn, EndEndSessionTurn, EndExitTurn
  DEF RUNNING, QUERY_END_SESSION, END_SESSION, EXIT

LEMMA AcceptInhibitDialogTurn ==
  ASSUME NEW s \in Manager, Heeds(s)
  PROVE  Turn(s, AcceptInhibitDialog(s))
<1> DEFINE t == [s EXCEPT !.inhibitDialog = "none"]
           u == [t EXCEPT !.mode = "force"]
<1>1. /\ t \in Manager /\ t.phase = s.phase /\ t.clients = s.clients /\ t.told = s.told
      /\ t.next = s.next /\ t.query = s.query /\ t.mode = s.mode
  BY DEF Manager, InhibitDialogs
<1>2. AcceptInhibitDialog(s) = IF s.inhibitDialog = "logout" THEN EndPhase(u) ELSE t
  BY DEF AcceptInhibitDialog
<1> HIDE DEF t
<1>3. /\ u \in Manager /\ u.phase = s.phase /\ u.clients = s.clients /\ u.told = s.told
      /\ u.next = s.next /\ u.query = s.query /\ u.mode = "force"
  BY <1>1 DEF Manager, LogoutModes
<1> HIDE DEF u
<1>4. Turn(s, t) /\ Turn(s, u)
  BY <1>1, <1>3, SameTurn DEF Heeds
<1>5. Turn(u, EndPhase(u))
  BY <1>3, <1>4, EndPhaseTurn DEF Turn
<1> QED BY <1>2, <1>4, <1>5, TurnTwice

LEMMA RemoveInhibitorsTurn ==
  ASSUME NEW s \in Manager, Heeds(s), NEW taken, NEW jit
  PROVE  Turn(s, RemoveInhibitors(s, taken, jit))
<1> DEFINE t == [s EXCEPT !.inhibitors = s.inhibitors \ taken, !.jit = s.jit \ jit]
<1>1. /\ t \in Manager /\ t.phase = s.phase /\ t.clients = s.clients /\ t.told = s.told
      /\ t.next = s.next /\ t.query = s.query /\ t.mode = s.mode
  BY DEF Manager
<1>2. RemoveInhibitors(s, taken, jit) \in {t, AcceptInhibitDialog(t)}
  BY DEF RemoveInhibitors
<1> HIDE DEF t
<1>3. Turn(s, t)
  BY <1>1, SameTurn DEF Heeds
<1>4. Turn(t, AcceptInhibitDialog(t))
  BY <1>1, <1>3, AcceptInhibitDialogTurn DEF Turn
<1> QED BY <1>2, <1>3, <1>4, TurnTwice

\* A cancelled end is the one step back, and X is told of it.
LEMMA CancelTold ==
  ASSUME NEW s \in Manager, Heeds(s)
  PROVE  /\ s.phase < QUERY_END_SESSION => CancelEndSession(s) = s
         /\ ~ (s.phase < QUERY_END_SESSION) => CancelEndSession(s).told[X] = "cancel"
<1>1. CASE s.phase < QUERY_END_SESSION
  BY <1>1 DEF CancelEndSession
<1>2. CASE ~ (s.phase < QUERY_END_SESSION)
  <2> DEFINE t == [s EXCEPT !.inhibitDialog = "none", !.jit = {},
                            !.mode = "normal", !.type = "none"]
             u == Tell(t, s.clients, "cancel")
  <2>1. t \in Manager
    BY DEF Manager, InhibitDialogs, LogoutModes, LogoutTypes
  <2>6. "cancel" \in Messages /\ RUNNING \in STARTUP..EXIT
    BY DEF Messages, STARTUP, RUNNING, EXIT
  <2>2. s.clients \in SUBSET Clients /\ X \in s.clients
    BY DEF Manager, Heeds
  <2>3. CancelEndSession(s) = StartPhase(u, RUNNING)
    BY <1>2 DEF CancelEndSession, StartRunning
  <2> HIDE DEF t
  <2>4. u \in Manager /\ u.told[X] = "cancel"
    BY <2>1, <2>2, <2>6, XIsClient, TellKeeps, TellTold
  <2> HIDE DEF u
  <2>5. StartPhase(u, RUNNING).told = u.told
    BY <2>4, <2>6, StartPhaseKeeps
  <2> QED BY <1>2, <2>3, <2>4, <2>5
<1> QED BY <1>1, <1>2

LEMMA QueryCompleteTurn ==
  ASSUME NEW s \in Manager, Heeds(s), s.phase = QUERY_END_SESSION
  PROVE  Turn(s, QueryComplete(s))
<1> DEFINE t == [s EXCEPT !.queryTimer = FALSE]
           u == [t EXCEPT !.inhibitDialog = "logout"]
<1>1. /\ t \in Manager /\ t.phase = s.phase /\ t.clients = s.clients /\ t.told = s.told
      /\ t.next = s.next /\ t.query = s.query /\ t.mode = s.mode
  BY DEF Manager
<1>2. QueryComplete(s) \in {t, u, EndQuery(t)}
  BY DEF QueryComplete
<1> HIDE DEF t
<1>3. /\ u.phase = s.phase /\ u.clients = s.clients /\ u.told = s.told
      /\ u.next = s.next /\ u.query = s.query /\ u.mode = s.mode
  BY <1>1 DEF Manager
<1> HIDE DEF u
<1>4. Turn(s, t) /\ Turn(s, u)
  BY <1>1, <1>3, SameTurn DEF Heeds
<1>5. Turn(t, EndQuery(t))
  BY <1>1, <1>4, EndQueryTurn DEF Turn
<1> QED BY <1>2, <1>4, <1>5, TurnTwice

LEMMA EndSessionPart2Turn ==
  ASSUME NEW s \in Manager, Heeds(s)
  PROVE  Turn(s, EndSessionPart2(s))
<1> DEFINE last == {c \in Clients : s.next[c] > 0}
           t == Tell(s, last, "last")
           u == [t EXCEPT !.query = s.next, !.next = NoClients]
           w == [s EXCEPT !.outcome = "dangling"]
<1>1. EndSessionPart2(s) \in {u, w}
  BY DEF EndSessionPart2
<1>2. /\ w.phase = s.phase /\ w.clients = s.clients /\ w.told = s.told
      /\ w.next = s.next /\ w.query = s.query /\ w.mode = s.mode
  BY DEF Manager
<1>3. last \in SUBSET Clients /\ X \notin last /\ "last" \in Messages /\ s.next[X] = 0
  BY DEF Heeds, Messages
<1>4. NoClients[X] = 0
  BY XIsClient DEF NoClients
<1> HIDE DEF last, w
<1>5. /\ t \in Manager /\ t.phase = s.phase /\ t.clients = s.clients /\ t.mode = s.mode
      /\ t.told[X] = s.told[X]
  BY <1>3, XIsClient, TellKeeps, TellTold
<1> HIDE DEF t
<1>6. /\ u.phase = s.phase /\ u.clients = s.clients /\ u.told[X] = s.told[X]
      /\ u.next[X] = 0 /\ u.query[X] = 0 /\ u.mode = s.mode
  BY <1>3, <1>4, <1>5 DEF Manager
<1> HIDE DEF u
<1>7. Turn(s, u) /\ Turn(s, w)
  BY <1>2, <1>6, SameTurn DEF Heeds
<1> QED BY <1>1, <1>7

LEMMA AfterResponseTurn ==
  ASSUME NEW s \in Manager, Heeds(s), NEW c \in Clients, NEW doLast \in BOOLEAN,
         c = X => ~ doLast
  PROVE  Turn(s, AfterResponse(s, c, doLast))
<1> DEFINE added == [s.next EXCEPT ![c] = s.next[c] + 1]
           w == [s EXCEPT !.next = added]
           t == IF doLast THEN w ELSE s
<1>1. s.next \in ClientBag /\ s.next[c] \in Nat
  BY DEF Manager, ClientBag
<1>2. added \in ClientBag /\ (c # X => added[X] = s.next[X])
  BY <1>1, BagUpdate, XIsClient DEF ClientBag
<1>3. \/ AfterResponse(s, c, doLast) \in {s, t, EndSessionPart2(t), EndEndSession(t)}
      \/ s.phase = QUERY_END_SESSION /\ AfterResponse(s, c, doLast) = QueryComplete(s)
  BY DEF AfterResponse, QUERY_END_SESSION, END_SESSION
<1> HIDE DEF added
<1>4. /\ w \in Manager /\ w.phase = s.phase /\ w.clients = s.clients /\ w.told = s.told
      /\ w.next = added /\ w.query = s.query /\ w.mode = s.mode
  BY <1>2 DEF Manager
<1> HIDE DEF w
<1>5. Turn(s, s) /\ (c # X => Turn(s, w))
  BY <1>2, <1>4, SameTurn DEF Heeds
<1>6. t \in Manager /\ Turn(s, t)
  BY <1>4, <1>5
<1> HIDE DEF t
<1>7. Turn(t, EndSessionPart2(t)) /\ Turn(t, EndEndSession(t))
  BY <1>6, EndSessionPart2Turn, EndEndSessionTurn DEF Turn
<1>8. Turn(s, EndSessionPart2(t)) /\ Turn(s, EndEndSession(t))
  BY <1>6, <1>7, TurnTwice
<1>9. s.phase = QUERY_END_SESSION => Turn(s, QueryComplete(s))
  BY QueryCompleteTurn
<1> QED BY <1>3, <1>5, <1>6, <1>8, <1>9

\* An answer of X counts as its answer, unless it is not the time for one.
LEMMA HandleEndSessionResponseTurn ==
  ASSUME NEW s \in Manager, Heeds(s), NEW c \in Clients, NEW isOk \in BOOLEAN,
         NEW doLast \in BOOLEAN, c = X => ~ doLast
  PROVE  LET t == HandleEndSessionResponse(s, c, isOk, doLast, FALSE)
         IN  Turn(s, t) /\ (c = X /\ t.phase = s.phase => t.query[X] = 0)
<1> DEFINE n == IF s.query[c] > 0 THEN s.query[c] - 1 ELSE 0
           q == [s.query EXCEPT ![c] = n]
           answered == [s EXCEPT !.query = q]
           refused == [answered EXCEPT !.jit = answered.jit \cup {c}]
           removed == RemoveInhibitors(answered, {}, s.jit \cap {c})
           t == HandleEndSessionResponse(s, c, isOk, doLast, FALSE)
<1>1. s.query \in ClientBag /\ n \in Nat
  BY DEF Manager, ClientBag
<1>2. q \in ClientBag /\ (c # X => q[X] = s.query[X]) /\ (c = X => q[X] = 0)
  <2>1. q \in ClientBag
    BY <1>1, BagUpdate
  <2>2. (c # X => q[X] = s.query[X]) /\ (c = X => q[X] = n)
    BY <1>1, XIsClient DEF ClientBag
  <2>3. c = X => n = 0
    BY DEF Heeds
  <2> QED BY <2>1, <2>2, <2>3
<1>3. \/ s.phase < QUERY_END_SESSION /\ t = s
      \/ t \in {AfterResponse(refused, c, doLast), AfterResponse(removed, c, doLast)}
  BY DEF HandleEndSessionResponse
<1> HIDE DEF q, t
<1>4. /\ answered \in Manager /\ answered.phase = s.phase /\ answered.clients = s.clients
      /\ answered.told = s.told /\ answered.next = s.next /\ answered.query = q
      /\ answered.mode = s.mode
  BY <1>2 DEF Manager
<1> HIDE DEF answered
<1>5. Turn(s, answered)
  BY <1>2, <1>4, SameTurn DEF Heeds
<1>6. /\ refused \in Manager /\ refused.phase = answered.phase
      /\ refused.clients = answered.clients /\ refused.told = answered.told
      /\ refused.next = answered.next /\ refused.query = answered.query
      /\ refused.mode = answered.mode
  BY <1>4 DEF Manager
<1>7. removed \in Manager /\ Turn(answered, removed)
  BY <1>4, <1>5, RemoveInhibitorsType, RemoveInhibitorsTurn DEF Turn
<1> HIDE DEF refused, removed
<1>8. Turn(answered, refused)
  BY <1>5, <1>6, SameTurn DEF Turn, Heeds
<1>9. /\ Turn(refused, AfterResponse(refused, c, doLast))
      /\ Turn(removed, AfterResponse(removed, c, doLast))
  BY <1>6, <1>7, <1>8, AfterResponseTurn DEF Turn
<1>10. t = s \/ Turn(answered, t)
  BY <1>3, <1>5, <1>7, <1>8, <1>9, TurnTwice DEF Turn
<1>11. Turn(s, s)
  BY SameTurn DEF Heeds
<1>12. Turn(s, t)
  BY <1>5, <1>10, <1>11, TurnTwice
<1>13. ASSUME c = X, t.phase = s.phase PROVE t.query[X] = 0
  <2>1. CASE Turn(answered, t)
    <3>1. t.query[X] <= answered.query[X] /\ answered.query[X] = 0
      BY <1>2, <1>4, <1>13, <2>1 DEF Turn
    <3>2. t.query[X] \in {0, 1}
      BY <2>1 DEF Turn, Heeds
    <3> QED BY <3>1, <3>2
  <2>2. CASE ~ Turn(answered, t)
    <3>1. s.phase < QUERY_END_SESSION /\ t = s
      BY <1>3, <1>5, <1>7, <1>8, <1>9, <2>2, TurnTwice DEF Turn
    <3> QED BY <3>1 DEF Heeds, QUERY_END_SESSION, END_SESSION
  <2> QED BY <2>1, <2>2
<1> QED BY <1>12, <1>13 DEF t

LEMMA DisconnectClientTurn ==
  ASSUME NEW s \in Manager, Heeds(s), NEW c \in Clients, c # X
  PROVE  DisconnectClient(s, c) \in Manager /\ Turn(s, DisconnectClient(s, c))
<1> DEFINE t == RemoveInhibitors(s, {}, s.jit \cap {c})
           u == HandleEndSessionResponse(t, c, TRUE, FALSE, FALSE)
<1>1. t \in Manager /\ Turn(s, t)
  BY RemoveInhibitorsType, RemoveInhibitorsTurn
<1>2. DisconnectClient(s, c) \in {t, u}
  BY DEF DisconnectClient
<1> HIDE DEF t
<1>3. Heeds(t)
  BY <1>1 DEF Turn
<1>4. Turn(t, u)
  BY <1>1, <1>3, HandleEndSessionResponseTurn
<1> HIDE DEF u
<1>5. Turn(s, u)
  BY <1>1, <1>4, TurnTwice
<1> QED BY <1>1, <1>2, <1>5, DisconnectClientType

\* Another client leaves: X remains, so the session goes on to end with it.
LEMMA LeavingTurn ==
  ASSUME NEW s \in Manager, Heeds(s), NEW c \in Clients, c # X
  PROVE  LET t == RemoveClient(DisconnectClient(s, c), c)
         IN  t \in Manager /\ Turn(s, t) /\ EndIfLastClientLeft(t) = t
<1> DEFINE r == DisconnectClient(s, c)
           t == RemoveClient(r, c)
<1>1. r \in Manager /\ Turn(s, r)
  BY DisconnectClientTurn
<1> HIDE DEF r
<1>2. /\ t \in Manager /\ t.phase = r.phase /\ t.clients = r.clients \ {c} /\ t.told = r.told
      /\ t.next = r.next /\ t.query = r.query /\ t.mode = r.mode
  BY <1>1 DEF RemoveClient, Manager
<1> HIDE DEF t
<1>3. Turn(r, t)
  BY <1>1, <1>2, SameTurn DEF Turn, Heeds
<1>4. X \in t.clients
  BY <1>3 DEF Turn, Heeds
<1>5. Turn(s, t) /\ EndIfLastClientLeft(t) = t
  BY <1>1, <1>3, <1>4, TurnTwice DEF EndIfLastClientLeft
<1> QED BY <1>2, <1>5 DEF t, r

\* Registering another client does not matter to X.
LEMMA RegisteringTurn ==
  ASSUME NEW s \in Manager, Heeds(s), s.pending = {}, NEW r, NEW c,
         r.phase = s.phase, r.pending = s.pending, r.told = s.told, r.query = s.query,
         r.next = s.next, r.mode = s.mode, s.clients \subseteq r.clients,
         NEW a, NEW starts
  PROVE  Turn(s, r) /\ AppRegistered(r, a, starts) = r
<1>1. X \in r.clients
  BY DEF Heeds
<1>2. AppRegistered(r, a, starts) = r
  BY DEF AppRegistered
<1> QED BY <1>1, <1>2, SameTurn DEF Heeds

LEMMA RequestEndTurn ==
  ASSUME NEW s \in Manager, Heeds(s), NEW type \in LogoutTypes
  PROVE  Turn(s, RequestEnd(s, type))
<1> DEFINE t == [s EXCEPT !.type = type]
<1>1. /\ t \in Manager /\ t.phase = s.phase /\ t.clients = s.clients /\ t.told = s.told
      /\ t.next = s.next /\ t.query = s.query /\ t.mode = s.mode
  BY DEF Manager
<1> HIDE DEF t
<1>2. Turn(s, t)
  BY <1>1, SameTurn DEF Heeds
<1>3. Turn(t, EndPhase(t))
  BY <1>1, <1>2, EndPhaseTurn DEF Turn
<1> QED BY <1>2, <1>3, TurnTwice DEF RequestEnd, t

LEMMA RequestLogoutTurn ==
  ASSUME NEW s \in Manager, Heeds(s), s.phase = RUNNING, NEW mode \in LogoutModes
  PROVE  Turn(s, RequestLogout(s, mode))
<1> DEFINE t == [s EXCEPT !.mode = mode]
<1>1. /\ t \in Manager /\ t.phase = s.phase /\ t.clients = s.clients /\ t.told = s.told
      /\ t.next = s.next /\ t.query = s.query
  BY DEF Manager
<1> HIDE DEF t
<1>2. Turn(s, t)
  BY <1>1, SameTurn DEF Heeds, RUNNING, QUERY_END_SESSION
<1>3. Turn(t, RequestEnd(t, "logout"))
  BY <1>1, <1>2, RequestEndTurn DEF Turn, LogoutTypes
<1> QED BY <1>2, <1>3, TurnTwice DEF RequestLogout, t

LEMMA ShowLogoutDialogTurn ==
  ASSUME NEW s \in Manager, Heeds(s), NEW dialog
  PROVE  Turn(s, ShowLogoutDialog(s, dialog))
<1> DEFINE t == [s EXCEPT !.mode = "normal", !.logoutDialog = dialog]
<1>1. /\ t.phase = s.phase /\ t.clients = s.clients /\ t.told = s.told
      /\ t.next = s.next /\ t.query = s.query
  BY DEF Manager
<1>2. \/ ShowLogoutDialog(s, dialog) = s
      \/ ~ (s.phase >= QUERY_END_SESSION) /\ ShowLogoutDialog(s, dialog) = t
  BY DEF ShowLogoutDialog
<1> HIDE DEF t
<1>3. ~ (s.phase >= QUERY_END_SESSION) => Turn(s, t)
  BY <1>1, SameTurn DEF Heeds, QUERY_END_SESSION
<1>4. Turn(s, s)
  BY SameTurn DEF Heeds
<1> QED BY <1>2, <1>3, <1>4

\* The handlers that look for applications to start find none once it runs.
LEMMA StartupStepTurn ==
  ASSUME TypeOK, SafetyInvariant, Heeds(m), StartupStep
  PROVE  Turn(m, m')
<1>m. m \in Manager
  BY DEF TypeOK
<1>p. m.phase >= RUNNING
  BY DEF Heeds, RUNNING, EXIT
<1>i. Idle => m.pending = {}
  BY <1>p DEF Idle, SafetyInvariant, Consistent, Phased
<1>1. ASSUME NEW starts \in SUBSET Apps, Start(starts) PROVE Turn(m, m')
  BY <1>1, <1>p DEF Start, STARTUP, RUNNING
<1>2. ASSUME NEW starts \in SUBSET Apps, PhaseTimeout(starts) PROVE Turn(m, m')
  <2> DEFINE s == [m EXCEPT !.phaseTimer = FALSE]
  <2>1. /\ s \in Manager /\ s.phase = m.phase /\ s.clients = m.clients /\ s.told = m.told
        /\ s.next = m.next /\ s.query = m.query /\ s.mode = m.mode
    BY <1>m DEF Manager
  <2>2. m' = EndPhase(s)
    BY <1>2, <1>m, <1>p, <2>1 DEF PhaseTimeout, Manager, STARTUP, RUNNING, EXIT
  <2> HIDE DEF s
  <2>3. Turn(m, s)
    BY <2>1, SameTurn DEF Heeds
  <2>4. Turn(s, EndPhase(s))
    BY <2>1, <2>3, EndPhaseTurn DEF Turn
  <2> QED BY <2>2, <2>3, <2>4, TurnTwice
<1>3. ASSUME NEW starts \in SUBSET Apps, NEW a \in Apps, AppExited(a, starts)
      PROVE  Turn(m, m')
  BY <1>3, <1>i DEF AppExited
<1>4. ASSUME NEW starts \in SUBSET Apps, NEW c \in DBusClients,
             NEW owner \in Apps \cup {"none"}, RegisterClient(c, owner, starts)
      PROVE  Turn(m, m')
  <2> DEFINE s == [m EXCEPT !.clients = m.clients \cup {c},
                            !.registered = m.registered \cup {c},
                            !.seen = m.seen \cup {c}]
  <2>1. /\ s.phase = m.phase /\ s.clients = m.clients \cup {c} /\ s.told = m.told
        /\ s.next = m.next /\ s.query = m.query /\ s.mode = m.mode /\ s.pending = m.pending
    BY <1>m DEF Manager
  <2>2. m' = IF owner \in Apps THEN AppRegistered(s, owner, starts) ELSE s
    BY <1>4 DEF RegisterClient
  <2> HIDE DEF s
  <2>3. Turn(m, s) /\ AppRegistered(s, owner, starts) = s
    BY <1>4, <1>m, <1>i, <2>1, RegisteringTurn DEF RegisterClient
  <2> QED BY <2>2, <2>3
<1>5. ASSUME NEW starts \in SUBSET Apps, NEW c \in XSMPClients,
             NEW owner \in Apps \cup {"new", "unknown"}, RegisterXSMPClient(c, owner, starts)
      PROVE  Turn(m, m')
  <2> DEFINE h == [m.handlers EXCEPT ![c] = m.handlers[c] + 1]
             s == [m EXCEPT !.handlers = h]
             r == [s EXCEPT !.registered = s.registered \cup {c}]
  <2>1. /\ s.phase = m.phase /\ s.clients = m.clients /\ s.told = m.told
        /\ s.next = m.next /\ s.query = m.query /\ s.mode = m.mode /\ s.pending = m.pending
    BY <1>m DEF Manager
  <2>2. /\ r.phase = m.phase /\ r.clients = m.clients /\ r.told = m.told
        /\ r.next = m.next /\ r.query = m.query /\ r.mode = m.mode /\ r.pending = m.pending
    BY <1>m DEF Manager
  <2>3. m' \in {r, s, AppRegistered(r, owner, starts)}
    BY <1>5 DEF RegisterXSMPClient
  <2> HIDE DEF s, r
  <2>4. Turn(m, r) /\ Turn(m, s) /\ AppRegistered(r, owner, starts) = r
    BY <1>5, <1>m, <1>i, <2>1, <2>2, RegisteringTurn DEF RegisterXSMPClient
  <2> QED BY <2>3, <2>4
<1> QED BY <1>1, <1>2, <1>3, <1>4, <1>5 DEF StartupStep

\* A user may cancel the end.
LEMMA UserStepTurn ==
  ASSUME TypeOK, Heeds(m), UserStep
  PROVE  m'.told[X] = "cancel" \/ Turn(m, m')
<1>m. m \in Manager
  BY DEF TypeOK
<1>1. ASSUME NEW mode \in LogoutModes, NEW prompt \in BOOLEAN, Logout(mode, prompt)
      PROVE  Turn(m, m')
  BY <1>1, <1>m, ShowLogoutDialogTurn, RequestLogoutTurn DEF Logout
<1>2. ASSUME Shutdown PROVE Turn(m, m')
  BY <1>2, <1>m, ShowLogoutDialogTurn DEF Shutdown
<1>3. ASSUME NEW type \in {"reboot", "shutdown"}, RequestShutdownOrReboot(type)
      PROVE  Turn(m, m')
  BY <1>3, <1>m, RequestEndTurn DEF RequestShutdownOrReboot, LogoutTypes
<1>4. ASSUME NEW answer \in {"cancel", "switch-user", "logout", "suspend", "reboot",
                             "shutdown"},
             LogoutDialogResponse(answer)
      PROVE  Turn(m, m')
  <2> DEFINE s == [m EXCEPT !.logoutDialog = "none"]
             w == [m EXCEPT !.outcome = "assertion"]
             d == [s EXCEPT !.inhibitDialog = answer]
             l == [s EXCEPT !.mode = "no-confirmation"]
  <2>1. /\ s \in Manager /\ s.phase = m.phase /\ s.clients = m.clients /\ s.told = m.told
        /\ s.next = m.next /\ s.query = m.query /\ s.mode = m.mode
    BY <1>m DEF Manager, LogoutDialogs
  <2>2. /\ w.phase = m.phase /\ w.clients = m.clients /\ w.told = m.told
        /\ w.next = m.next /\ w.query = m.query /\ w.mode = m.mode
    BY <1>m DEF Manager
  <2>3. /\ d.phase = m.phase /\ d.clients = m.clients /\ d.told = m.told
        /\ d.next = m.next /\ d.query = m.query /\ d.mode = m.mode
    BY <1>m DEF Manager
  <2>4. \/ m' \in {s, w, d}
        \/ m.mode = "normal" /\ m' = RequestEnd(l, "logout")
        \/ answer \in {"reboot", "shutdown"} /\ m' = RequestEnd(s, answer)
    BY <1>4 DEF LogoutDialogResponse, RequestInhibitable, RequestLogout
  <2>5. /\ l \in Manager /\ l.phase = m.phase /\ l.clients = m.clients /\ l.told = m.told
        /\ l.next = m.next /\ l.query = m.query
    BY <1>m, <2>1 DEF Manager, LogoutModes
  <2> HIDE DEF s, w, d, l
  <2>6. Turn(m, s) /\ Turn(m, w) /\ Turn(m, d)
    BY <2>1, <2>2, <2>3, SameTurn DEF Heeds
  <2>7. Turn(s, RequestEnd(s, answer)) \/ answer \notin {"reboot", "shutdown"}
    BY <2>1, <2>6, RequestEndTurn DEF Turn, LogoutTypes
  <2>8. CASE m.mode = "normal" /\ m' = RequestEnd(l, "logout")
    <3>1. Heeds(l)
      BY <2>5 DEF Heeds
    <3>2. Turn(m, l)
      BY <2>5, <2>8, <3>1 DEF Turn, Heeds, RUNNING, EXIT
    <3>3. Turn(l, RequestEnd(l, "logout"))
      BY <2>5, <3>1, RequestEndTurn DEF LogoutTypes
    <3> QED BY <2>8, <3>2, <3>3, TurnTwice
  <2> QED BY <2>4, <2>6, <2>7, <2>8, TurnTwice
<1>5. ASSUME NEW accept \in BOOLEAN, InhibitDialogResponse(accept)
      PROVE  m'.told[X] = "cancel" \/ Turn(m, m')
  <2> DEFINE s == [m EXCEPT !.inhibitDialog = "none"]
  <2>1. /\ s \in Manager /\ s.phase = m.phase /\ s.clients = m.clients /\ s.told = m.told
        /\ s.next = m.next /\ s.query = m.query /\ s.mode = m.mode
    BY <1>m DEF Manager, InhibitDialogs
  <2>2. m' \in {s, AcceptInhibitDialog(m), CancelEndSession(s)}
    BY <1>5 DEF InhibitDialogResponse
  <2> HIDE DEF s
  <2>3. Turn(m, s)
    BY <2>1, SameTurn DEF Heeds
  <2>4. CancelEndSession(s).told[X] = "cancel" \/ CancelEndSession(s) = s
    BY <2>1, <2>3, CancelTold DEF Turn
  <2> QED BY <1>m, <2>2, <2>3, <2>4, AcceptInhibitDialogTurn
<1> QED BY <1>1, <1>2, <1>3, <1>4, <1>5 DEF UserStep

LEMMA ResponseTurn ==
  ASSUME TypeOK, Heeds(m), NEW c \in Clients, NEW isOk \in BOOLEAN, NEW doLast \in BOOLEAN,
         NEW cancel \in BOOLEAN, c = X => ~ doLast,
         EndSessionResponse(c, isOk, doLast, cancel)
  PROVE  \/ m'.told[X] = "cancel"
         \/ Turn(m, m') /\ (c = X /\ m'.phase = m.phase => m'.query[X] = 0)
<1>m. m \in Manager /\ m' = HandleEndSessionResponse(m, c, isOk, doLast, cancel)
  BY DEF TypeOK, EndSessionResponse
<1>1. CASE cancel = FALSE
  BY <1>m, <1>1, HandleEndSessionResponseTurn
<1>2. CASE cancel = TRUE
  <2>1. \/ m.phase < QUERY_END_SESSION /\ m' = m
        \/ m' = CancelEndSession(m) /\ ~ (m.phase < QUERY_END_SESSION)
    BY <1>m, <1>2 DEF HandleEndSessionResponse, Manager, STARTUP, EXIT, QUERY_END_SESSION
  <2>2. Turn(m, m) /\ (m.phase < QUERY_END_SESSION => m.query[X] = 0)
    BY SameTurn DEF Heeds, RUNNING, QUERY_END_SESSION, END_SESSION, EXIT
  <2>3. ~ (m.phase < QUERY_END_SESSION) => CancelEndSession(m).told[X] = "cancel"
    BY <1>m, CancelTold
  <2> QED BY <2>1, <2>2, <2>3
<1> QED BY <1>1, <1>2

LEMMA QueryTimeoutTurn ==
  ASSUME TypeOK, SafetyInvariant, Heeds(m), QueryTimeout
  PROVE  Turn(m, m')
<1> DEFINE silent == {c \in Clients : m.query[c] > 0}
           j == IF m.mode = "force" THEN m.jit ELSE m.jit \cup silent
           t == [m EXCEPT !.queryTimer = FALSE, !.query = NoClients, !.jit = j]
<1>m. m \in Manager /\ m.outcome = "running"
  BY DEF TypeOK, QueryTimeout, Idle
<1>p. m.phase = QUERY_END_SESSION
  BY <1>m DEF QueryTimeout, SafetyInvariant, Consistent, Phased, Quiet, Heeds,
       RUNNING, QUERY_END_SESSION, END_SESSION, EXIT
<1>1. j \in SUBSET Clients /\ NoClients \in ClientBag /\ NoClients[X] = 0
  BY <1>m, XIsClient DEF Manager, NoClients, ClientBag
<1>2. m' = QueryComplete(t)
  BY DEF QueryTimeout
<1> HIDE DEF j
<1>3. /\ t \in Manager /\ t.phase = m.phase /\ t.clients = m.clients /\ t.told = m.told
      /\ t.next = m.next /\ t.query[X] = 0 /\ t.mode = m.mode
  BY <1>m, <1>1 DEF Manager
<1> HIDE DEF t
<1>4. Turn(m, t)
  BY <1>3, SameTurn DEF Heeds
<1>5. Turn(t, QueryComplete(t))
  BY <1>p, <1>3, <1>4, QueryCompleteTurn DEF Turn
<1> QED BY <1>2, <1>4, <1>5, TurnTwice

\* What the clients other than X do
LEMMA OthersTurn ==
  ASSUME TypeOK, Heeds(m),
         \/ \E c \in XSMPClients \ {X} : AcceptXSMPConnection(c) \/ XSMPClientGone(c)
         \/ \E c \in Clients \ {X}, isOk, doLast, cancel \in BOOLEAN :
              EndSessionResponse(c, isOk, doLast, cancel)
         \/ \E n \in BusNames : NameOwnerLost(n)
         \/ BusDisconnected
         \/ \E c \in DBusClients : DisconnectNext(c)
         \/ \E i \in Inhibitors : Inhibit(i) \/ Uninhibit(i)
  PROVE  m'.told[X] = "cancel" \/ Turn(m, m')
<1>m. m \in Manager /\ X \in m.clients
  BY DEF TypeOK, Heeds
<1>0. Turn(m, m) /\ EndIfLastClientLeft(m) = m
  BY <1>m, SameTurn DEF Heeds, EndIfLastClientLeft
<1>1. ASSUME NEW c \in XSMPClients \ {X}, AcceptXSMPConnection(c) PROVE Turn(m, m')
  <2>1. /\ m'.phase = m.phase /\ m'.clients = m.clients \cup {c} /\ m'.told = m.told
        /\ m'.next = m.next /\ m'.query = m.query /\ m'.mode = m.mode
    BY <1>1, <1>m DEF AcceptXSMPConnection, Manager
  <2> QED BY <1>m, <2>1, SameTurn
<1>2. ASSUME NEW c \in XSMPClients \ {X}, XSMPClientGone(c) PROVE Turn(m, m')
  <2> DEFINE t == OnClientDisconnected(m, c)
             u == OnClientDisconnected(t, c)
  <2>1. c \in Clients /\ c # X
    BY <1>2 DEF Clients
  <2>2. t \in Manager /\ Turn(m, t)
    BY <1>m, <2>1, LeavingTurn DEF OnClientDisconnected
  <2>3. m' \in {m, t, u}
    BY <1>2 DEF XSMPClientGone
  <2> HIDE DEF t
  <2>4. Turn(t, u)
    BY <2>1, <2>2, LeavingTurn DEF OnClientDisconnected, Turn
  <2> QED BY <1>0, <2>2, <2>3, <2>4, TurnTwice
<1>3. ASSUME NEW c \in Clients \ {X}, NEW isOk \in BOOLEAN, NEW doLast \in BOOLEAN,
             NEW cancel \in BOOLEAN, EndSessionResponse(c, isOk, doLast, cancel)
      PROVE  m'.told[X] = "cancel" \/ Turn(m, m')
  BY <1>3, ResponseTurn
<1>4. ASSUME NEW n \in BusNames, NameOwnerLost(n) PROVE Turn(m, m')
  <2> DEFINE taken == {i \in m.inhibitors : InhibitorBus[i] = n}
             jit == {c \in m.jit \cap DBusClients : ClientBus[c] = n}
             s == RemoveInhibitors(m, taken, jit)
  <2>1. Turn(m, s)
    BY <1>m, RemoveInhibitorsTurn
  <2>2. m' \in {s, EndIfLastClientLeft(s)}
    BY <1>4 DEF NameOwnerLost
  <2> HIDE DEF s
  <2>3. EndIfLastClientLeft(s) = s
    BY <2>1 DEF Turn, Heeds, EndIfLastClientLeft
  <2> QED BY <2>1, <2>2, <2>3
<1>5. CASE BusDisconnected
  <2>1. m' = m
    BY <1>0, <1>5 DEF BusDisconnected
  <2> QED BY <1>0, <2>1
<1>6. ASSUME NEW c \in DBusClients, DisconnectNext(c) PROVE Turn(m, m')
  <2> DEFINE t == RemoveClient(DisconnectClient(m, c), c)
  <2>1. c \in Clients /\ c # X
    BY <1>6, XIsClient DEF Clients
  <2>2. Turn(m, t) /\ EndIfLastClientLeft(t) = t
    BY <1>m, <2>1, LeavingTurn
  <2>3. m' \in {t, EndIfLastClientLeft(t)}
    BY <1>6 DEF DisconnectNext
  <2> HIDE DEF t
  <2> QED BY <2>2, <2>3
<1>7. ASSUME NEW i \in Inhibitors, Inhibit(i) PROVE Turn(m, m')
  <2>1. /\ m'.phase = m.phase /\ m'.clients = m.clients /\ m'.told = m.told
        /\ m'.next = m.next /\ m'.query = m.query /\ m'.mode = m.mode
    BY <1>7, <1>m DEF Inhibit, Manager
  <2> QED BY <1>m, <2>1, SameTurn
<1>8. ASSUME NEW i \in Inhibitors, Uninhibit(i) PROVE Turn(m, m')
  BY <1>8, <1>m, RemoveInhibitorsTurn DEF Uninhibit
<1> QED BY <1>1, <1>2, <1>3, <1>4, <1>5, <1>6, <1>7, <1>8

\* A fatal signal has ended the session: no handler runs any more.
Signalled == m.outcome = "signal" /\ m.phase = EXIT /\ leaving = {}

LEMMA SignalledIsLast ==
  ASSUME Signalled
  PROVE  ~ Idle /\ ~ ManagerStep
<1>1. ~ Idle
  BY DEF Signalled, Idle
<1>2. m.phase # STARTUP /\ \A c \in DBusClients : c \notin leaving
  BY DEF Signalled, STARTUP, EXIT
<1>3. ~ StartupStep
  BY <1>1, <1>2
     DEF StartupStep, Start, PhaseTimeout, AppExited, RegisterClient, RegisterXSMPClient
<1>4. ~ UserStep
  BY <1>1 DEF UserStep, Logout, Shutdown, RequestShutdownOrReboot, LogoutDialogResponse,
              InhibitDialogResponse
<1> QED
  BY <1>1, <1>2, <1>3, <1>4
     DEF ManagerStep, QueryTimeout, FatalSignal, AcceptXSMPConnection, XSMPClientGone,
         EndSessionResponse, NameOwnerLost, BusDisconnected, DisconnectNext, Inhibit,
         Uninhibit

LEMMA ManagerStepTurn ==
  ASSUME TypeOK, SafetyInvariant, Heeds(m), ManagerStep
  PROVE  \/ m'.told[X] = "cancel"
         \/ Turn(m, m')
         \/ /\ Idle /\ Signalled'
            /\ m'.told = m.told /\ m'.query = m.query
<1>1. CASE StartupStep
  BY <1>1, StartupStepTurn
<1>2. CASE UserStep
  BY <1>2, UserStepTurn
<1>3. CASE QueryTimeout
  BY <1>3, QueryTimeoutTurn
<1>4. CASE FatalSignal
  BY <1>4 DEF FatalSignal, Idle, Signalled, TypeOK, Manager
<1> QED BY <1>1, <1>2, <1>3, <1>4, OthersTurn DEF ManagerStep

-----------------------------------------------------------------------------
(* The manager waits only for an answer that is on its way *)

\* X takes part in the end of the session until a signal ends it; what the
\* manager waits for it has asked for; and it asks for nothing after a Die.
HeedInv ==
  cancels = 0 /\ egg.connected =>
    /\ Heeds(m) \/ Signalled
    /\ m.query[X] > 0 => Busy(server)
    /\ Unended(server) \/ (Heeds(m) /\ m.phase = EXIT)

\* To the manager the session with X is one of those of SessionManager.
LEMMA StepIsManagers ==
  ASSUME [XSMPNext]_xsmpVars
  PROVE  [Next]_vars
<1>1. X \in XSMPClients /\ X \in Clients
  BY XSMPAssumption DEF Clients
<1>2. CASE ManagerStep
  BY <1>2 DEF ManagerStep, Next, ClientStep
<1>3. CASE ManagerReceives
  <2>1. ASSUME NEW isOk \in BOOLEAN, NEW cancel \in BOOLEAN,
               EndSessionResponse(X, isOk, FALSE, cancel)
        PROVE  Next
    BY <1>1, <2>1 DEF Next, ClientStep
  <2>2. ASSUME NEW fast \in BOOLEAN, NEW prompt \in BOOLEAN,
               Logout(IF fast THEN "no-confirmation" ELSE "normal", prompt)
        PROVE  Next
    BY <2>2 DEF Next, UserStep, LogoutModes
  <2> QED
    BY <1>3, <2>1, <2>2
       DEF ManagerReceives, SaveYourselfDoneReceived, InteractRequestReceived,
           InteractDoneReceived, SaveYourselfRequestReceived, Refuses
<1>4. CASE ConnectionClosed
  BY <1>1, <1>4 DEF ConnectionClosed, Next, ClientStep
<1>5. CASE ApplicationReceives
  BY <1>5 DEF ApplicationReceives, SaveYourselfHeard, InteractHeard, SaveCompleteHeard,
              ShutdownCancelledHeard, DieHeard, Hears, ManagerLost
<1>6. CASE ApplicationStep
  BY <1>6 DEF ApplicationStep, IdleDispatched, ApplicationAnswers, ApplicationEndsSession,
              ApplicationDies
<1>7. CASE UNCHANGED xsmpVars
  BY <1>7 DEF xsmpVars
<1> QED BY <1>2, <1>3, <1>4, <1>5, <1>6, <1>7 DEF XSMPNext

\* What X hears of a handler
LEMMA ToldTurn ==
  ASSUME NEW s, ServerOK(s), Heeds(m), Turn(m, m')
  PROVE  LET t == Told(s)
         IN  /\ Adds(s, t)
             /\ m'.phase = m.phase => t = s
             /\ m'.phase # m.phase /\ m'.query[X] > 0 => Busy(t)
             /\ Unended(s) => Unended(t) \/ m'.phase = EXIT
<1>1. m'.told[X] # "cancel" /\ m.phase \in RUNNING..EXIT /\ m'.phase \in RUNNING..EXIT
      /\ m'.phase >= m.phase
  BY DEF Turn, Heeds, RUNNING, QUERY_END_SESSION, END_SESSION, EXIT
<1>2. CASE m'.phase = m.phase
  <2>1. m'.told[X] = m.told[X]
    BY <1>1, <1>2 DEF Turn, Heeds, RUNNING, QUERY_END_SESSION, END_SESSION, EXIT
  <2>2. Told(s) = s
    BY <2>1 DEF Told
  <2> QED BY <1>2, <2>2 DEF Adds
<1>3. CASE m'.phase = EXIT /\ m'.phase # m.phase
  BY <1>1, <1>3, ToldAdds
     DEF Turn, Heeds, RUNNING, QUERY_END_SESSION, END_SESSION, EXIT
<1>4. CASE m'.phase # EXIT /\ m'.phase # m.phase
  <2> DEFINE type == IF m'.told[X] = "query" THEN "global"
                     ELSE IF AutoSave THEN "both" ELSE "global"
             ask == m'.told[X] = "query" /\ ~ (m'.mode = "force")
  <2>1. m'.told[X] \in {"query", "end"} /\ m'.told[X] # m.told[X]
    BY <1>1, <1>4 DEF Turn, Heeds, RUNNING, QUERY_END_SESSION, END_SESSION, EXIT
  <2>2. Told(s) = Csm!DoSaveYourself(s, type, ask)
    BY <2>1 DEF Told, Csm!Hear
  <2>3. type \in Csm!SaveTypes /\ type # "none" /\ ask \in BOOLEAN
    BY DEF Csm!SaveTypes
  <2> HIDE DEF type, ask
  <2> QED BY <1>4, <2>2, <2>3, DoSaveAdds
<1> QED BY <1>2, <1>3, <1>4

\* A handler that runs finds the session not ended.
LEMMA IdleHeeds ==
  ASSUME SafetyInvariant, TypeOK, HeedInv, Idle
  PROVE  /\ m.phase # EXIT /\ ~ Signalled
         /\ cancels = 0 /\ egg.connected => Heeds(m) /\ Unended(server)
<1>1. m.outcome = "running"
  BY DEF Idle
<1>2. m.phase # EXIT
  BY <1>1 DEF SafetyInvariant, Consistent, Phased
<1> QED BY <1>1, <1>2 DEF HeedInv, Signalled

LEMMA CompletionUnended ==
  ASSUME NEW s, ServerOK(s)
  PROVE  LET r == Csm!CompleteSaveYourself(Csm!SaveYourselfEnded(s))
         IN  ServerOK(r) /\ (Unended(s) => Unended(r))
<1> DEFINE t == Csm!SaveYourselfEnded(s)
           r == Csm!CompleteSaveYourself(t)
<1>1. ServerOK(t) /\ t.out = s.out /\ t.current = s.current
  BY DEF Csm!SaveYourselfEnded, ServerOK, ServerFields
<1> HIDE DEF t
<1>2. Csm!SaveComplete \in Csm!ToClient /\ Csm!SaveComplete.msg # "Die"
  BY DEF Csm!ToClient, Csm!SaveComplete
<1>3. ServerOK(r) /\ r.out \in {t.out, Append(t.out, Csm!SaveComplete)}
  BY <1>1, <1>2 DEF Csm!CompleteSaveYourself, Csm!Send, ServerOK, ServerFields
<1> HIDE DEF r
<1>4. Unended(t) => Unended(r)
  BY <1>1, <1>2, <1>3, UnendedAppend DEF Unended
<1> QED BY <1>1, <1>3, <1>4 DEF Unended, t, r

LEMMA HeedInit == XSMPInit => HeedInv
<1> SUFFICES ASSUME XSMPInit PROVE HeedInv
  OBVIOUS
<1>1. /\ m.phase = RUNNING /\ m.clients = {X} /\ m.told[X] = "none"
      /\ m.query[X] = 0 /\ m.next[X] = 0
  BY XIsClient DEF XSMPInit, NewManager, NoClients
<1>2. PICK isNew \in BOOLEAN : server = Csm!Registered(isNew)
  BY DEF XSMPInit
<1>3. Unended(server)
  BY <1>2 DEF Unended, NoneOf, Csm!Registered, Csm!SaveYourself
<1> QED BY <1>1, <1>3 DEF HeedInv, Heeds, RUNNING, QUERY_END_SESSION, END_SESSION, EXIT

LEMMA ManagerStepHeeds ==
  ASSUME TypeOK, SafetyInvariant, TalkInv, HeedInv, ManagerStep
  PROVE  HeedInv'
<1>1. server' = Told(server) /\ CountCancels /\ egg' = egg /\ ServerOK(server)
  BY DEF ManagerStep, TalkInv
<1> SUFFICES ASSUME cancels' = 0, egg'.connected
             PROVE  /\ Heeds(m') \/ Signalled'
                    /\ m'.query[X] > 0 => Busy(server')
                    /\ Unended(server') \/ (Heeds(m') /\ m'.phase = EXIT)
  BY DEF HeedInv
<1>2. cancels = 0 /\ egg.connected /\ m'.told[X] # "cancel"
  BY <1>1, NoneCancelled
<1>3. Heeds(m)
  BY <1>2, SignalledIsLast DEF HeedInv
<1>4. CASE Turn(m, m')
  <2>1. /\ Adds(server, server')
        /\ m'.phase = m.phase => server' = server
        /\ m'.phase # m.phase /\ m'.query[X] > 0 => Busy(server')
        /\ Unended(server) => Unended(server') \/ m'.phase = EXIT
    BY <1>1, <1>3, <1>4, ToldTurn
  <2>2. Heeds(m') /\ (m.phase = EXIT => m'.phase = EXIT)
        /\ (m'.phase = m.phase /\ m'.query[X] > 0 => m.query[X] > 0)
    BY <1>3, <1>4 DEF Turn, Heeds, RUNNING, EXIT
  <2> QED BY <1>2, <2>1, <2>2 DEF HeedInv
<1>5. CASE /\ Idle /\ Signalled'
           /\ m'.told = m.told /\ m'.query = m.query
  <2>1. server' = server /\ Unended(server)
    BY <1>1, <1>2, <1>5, IdleHeeds DEF Told
  <2> QED BY <1>2, <1>5, <2>1 DEF HeedInv
<1> QED BY <1>2, <1>3, <1>4, <1>5, ManagerStepTurn

\* libSM refuses a message, or the application takes one.
LEMMA StandingHeeds ==
  ASSUME HeedInv, UNCHANGED <<vars, cancels>>, egg'.connected => egg.connected,
         \/ server' = server
         \/ ServerOK(server) /\ server.out # <<>> /\ server' = [server EXCEPT !.out = Tail(@)]
  PROVE  HeedInv'
<1>1. CASE server' = server
  BY <1>1 DEF HeedInv, vars, Signalled
<1>2. CASE /\ ServerOK(server) /\ server.out # <<>>
           /\ server' = [server EXCEPT !.out = Tail(@)]
  <2>1. server'.out = Tail(server.out) /\ (Busy(server) => Busy(server'))
    BY <1>2 DEF ServerOK, ServerFields, Busy
  <2>2. Unended(server) => Unended(server')
    BY <1>2, <2>1, UnendedTail
  <2> QED BY <2>1, <2>2 DEF HeedInv, vars, Signalled
<1> QED BY <1>1, <1>2

\* The manager has taken a message about a SaveYourself.
LEMMA ResponseHeeds ==
  ASSUME TypeOK, SafetyInvariant, TalkInv, HeedInv, NEW isOk \in BOOLEAN,
         NEW cancel \in BOOLEAN, EndSessionResponse(X, isOk, FALSE, cancel), CountCancels,
         cancels' = 0, egg.connected, NEW r, ServerOK(r), Unended(server) => Unended(r)
  PROVE  /\ Heeds(m') /\ ServerOK(Told(r))
         /\ Turn(m, m') /\ Heeds(m) /\ m.phase # EXIT
         /\ m'.query[X] > 0 => Busy(Told(r))
         /\ Unended(Told(r)) \/ m'.phase = EXIT
<1>1. cancels = 0 /\ m'.told[X] # "cancel"
  BY NoneCancelled
<1>2. Heeds(m) /\ Unended(r) /\ m.phase # EXIT
  BY <1>1, IdleHeeds DEF EndSessionResponse
<1>3. Turn(m, m') /\ (m'.phase = m.phase => m'.query[X] = 0)
  BY <1>1, <1>2, XIsClient, ResponseTurn
<1>4. /\ Adds(r, Told(r))
      /\ m'.phase # m.phase /\ m'.query[X] > 0 => Busy(Told(r))
      /\ Unended(Told(r)) \/ m'.phase = EXIT
  BY <1>2, <1>3, ToldTurn
<1> QED BY <1>2, <1>3, <1>4 DEF Turn, Adds

LEMMA SaveYourselfDoneHeeds ==
  ASSUME TypeOK, SafetyInvariant, TalkInv, HeedInv, SaveYourselfDoneReceived
  PROVE  HeedInv'
<1>1. EggOK(egg) /\ EggOK(egg') /\ egg'.connected = egg.connected /\ ServerOK(server)
      /\ egg' = [egg EXCEPT !.out = Tail(@)]
  BY TakenByManager DEF SaveYourselfDoneReceived, TalkInv
<1>2. CASE ~ Csm!TakesSaveYourselfDone(server)
  BY <1>1, <1>2, StandingHeeds DEF SaveYourselfDoneReceived, Refuses
<1>3. ASSUME Csm!TakesSaveYourselfDone(server), cancels' = 0, egg'.connected
      PROVE  /\ Heeds(m')
             /\ m'.query[X] > 0 => Busy(server')
             /\ Unended(server') \/ m'.phase = EXIT
  <2> DEFINE r == Csm!CompleteSaveYourself(Csm!SaveYourselfEnded(server))
             q == Told(r)
  <2>1. /\ server' = Csm!StartQueued(q) /\ CountCancels
        /\ EndSessionResponse(X, TRUE, FALSE, FALSE)
    BY <1>3 DEF SaveYourselfDoneReceived
  <2>2. ServerOK(r) /\ (Unended(server) => Unended(r))
    BY <1>1, CompletionUnended
  <2> HIDE DEF r
  <2>3. /\ Heeds(m') /\ ServerOK(q)
        /\ m'.query[X] > 0 => Busy(q)
        /\ Unended(q) \/ m'.phase = EXIT
    BY <1>1, <1>3, <2>1, <2>2, ResponseHeeds
  <2> HIDE DEF q
  <2>4. Adds(q, server') /\ (Unended(q) => Unended(server'))
    BY <2>1, <2>3, StartQueuedAdds
  <2> QED BY <2>3, <2>4 DEF Adds
<1> QED BY <1>2, <1>3 DEF HeedInv

LEMMA InteractRequestHeeds ==
  ASSUME TypeOK, SafetyInvariant, TalkInv, HeedInv, InteractRequestReceived
  PROVE  HeedInv'
<1>1. egg'.connected = egg.connected /\ ServerOK(server)
  BY TakenByManager DEF InteractRequestReceived, TalkInv
<1>2. CASE ~ Csm!TakesInteractRequest(server)
  BY <1>1, <1>2, StandingHeeds DEF InteractRequestReceived, Refuses
<1>3. ASSUME Csm!TakesInteractRequest(server), cancels' = 0, egg'.connected
      PROVE  /\ Heeds(m')
             /\ m'.query[X] > 0 => Busy(server')
             /\ Unended(server') \/ m'.phase = EXIT
  <2> DEFINE q == Told(server)
  <2>1. /\ server' = Csm!SendInteract(q) /\ CountCancels
        /\ EndSessionResponse(X, FALSE, FALSE, FALSE)
    BY <1>3 DEF InteractRequestReceived
  <2>2. /\ Heeds(m') /\ ServerOK(q)
        /\ m'.query[X] > 0 => Busy(q)
        /\ Unended(q) \/ m'.phase = EXIT
    BY <1>1, <1>3, <2>1, ResponseHeeds
  <2> HIDE DEF q
  <2>3. Busy(q) => Busy(server')
    BY <2>1, <2>2 DEF ServerOK, ServerFields, Busy, Csm!SendInteract, Csm!Send
  <2>4. Unended(q) => Unended(server')
    <3>1. Csm!Interact \in Csm!ToClient /\ Csm!Interact.msg # "Die"
      BY DEF Csm!ToClient, Csm!Interact
    <3>2. server'.out = Append(q.out, Csm!Interact)
      BY <2>1, <2>2 DEF ServerOK, ServerFields, Csm!SendInteract, Csm!Send
    <3> QED BY <2>2, <3>1, <3>2, UnendedAppend
  <2> QED BY <2>2, <2>3, <2>4
<1> QED BY <1>2, <1>3 DEF HeedInv

LEMMA InteractDoneHeeds ==
  ASSUME TypeOK, SafetyInvariant, TalkInv, HeedInv, NEW cancel \in BOOLEAN,
         InteractDoneReceived(cancel)
  PROVE  HeedInv'
<1>1. egg'.connected = egg.connected /\ ServerOK(server)
  BY TakenByManager DEF InteractDoneReceived, TalkInv
<1>2. CASE ~ Csm!TakesInteractDone(server, cancel)
  BY <1>1, <1>2, StandingHeeds DEF InteractDoneReceived, Refuses
<1>3. ASSUME Csm!TakesInteractDone(server, cancel), cancels' = 0, egg'.connected
      PROVE  /\ Heeds(m')
             /\ m'.query[X] > 0 => Busy(server')
             /\ Unended(server') \/ m'.phase = EXIT
  <2> DEFINE r == Csm!InteractEnded(server, cancel)
  <2>1. /\ server' = Told(r) /\ CountCancels
        /\ EndSessionResponse(X, TRUE, FALSE, cancel)
    BY <1>3 DEF InteractDoneReceived
  <2>2. ServerOK(r) /\ (Unended(server) => Unended(r))
    BY <1>1 DEF Csm!InteractEnded, ServerOK, ServerFields, Unended
  <2> HIDE DEF r
  <2> QED BY <1>1, <1>3, <2>1, <2>2, ResponseHeeds
<1> QED BY <1>2, <1>3 DEF HeedInv

LEMMA SaveYourselfRequestHeeds ==
  ASSUME TypeOK, SafetyInvariant, TalkInv, HeedInv, NEW fast \in BOOLEAN,
         NEW prompt \in BOOLEAN, SaveYourselfRequestReceived(fast, prompt)
  PROVE  HeedInv'
<1>1. egg'.connected = egg.connected /\ ServerOK(server)
  BY TakenByManager DEF SaveYourselfRequestReceived, TalkInv
<1>2. CASE ~ (m.phase = RUNNING /\ ~ lockdown)
  BY <1>1, <1>2, StandingHeeds DEF SaveYourselfRequestReceived, Refuses
<1>3. ASSUME m.phase = RUNNING /\ ~ lockdown, cancels' = 0, egg'.connected
      PROVE  /\ Heeds(m')
             /\ m'.query[X] > 0 => Busy(server')
             /\ Unended(server') \/ m'.phase = EXIT
  <2> DEFINE mode == IF fast THEN "no-confirmation" ELSE "normal"
  <2>1. Logout(mode, prompt) /\ server' = Told(server) /\ CountCancels
    BY <1>3 DEF SaveYourselfRequestReceived
  <2>2. mode \in LogoutModes
    BY DEF LogoutModes
  <2> HIDE DEF mode
  <2>3. UserStep /\ Idle
    BY <2>1, <2>2 DEF UserStep, Logout
  <2>4. cancels = 0 /\ m'.told[X] # "cancel" /\ Heeds(m) /\ Unended(server)
    BY <1>1, <1>3, <2>1, <2>3, NoneCancelled, IdleHeeds
  <2>5. Turn(m, m')
    BY <2>3, <2>4, UserStepTurn
  <2>6. /\ m'.phase = m.phase => server' = server
        /\ m'.phase # m.phase /\ m'.query[X] > 0 => Busy(server')
        /\ Unended(server) => Unended(server') \/ m'.phase = EXIT
    BY <1>1, <2>1, <2>4, <2>5, ToldTurn
  <2>7. Heeds(m') /\ (m'.phase = m.phase => m'.query[X] = 0)
    BY <1>3, <2>4, <2>5 DEF Turn, Heeds, RUNNING, QUERY_END_SESSION, END_SESSION
  <2> QED BY <2>4, <2>6, <2>7
<1> QED BY <1>2, <1>3 DEF HeedInv

LEMMA ApplicationReceivesHeeds ==
  ASSUME TalkInv, HeedInv, ApplicationReceives
  PROVE  HeedInv'
<1>1. ASSUME NEW message, Hears(message) PROVE HeedInv'
  <2>1. ServerOK(server) /\ server.out # <<>> /\ server' = [server EXCEPT !.out = Tail(@)]
        /\ egg.connected /\ UNCHANGED <<vars, cancels>>
    BY <1>1 DEF Hears, TalkInv
  <2> QED BY <2>1, StandingHeeds
<1>2. CASE ManagerLost
  BY <1>2, StandingHeeds DEF ManagerLost
<1> QED BY <1>1, <1>2 DEF ApplicationReceives, SaveYourselfHeard, InteractHeard,
           SaveCompleteHeard, ShutdownCancelledHeard, DieHeard

LEMMA ApplicationStepHeeds ==
  ASSUME TalkInv, HeedInv, ApplicationStep
  PROVE  HeedInv'
<1>1. UNCHANGED <<vars, server, cancels>>
  BY DEF ApplicationStep, IdleDispatched, ApplicationAnswers, ApplicationEndsSession,
         ApplicationDies
<1>2. EggOK(egg)
  BY DEF TalkInv
<1>3. CASE IdleDispatched
  BY <1>1, <1>2, <1>3, IdleKeepsConnection, StandingHeeds DEF IdleDispatched
<1>4. ASSUME NEW answer \in BOOLEAN, ApplicationAnswers(answer) PROVE HeedInv'
  BY <1>1, <1>2, <1>4, AnswerKeepsConnection, StandingHeeds DEF ApplicationAnswers
<1>5. CASE egg.connected
  BY <1>1, <1>5, StandingHeeds
<1> QED BY <1>3, <1>4, <1>5 DEF ApplicationStep, ApplicationEndsSession, ApplicationDies

LEMMA HeedKept ==
  ASSUME TypeOK, SafetyInvariant, TalkInv, HeedInv, [XSMPNext]_xsmpVars
  PROVE  HeedInv'
<1>1. CASE ManagerStep
  BY <1>1, ManagerStepHeeds
<1>2. CASE ManagerReceives
  BY <1>2, SaveYourselfDoneHeeds, InteractRequestHeeds, InteractDoneHeeds,
     SaveYourselfRequestHeeds DEF ManagerReceives
<1>3. CASE ConnectionClosed
  BY <1>3 DEF ConnectionClosed, HeedInv
<1>4. CASE ApplicationReceives
  BY <1>4, ApplicationReceivesHeeds
<1>5. CASE ApplicationStep
  BY <1>5, ApplicationStepHeeds
<1>6. CASE UNCHANGED xsmpVars
  BY <1>6, StandingHeeds DEF xsmpVars
<1> QED BY <1>1, <1>2, <1>3, <1>4, <1>5, <1>6 DEF XSMPNext

\* What the manager starts with, when the session with X starts
LEMMA XSMPInitSafe == XSMPInit => TypeOK /\ SafetyInvariant
<1> SUFFICES ASSUME XSMPInit PROVE TypeOK /\ SafetyInvariant
  OBVIOUS
<1> DEFINE none == [c \in Clients |-> "none"]
           h == [NoClients EXCEPT ![X] = 1]
<1>1. /\ NoClients \in ClientBag /\ none \in [Clients -> Messages]
      /\ NoClients \in [Clients -> 0..2] /\ h \in [Clients -> 0..2]
      /\ {X} \subseteq Clients
  BY XIsClient DEF NoClients, ClientBag, Messages
<1>2. /\ m = [NewManager EXCEPT !.phase = RUNNING, !.clients = {X}, !.registered = {X},
                                !.handlers = h, !.seen = {X}]
      /\ leaving = {} /\ lockdown = FALSE /\ bus = BusNames /\ peers = {X}
  BY DEF XSMPInit, NewManager
<1>3. \A c \in Clients : none[c] = "none"
  OBVIOUS
<1> HIDE DEF none, h
<1>4. /\ m.phase = RUNNING /\ m.mode = "normal" /\ m.type = "none" /\ m.pending = {}
      /\ m.query = NoClients /\ m.next = NoClients /\ m.phaseTimer = FALSE
      /\ m.queryTimer = FALSE /\ m.inhibitDialog = "none" /\ m.logoutDialog = "none"
      /\ m.clients = {X} /\ m.jit = {} /\ m.seen = {X} /\ m.told = none
  BY <1>2 DEF NewManager, none
<1>5. m \in Manager
  <2> DEFINE n == NewManager
  <2>1. n \in Manager
    BY <1>1 DEF NewManager, none, Manager, STARTUP, EXIT, LogoutModes, LogoutTypes,
       InhibitDialogs, LogoutDialogs, Outcomes
  <2>2. RUNNING \in STARTUP..EXIT
    BY DEF RUNNING, STARTUP, EXIT
  <2>3. m = [n EXCEPT !.phase = RUNNING, !.clients = {X}, !.registered = {X},
                      !.handlers = h, !.seen = {X}]
    BY <1>2
  <2> HIDE DEF n
  <2> QED BY <1>1, <2>1, <2>2, <2>3 DEF Manager
<1>6. TypeOK
  BY <1>2, <1>5, XSMPAssumption DEF TypeOK
<1>7. Core(m)
  BY <1>1, <1>3, <1>4 DEF Core
<1>8. Phased(m)
  BY <1>1, <1>3, <1>4 DEF Phased, Quiet, Waits, STARTUP, RUNNING, QUERY_END_SESSION,
     END_SESSION, EXIT
<1> QED BY <1>6, <1>7, <1>8 DEF SafetyInvariant, Consistent

-----------------------------------------------------------------------------
(* Nobody but the application agrees to the end on its behalf *)

\* What the query asks an application that may refuse
Question == Csm!SaveYourself("global", TRUE)

\* The query has begun the SaveYourself that is not done yet, and is not forced.
Consulting(n, s) ==
  /\ n.phase = QUERY_END_SESSION /\ n.mode # "force"
  /\ s.next # "global" /\ s.current # "none"

\* The application is being asked, or has answered for itself: a refusal that is
\* under way will be taken.
Consulted(s, e, a) ==
  /\ s.cancellable = TRUE
  /\ \A k \in 1..Len(s.out) : s.out[k].msg = "SaveYourself" => s.out[k] = Question
  /\ Only(s, "Interact") \/ e.state = "interact" => s.interacting = TRUE
  /\ e.state = "interact" => a = "asked"
  /\ e.state = "save-yourself-done" /\ Nothing(s) =>
       a = "agreed" \/ (s.interacting = TRUE /\ Refusing(e))

Consents(n, s, e, a) ==
  /\ n.phase <= QUERY_END_SESSION => s.next \in {"none", "global"}
  /\ Consulting(n, s) => Consulted(s, e, a)

ConsInv == cancels = 0 /\ egg.connected => Consents(m, server, egg, app)

\* What is not ended is in conversation.
LEMMA UnendedConverses ==
  ASSUME NEW s, ServerOK(s), NEW e, InTouch(s, e), Unended(s)
  PROVE  Conversation(s, e)
<1>1. \A k \in 1..Len(s.out) : s.out[k].msg # "Die"
  BY DEF Unended, NoneOf
<1>2. Len(s.out) \in Nat
  BY DEF ServerOK
<1> QED BY <1>1, <1>2 DEF InTouch, Dying

\* The query begins: the application is asked, or a query is queued.
LEMMA QueryTold ==
  ASSUME NEW s, ServerOK(s), NEW e, NEW a, Conversation(s, e), s.next \in {"none", "global"},
         m'.told[X] = "query", m.told[X] # "query", m'.phase = QUERY_END_SESSION
  PROVE  Consents(m', Told(s), e, a)
<1> DEFINE ask == ~ (m'.mode = "force")
           r == [s EXCEPT !.current = "global", !.allow = FALSE]
           t == Told(s)
<1>1. t = Csm!DoSaveYourself(s, "global", ask)
  BY DEF Told, Csm!Hear
<1>2. CASE s.next # "none"
  <2>1. t.next = "global"
    BY <1>1, <1>2 DEF Csm!DoSaveYourself
  <2> QED BY <2>1 DEF Consents, Consulting
<1>3. CASE s.next = "none" /\ s.current # "none"
  <2>1. t.next = "global"
    BY <1>1, <1>3 DEF Csm!DoSaveYourself, ServerOK, ServerFields
  <2> QED BY <2>1 DEF Consents, Consulting
<1>4. CASE s.next = "none" /\ s.current = "none"
  <2> DEFINE asks == "global" # "local" /\ ask
  <2>1. t = Csm!SendSaveYourself(r, "global", asks)
    BY <1>1, <1>4 DEF Csm!DoSaveYourself
  <2>2. ServerOK(r) /\ r.next = "none" /\ r.out = s.out
    BY <1>4 DEF ServerOK, ServerFields, Csm!SaveTypes
  <2>3. asks = ask /\ ask \in BOOLEAN /\ "global" \in Csm!SaveTypes
    BY DEF Csm!SaveTypes
  <2> HIDE DEF r, t, asks, ask
  <2>4. t.next = "none"
    BY <2>1, <2>2, <2>3, SendSaves
  <2>5. ASSUME m'.mode # "force" PROVE Consulted(t, e, a)
    <3>1. asks = TRUE
      BY <2>3, <2>5 DEF ask
    <3>2. t.cancellable = TRUE /\ t.out = Append(s.out, Question)
      BY <2>1, <2>2, <3>1 DEF ServerOK, ServerFields, Csm!SendSaveYourself, Csm!Send, Question
    <3>3. /\ Len(s.out) \in Nat /\ Len(t.out) = Len(s.out) + 1
          /\ t.out[Len(s.out) + 1] = Question
          /\ \A k \in 1..Len(s.out) : t.out[k] = s.out[k]
      BY <3>2 DEF ServerOK
    <3>4. Question.msg = "SaveYourself"
      BY DEF Question, Csm!SaveYourself
    <3>5. /\ \A k \in 1..Len(s.out) : s.out[k].msg # "SaveYourself"
          /\ e.state \in {"idle", "save-yourself-done"}
      BY <1>4 DEF Conversation, Nothing, Only
    <3>6. ~ Only(t, "Interact") /\ ~ Nothing(t)
      BY <3>3, <3>4 DEF Only, Nothing
    <3> QED BY <3>2, <3>3, <3>5, <3>6 DEF Consulted
  <2> QED BY <2>4, <2>5 DEF Consents, Consulting, t
<1> QED BY <1>2, <1>3, <1>4

\* A handler of the manager other than for a message of X
LEMMA TurnConsents ==
  ASSUME NEW s, ServerOK(s), NEW e, NEW a, Heeds(m), Turn(m, m'),
         InTouch(s, e), Unended(s), Consents(m, s, e, a)
  PROVE  Consents(m', Told(s), e, a)
<1>1. CASE m'.phase = m.phase
  <2>1. Told(s) = s
    BY <1>1, ToldTurn
  <2>2. Consulting(m', s) => Consulting(m, s)
    BY <1>1 DEF Consulting, Turn
  <2> QED BY <1>1, <2>1, <2>2 DEF Consents
<1>2. CASE m'.phase # m.phase /\ m'.phase <= QUERY_END_SESSION
  <2>1. m.phase = RUNNING /\ m'.phase = QUERY_END_SESSION
    BY <1>2 DEF Turn, Heeds, RUNNING, QUERY_END_SESSION, EXIT
  <2>2. m'.told[X] = "query" /\ m.told[X] # "query" /\ s.next \in {"none", "global"}
    BY <2>1 DEF Turn, Heeds, Consents, RUNNING, QUERY_END_SESSION
  <2> QED BY <2>1, <2>2, UnendedConverses, QueryTold
<1>3. CASE ~ (m'.phase <= QUERY_END_SESSION)
  BY <1>3 DEF Consents, Consulting, QUERY_END_SESSION
<1> QED BY <1>1, <1>2, <1>3

\* A response of X neither begins a query nor, in one, refuses and is not heeded.
LEMMA ResponseStays ==
  ASSUME TypeOK, Heeds(m), NEW isOk \in BOOLEAN, NEW cancel \in BOOLEAN,
         EndSessionResponse(X, isOk, FALSE, cancel), m'.told[X] # "cancel",
         m'.phase <= QUERY_END_SESSION
  PROVE  /\ Turn(m, m') /\ m'.phase = m.phase
         /\ m.phase = QUERY_END_SESSION => cancel = FALSE
<1>1. m \in Manager /\ m' = HandleEndSessionResponse(m, X, isOk, FALSE, cancel)
  BY DEF TypeOK, EndSessionResponse
<1>2. Turn(m, m')
  BY XIsClient, ResponseTurn
<1>3. CASE m.phase < QUERY_END_SESSION
  <2>1. ~ (m.phase >= QUERY_END_SESSION) /\ m.phase # QUERY_END_SESSION
    BY <1>3 DEF Heeds, QUERY_END_SESSION, RUNNING, EXIT
  <2>2. m' = m
    BY <1>1, <1>3, <2>1 DEF HandleEndSessionResponse
  <2> QED BY <1>2, <2>1, <2>2
<1>4. CASE ~ (m.phase < QUERY_END_SESSION)
  <2>1. m.phase = QUERY_END_SESSION /\ m'.phase = QUERY_END_SESSION
    BY <1>2, <1>4 DEF Turn, Heeds, RUNNING, EXIT, QUERY_END_SESSION
  <2>2. cancel = TRUE => m' = CancelEndSession(m)
    BY <1>1, <2>1 DEF HandleEndSessionResponse, QUERY_END_SESSION
  <2>3. cancel = FALSE
    BY <1>1, <1>4, <2>2, CancelTold
  <2> QED BY <1>2, <2>1, <2>3
<1> QED BY <1>3, <1>4


\* The manager takes a message of X within the query: what it has still to hear is
\* the application's refusal.
LEMMA TakenConsents ==
  ASSUME NEW n, NEW s, NEW e, EggOK(e), e.out # <<>>, NEW a, Consents(n, s, e, a),
         Head(e.out) = Refusal => ~ (s.interacting = TRUE /\ s.cancellable = TRUE)
  PROVE  Consents(n, s, [e EXCEPT !.out = Tail(@)], a)
<1> DEFINE t == [e EXCEPT !.out = Tail(@)]
<1>1. t.state = e.state /\ (Refusing(e) /\ Head(e.out) # Refusal => Refusing(t))
  BY TakenTalk DEF Still
<1> HIDE DEF t
<1>2. Consulted(s, e, a) => Consulted(s, t, a)
  BY <1>1 DEF Consulted
<1> QED BY <1>2 DEF Consents, t

LEMMA RefusedConsents ==
  ASSUME TalkInv, ConsInv, NEW message, Receives(message), UNCHANGED <<vars, server, cancels>>,
         message = Refusal => ~ (server.interacting = TRUE /\ server.cancellable = TRUE)
  PROVE  ConsInv'
<1>1. EggOK(egg) /\ egg.out # <<>> /\ Head(egg.out) = message /\ app' = app
      /\ egg' = [egg EXCEPT !.out = Tail(@)] /\ egg'.connected = egg.connected
  BY TakenByManager DEF Receives
<1> QED BY <1>1, TakenConsents DEF ConsInv, vars

\* What the manager takes from X goes with what X and the application are.
LEMMA RespondsInTouch ==
  ASSUME TypeOK, SafetyInvariant, TalkInv, HeedInv, ConsInv, NEW message, Receives(message),
         CountCancels, cancels' = 0, egg'.connected
  PROVE  /\ ServerOK(server) /\ EggOK(egg) /\ egg.out # <<>> /\ Head(egg.out) = message
         /\ egg' = [egg EXCEPT !.out = Tail(@)] /\ app' = app /\ egg'.state = egg.state
         /\ cancels = 0 /\ egg.connected /\ m'.told[X] # "cancel"
         /\ Heeds(m) /\ Unended(server) /\ Conversation(server, egg)
         /\ Consents(m, server, egg, app)
<1>1. EggOK(egg) /\ egg.out # <<>> /\ Head(egg.out) = message /\ app' = app
      /\ egg' = [egg EXCEPT !.out = Tail(@)] /\ egg'.connected = egg.connected
      /\ egg'.state = egg.state
  BY TakenByManager DEF Receives, Still
<1>2. cancels = 0 /\ m'.told[X] # "cancel"
  BY NoneCancelled
<1>3. Heeds(m) /\ Unended(server)
  BY <1>1, <1>2, IdleHeeds DEF Receives
<1>4. ServerOK(server) /\ InTouch(server, egg)
  BY <1>1, <1>2 DEF TalkInv
<1> QED BY <1>1, <1>2, <1>3, <1>4, UnendedConverses DEF ConsInv

LEMMA StartNothing ==
  ASSUME NEW s, ServerOK(s), s.next \in {"none", "global"}, s.current = "none"
  PROVE  LET t == Csm!StartQueued(s)
         IN  t.next \in {"none", "global"} /\ (t.next = "global" \/ t.current = "none")
<1>1. CASE s.next = "global"
  BY <1>1 DEF Csm!StartQueued
<1>2. CASE s.next = "none"
  BY <1>2 DEF Csm!StartQueued, Csm!DoSaveYourself, Csm!SendSaveYourself, ServerOK, ServerFields
<1> QED BY <1>1, <1>2

LEMMA SaveYourselfDoneConsents ==
  ASSUME TypeOK, SafetyInvariant, TalkInv, HeedInv, ConsInv, SaveYourselfDoneReceived
  PROVE  ConsInv'
<1>1. Receives(Egg!SaveYourselfDone) /\ Egg!SaveYourselfDone # Refusal
  BY DEF SaveYourselfDoneReceived, Egg!SaveYourselfDone, Refusal, Egg!InteractDone
<1>2. CASE ~ Csm!TakesSaveYourselfDone(server)
  BY <1>1, <1>2, RefusedConsents DEF SaveYourselfDoneReceived, Refuses
<1>3. ASSUME Csm!TakesSaveYourselfDone(server), cancels' = 0, egg'.connected
      PROVE  Consents(m', server', egg', app')
  <2> DEFINE r == Csm!CompleteSaveYourself(Csm!SaveYourselfEnded(server))
  <2>1. /\ server' = Csm!StartQueued(Told(r)) /\ CountCancels
        /\ EndSessionResponse(X, TRUE, FALSE, FALSE)
    BY <1>3 DEF SaveYourselfDoneReceived
  <2>2. ServerOK(server) /\ m'.told[X] # "cancel" /\ Heeds(m) /\ Consents(m, server, egg, app)
    BY <1>1, <1>3, <2>1, RespondsInTouch
  <2>3. ServerOK(r) /\ r.next = server.next /\ r.current = "none"
    BY <2>2, CompletionUnended
       DEF Csm!CompleteSaveYourself, Csm!SaveYourselfEnded, Csm!Send, ServerOK, ServerFields
  <2> HIDE DEF r
  <2>4. ASSUME m'.phase <= QUERY_END_SESSION
        PROVE  server'.next \in {"none", "global"} /\ ~ Consulting(m', server')
    <3>1. Turn(m, m') /\ m'.phase = m.phase
      BY <2>1, <2>2, <2>4, ResponseStays
    <3>2. Told(r) = r
      BY <2>2, <2>3, <3>1, ToldTurn
    <3>3. r.next \in {"none", "global"}
      BY <2>2, <2>3, <2>4, <3>1 DEF Consents
    <3> QED BY <2>1, <2>3, <3>2, <3>3, StartNothing DEF Consulting
  <2> QED BY <2>4 DEF Consents, Consulting, QUERY_END_SESSION
<1> QED BY <1>2, <1>3 DEF ConsInv

LEMMA InteractRequestConsents ==
  ASSUME TypeOK, SafetyInvariant, TalkInv, HeedInv, ConsInv, InteractRequestReceived
  PROVE  ConsInv'
<1>1. Receives(Egg!InteractRequest) /\ Egg!InteractRequest # Refusal
  BY DEF InteractRequestReceived, Egg!InteractRequest, Refusal, Egg!InteractDone
<1>2. CASE ~ Csm!TakesInteractRequest(server)
  BY <1>1, <1>2, RefusedConsents DEF InteractRequestReceived, Refuses
<1>3. ASSUME Csm!TakesInteractRequest(server), cancels' = 0, egg'.connected
      PROVE  Consents(m', server', egg', app')
  <2>1. /\ server' = Csm!SendInteract(Told(server)) /\ CountCancels
        /\ EndSessionResponse(X, FALSE, FALSE, FALSE)
    BY <1>3 DEF InteractRequestReceived
  <2>2. /\ ServerOK(server) /\ m'.told[X] # "cancel" /\ Heeds(m) /\ app' = app
        /\ egg'.state = egg.state /\ Consents(m, server, egg, app)
    BY <1>1, <1>3, <2>1, RespondsInTouch
  <2>3. ASSUME m'.phase <= QUERY_END_SESSION
        PROVE  /\ server'.next \in {"none", "global"}
               /\ Consulting(m', server') => Consulted(server', egg', app')
    <3>1. Turn(m, m') /\ m'.phase = m.phase
      BY <2>1, <2>2, <2>3, ResponseStays
    <3>2. server' = Csm!SendInteract(server)
      BY <2>1, <2>2, <3>1, ToldTurn
    <3>3. /\ server'.next = server.next /\ server'.current = server.current
          /\ server'.cancellable = server.cancellable /\ server'.interacting = TRUE
          /\ server'.out = Append(server.out, Csm!Interact)
      BY <2>2, <3>2 DEF ServerOK, ServerFields, Csm!SendInteract, Csm!Send
    <3>4. /\ Len(server.out) \in Nat /\ Len(server'.out) = Len(server.out) + 1
          /\ server'.out[Len(server.out) + 1] = Csm!Interact
          /\ \A k \in 1..Len(server.out) : server'.out[k] = server.out[k]
      BY <2>2, <3>3 DEF ServerOK
    <3>5. Csm!Interact.msg # "SaveYourself"
      BY DEF Csm!Interact
    <3>6. Consulting(m', server') => Consulting(m, server)
      BY <3>1, <3>3 DEF Consulting, Turn
    <3>7. Consulted(server, egg, app) => Consulted(server', egg', app')
      BY <2>2, <3>3, <3>4, <3>5 DEF Consulted, Nothing
    <3> QED BY <2>2, <2>3, <3>1, <3>3, <3>6, <3>7 DEF Consents
  <2> QED BY <2>3 DEF Consents, Consulting, QUERY_END_SESSION
<1> QED BY <1>2, <1>3 DEF ConsInv

LEMMA InteractDoneConsents ==
  ASSUME TypeOK, SafetyInvariant, TalkInv, HeedInv, ConsInv, NEW cancel \in BOOLEAN,
         InteractDoneReceived(cancel)
  PROVE  ConsInv'
<1>1. /\ Receives(Egg!InteractDone(cancel)) /\ Egg!InteractDone(cancel).msg = "InteractDone"
      /\ Egg!InteractDone(cancel) = Refusal => cancel = TRUE
  BY DEF InteractDoneReceived, Refusal, Egg!InteractDone
<1>2. CASE ~ Csm!TakesInteractDone(server, cancel)
  <2>1. ~ (server.interacting = TRUE /\ server.cancellable = TRUE)
    BY <1>2 DEF Csm!TakesInteractDone
  <2> QED BY <1>1, <1>2, <2>1, RefusedConsents DEF InteractDoneReceived, Refuses
<1>3. ASSUME Csm!TakesInteractDone(server, cancel), cancels' = 0, egg'.connected
      PROVE  Consents(m', server', egg', app')
  <2> DEFINE r == Csm!InteractEnded(server, cancel)
  <2>1. /\ server' = Told(r) /\ CountCancels
        /\ EndSessionResponse(X, TRUE, FALSE, cancel)
    BY <1>3 DEF InteractDoneReceived
  <2>2. /\ ServerOK(server) /\ EggOK(egg) /\ egg.out # <<>> /\ m'.told[X] # "cancel"
        /\ Heeds(m) /\ app' = app /\ egg'.state = egg.state
        /\ Head(egg.out) = Egg!InteractDone(cancel)
        /\ Conversation(server, egg) /\ Consents(m, server, egg, app)
    BY <1>1, <1>3, <2>1, RespondsInTouch
  <2>3. /\ ServerOK(r) /\ r.next = server.next /\ r.current = server.current
        /\ r.out = server.out
        /\ cancel = FALSE /\ server.cancellable = TRUE => r.cancellable = TRUE
    BY <2>2 DEF Csm!InteractEnded, ServerOK, ServerFields
  <2> HIDE DEF r
  <2>4. ASSUME m'.phase <= QUERY_END_SESSION
        PROVE  /\ server'.next \in {"none", "global"}
               /\ Consulting(m', server') => Consulted(server', egg', app')
    <3>1. Turn(m, m') /\ m'.phase = m.phase /\ (m.phase = QUERY_END_SESSION => cancel = FALSE)
      BY <2>1, <2>2, <2>4, ResponseStays
    <3>2. server' = r
      BY <2>1, <2>2, <2>3, <3>1, ToldTurn
    <3>3. Consulting(m', server') => Consulting(m, server) /\ cancel = FALSE
      BY <2>3, <3>1, <3>2 DEF Consulting, Turn
    <3>4. egg.state = "save-yourself-done" /\ Nothing(server)
      BY <1>1, <2>2, TakenTalk DEF Conversation
    <3>5. ASSUME Consulted(server, egg, app), cancel = FALSE
          PROVE  Consulted(server', egg', app')
      <4>1. Head(egg.out) # Refusal /\ Head(egg.out).msg # "SaveYourselfRequest"
        BY <1>1, <2>2, <3>5 DEF Refusal, Egg!InteractDone
      <4>2. app = "agreed"
        BY <2>2, <3>4, <3>5, <4>1, TakenTalk DEF Consulted
      <4>3. Nothing(server') /\ server'.out = server.out /\ server'.cancellable = TRUE
        BY <2>3, <3>2, <3>4, <3>5 DEF Nothing, Consulted
      <4> QED BY <2>2, <3>4, <3>5, <4>2, <4>3 DEF Consulted, Nothing, Only
    <3> QED BY <2>2, <2>3, <2>4, <3>1, <3>2, <3>3, <3>5 DEF Consents
  <2> QED BY <2>4 DEF Consents, Consulting, QUERY_END_SESSION
<1> QED BY <1>2, <1>3 DEF ConsInv

LEMMA SaveYourselfRequestConsents ==
  ASSUME TypeOK, SafetyInvariant, TalkInv, HeedInv, ConsInv, NEW fast \in BOOLEAN,
         NEW prompt \in BOOLEAN, SaveYourselfRequestReceived(fast, prompt)
  PROVE  ConsInv'
<1>1. Receives(Egg!SaveYourselfRequest(fast)) /\ Egg!SaveYourselfRequest(fast) # Refusal
      /\ Egg!SaveYourselfRequest(fast).msg # "SaveYourselfDone"
  BY DEF SaveYourselfRequestReceived, Egg!SaveYourselfRequest, Refusal, Egg!InteractDone
<1>2. CASE ~ (m.phase = RUNNING /\ ~ lockdown)
  BY <1>1, <1>2, RefusedConsents DEF SaveYourselfRequestReceived, Refuses
<1>3. ASSUME m.phase = RUNNING /\ ~ lockdown, cancels' = 0, egg'.connected
      PROVE  Consents(m', server', egg', app')
  <2> DEFINE mode == IF fast THEN "no-confirmation" ELSE "normal"
  <2>1. Logout(mode, prompt) /\ server' = Told(server) /\ CountCancels
    BY <1>3 DEF SaveYourselfRequestReceived
  <2>2. mode \in LogoutModes
    BY DEF LogoutModes
  <2> HIDE DEF mode
  <2>3. UserStep
    BY <2>1, <2>2 DEF UserStep
  <2>4. /\ ServerOK(server) /\ EggOK(egg) /\ egg.out # <<>> /\ m'.told[X] # "cancel"
        /\ Head(egg.out) # Refusal /\ egg' = [egg EXCEPT !.out = Tail(@)]
        /\ Heeds(m) /\ app' = app /\ Unended(server) /\ cancels = 0 /\ egg.connected
        /\ Consents(m, server, egg, app)
    BY <1>1, <1>3, <2>1, RespondsInTouch
  <2>5. InTouch(server, egg') /\ Consents(m, server, egg', app')
    BY <1>1, <2>4, TakenByManager, TakenConsents
  <2>6. Turn(m, m')
    BY <2>3, <2>4, UserStepTurn
  <2> QED BY <2>1, <2>4, <2>5, <2>6, TurnConsents
<1> QED BY <1>2, <1>3 DEF ConsInv

LEMMA ManagerStepConsents ==
  ASSUME TypeOK, SafetyInvariant, TalkInv, HeedInv, ConsInv, ManagerStep
  PROVE  ConsInv'
<1>1. server' = Told(server) /\ CountCancels /\ egg' = egg /\ app' = app /\ ServerOK(server)
  BY DEF ManagerStep, TalkInv
<1> SUFFICES ASSUME cancels' = 0, egg'.connected
             PROVE  Consents(m', server', egg', app')
  BY DEF ConsInv
<1>2. cancels = 0 /\ egg.connected /\ m'.told[X] # "cancel"
  BY <1>1, NoneCancelled
<1>3. Heeds(m) /\ InTouch(server, egg) /\ Consents(m, server, egg, app)
  BY <1>2, SignalledIsLast DEF HeedInv, TalkInv, ConsInv
<1>4. CASE Turn(m, m')
  <2>1. CASE Unended(server)
    BY <1>1, <1>3, <1>4, <2>1, TurnConsents
  <2>2. CASE ~ Unended(server)
    <3>1. m'.phase = EXIT
      BY <1>2, <1>4, <2>2 DEF HeedInv, Turn, Heeds, RUNNING, EXIT
    <3> QED BY <3>1 DEF Consents, Consulting, QUERY_END_SESSION, EXIT
  <2> QED BY <2>1, <2>2
<1>5. CASE Signalled'
  BY <1>5 DEF Signalled, Consents, Consulting, QUERY_END_SESSION, EXIT
<1> QED BY <1>2, <1>3, <1>4, <1>5, ManagerStepTurn

\* The application hears a message and makes of it what it may answer.
LEMMA HeardConsents ==
  ASSUME TalkInv, HeedInv, ConsInv, NEW message, Hears(message), cancels' = 0,
         Consulted(server, egg, app) /\ Conversation(server, egg)
           => Consulted(server', egg', app')
  PROVE  ConsInv'
<1>1. /\ ServerOK(server) /\ server' = [server EXCEPT !.out = Tail(@)] /\ m' = m
      /\ egg.connected /\ cancels = 0 /\ InTouch(server, egg)
  BY HeardByApplication
<1>2. Consents(m, server, egg, app)
  BY <1>1 DEF ConsInv
<1>3. server'.next = server.next /\ server'.current = server.current
  BY <1>1 DEF ServerOK, ServerFields
<1>4. ASSUME Consulting(m', server') PROVE Consulted(server', egg', app')
  <2>1. Consulted(server, egg, app)
    BY <1>1, <1>2, <1>3, <1>4 DEF Consents, Consulting
  <2>2. Unended(server)
    BY <1>1, <1>4 DEF HeedInv, Consulting, QUERY_END_SESSION, EXIT
  <2>3. Conversation(server, egg)
    BY <1>1, <2>2, UnendedConverses
  <2> QED BY <2>1, <2>3
<1> QED BY <1>1, <1>2, <1>3, <1>4 DEF ConsInv, Consents


\* What the application hears
LEMMA HeardFirst ==
  ASSUME TalkInv, NEW message, Hears(message)
  PROVE  /\ EggOK(egg) /\ server'.out = Tail(server.out)
         /\ server'.cancellable = server.cancellable
         /\ server'.interacting = server.interacting
         /\ Len(server.out) \in Nat \ {0} /\ Len(server'.out) = Len(server.out) - 1
         /\ server.out[1] = message
         /\ \A k \in 1..Len(server'.out) : server'.out[k] = server.out[k + 1]
         /\ Consulted(server, egg, app) =>
              \A k \in 1..Len(server'.out) :
                server'.out[k].msg = "SaveYourself" => server'.out[k] = Question
<1>1. /\ ServerOK(server) /\ EggOK(egg) /\ server.out # <<>> /\ Head(server.out) = message
      /\ server' = [server EXCEPT !.out = Tail(@)]
  BY HeardByApplication
<1>2. /\ server'.out = Tail(server.out) /\ server'.cancellable = server.cancellable
      /\ server'.interacting = server.interacting /\ server.out \in Seq(Csm!ToClient)
  BY <1>1 DEF ServerOK, ServerFields
<1> DEFINE out == server.out
           rest == server'.out
<1>3. out \in Seq(Csm!ToClient) /\ out # <<>> /\ rest = Tail(out) /\ Head(out) = message
  BY <1>1, <1>2
<1> HIDE DEF out, rest
<1>4. /\ Len(out) \in Nat \ {0} /\ Len(rest) = Len(out) - 1 /\ out[1] = message
      /\ \A k \in 1..Len(rest) : rest[k] = out[k + 1] /\ k + 1 \in 1..Len(out)
  BY <1>3
<1>5. Consulted(server, egg, app) =>
        \A k \in 1..Len(rest) : rest[k].msg = "SaveYourself" => rest[k] = Question
  BY <1>4 DEF Consulted, out
<1> QED BY <1>1, <1>2, <1>4, <1>5 DEF out, rest

LEMMA SaveYourselfHeardConsents ==
  ASSUME TalkInv, HeedInv, ConsInv, NEW type, NEW ask, SaveYourselfHeard(type, ask),
         cancels' = 0
  PROVE  ConsInv'
<1>1. Hears(Csm!SaveYourself(type, ask)) /\ Csm!SaveYourself(type, ask).msg = "SaveYourself"
  BY DEF SaveYourselfHeard, Csm!SaveYourself
<1>2. ASSUME Consulted(server, egg, app), Conversation(server, egg)
      PROVE  Consulted(server', egg', app')
  <2> DEFINE e == [egg EXCEPT !.shutdown = @ \/ type # "local"]
             u == Egg!OnSaveYourself(e, type, ask)
  <2>1. /\ EggOK(egg) /\ server'.cancellable = server.cancellable
        /\ Len(server.out) \in Nat \ {0} /\ Len(server'.out) = Len(server.out) - 1
        /\ server.out[1] = Csm!SaveYourself(type, ask)
    BY <1>1, HeardFirst
  <2>2. Only(server, "SaveYourself") /\ egg.state = "idle"
    BY <1>1, <1>2, <2>1 DEF Conversation, Nothing, Only
  <2>3. Csm!SaveYourself(type, ask) = Question
    BY <1>1, <1>2, <2>1 DEF Consulted
  <2>4. type # "local" /\ ask
    BY <2>3 DEF Csm!SaveYourself, Question
  <2>5. EggOK(e) /\ e.state = "idle"
    BY <2>1, <2>2 DEF EggOK, EggFields
  <2>6. egg' = Egg!EndSessionLoop(u)
    BY DEF SaveYourselfHeard
  <2> HIDE DEF e
  <2>7. EggOK(u) /\ u.state = "interact-request"
    BY <2>4, <2>5, SaveYourselfAnswered
  <2> HIDE DEF u
  <2>8. egg'.state = "interact-request"
    BY <2>6, <2>7, EndSessionLoopIsSameTalk DEF SameTalk, Still
  <2>9. Len(server'.out) = 0
    BY <2>1, <2>2 DEF Only
  <2> QED BY <1>2, <2>1, <2>8, <2>9 DEF Consulted, Only
<1> QED BY <1>1, <1>2, HeardConsents

LEMMA InteractHeardConsents ==
  ASSUME TalkInv, HeedInv, ConsInv, InteractHeard, cancels' = 0
  PROVE  ConsInv'
<1>1. Hears(Csm!Interact) /\ Csm!Interact.msg = "Interact"
  BY DEF InteractHeard, Csm!Interact
<1>2. ASSUME Consulted(server, egg, app), Conversation(server, egg)
      PROVE  Consulted(server', egg', app')
  <2> DEFINE e == [egg EXCEPT !.waits = @ - 1]
             u == Egg!OnInteract(e)
  <2>1. /\ EggOK(egg) /\ server'.cancellable = server.cancellable
        /\ server'.interacting = server.interacting
        /\ Len(server.out) \in Nat \ {0} /\ Len(server'.out) = Len(server.out) - 1
        /\ server.out[1] = Csm!Interact
    BY <1>1, HeardFirst
  <2>2. Only(server, "Interact") /\ egg.state = "interact-request" /\ egg.waits > 0
    BY <1>1, <1>2, <2>1 DEF Conversation, Nothing, Only
  <2>3. egg.waits # 0
    BY <2>2
  <2>4. egg' = Egg!EndSessionLoop(u) /\ app' = "asked"
    BY <2>2, <2>3 DEF InteractHeard, Egg!Asks
  <2>5. EggOK(e) /\ e.state = "interact-request"
    BY <2>1, <2>2 DEF EggOK, EggFields
  <2> HIDE DEF e
  <2>6. EggOK(u) /\ u.state = "interact"
    BY <2>5, InteractedIsEgg DEF Egg!OnInteract, Egg!Asks, EggOK, EggFields
  <2> HIDE DEF u
  <2>7. egg'.state = "interact"
    BY <2>4, <2>6, EndSessionLoopIsSameTalk DEF SameTalk, Still
  <2>8. Len(server'.out) = 0 /\ server'.interacting = TRUE
    BY <1>2, <2>1, <2>2 DEF Only, Consulted
  <2> QED BY <1>2, <2>1, <2>4, <2>7, <2>8 DEF Consulted, Only
<1> QED BY <1>1, <1>2, HeardConsents

LEMMA SaveCompleteHeardConsents ==
  ASSUME TalkInv, HeedInv, ConsInv, SaveCompleteHeard, cancels' = 0
  PROVE  ConsInv'
<1>1. Hears(Csm!SaveComplete) /\ Csm!SaveComplete.msg = "SaveComplete"
  BY DEF SaveCompleteHeard, Csm!SaveComplete
<1>2. ASSUME Consulted(server, egg, app), Conversation(server, egg)
      PROVE  Consulted(server', egg', app')
  <2> DEFINE u == Egg!OnSaveComplete(egg)
  <2>1. /\ EggOK(egg) /\ server'.cancellable = server.cancellable
        /\ Len(server.out) \in Nat \ {0} /\ Len(server'.out) = Len(server.out) - 1
        /\ server.out[1] = Csm!SaveComplete
        /\ \A k \in 1..Len(server'.out) : server'.out[k] = server.out[k + 1]
        /\ \A k \in 1..Len(server'.out) :
             server'.out[k].msg = "SaveYourself" => server'.out[k] = Question
    BY <1>1, <1>2, HeardFirst
  <2>2. egg.state = "save-yourself-done"
        /\ (Len(server.out) = 1 \/ (Len(server.out) = 2 /\ server.out[2].msg = "SaveYourself"))
    BY <1>1, <1>2, <2>1 DEF Conversation, Nothing, Only
  <2>3. EggOK(u) /\ u.state = "idle"
    BY <2>1, <2>2, SaveCompletedIsEgg DEF Egg!OnSaveComplete, EggOK, EggFields
  <2>4. egg' = Egg!EndSessionLoop(u)
    BY DEF SaveCompleteHeard
  <2> HIDE DEF u
  <2>5. egg'.state = "idle"
    BY <2>3, <2>4, EndSessionLoopIsSameTalk DEF SameTalk, Still
  <2>6. ~ Only(server', "Interact")
    BY <2>1, <2>2 DEF Only
  <2> QED BY <1>2, <2>1, <2>5, <2>6 DEF Consulted
<1> QED BY <1>1, <1>2, HeardConsents

LEMMA ApplicationReceivesConsents ==
  ASSUME TalkInv, HeedInv, ConsInv, ApplicationReceives
  PROVE  ConsInv'
<1> SUFFICES ASSUME cancels' = 0, egg'.connected PROVE ConsInv'
  BY DEF ConsInv
<1>1. EggOK(egg)
  BY DEF TalkInv
<1>2. ~ ShutdownCancelledHeard
  BY HeardByApplication DEF ShutdownCancelledHeard, Csm!ShutdownCancelled, Expects
<1>3. egg' # Egg!EndSessionLoop(Egg!Disconnect(egg))
  BY <1>1, DisconnectIsEgg, EndSessionLoopIsSameTalk DEF SameTalk, Still
<1> QED
  BY <1>2, <1>3, SaveYourselfHeardConsents, InteractHeardConsents, SaveCompleteHeardConsents
     DEF ApplicationReceives, DieHeard, ManagerLost

\* Only what the application answers is its consent.
LEMMA ApplicationStepConsents ==
  ASSUME TalkInv, HeedInv, ConsInv, ApplicationStep
  PROVE  ConsInv'
<1> SUFFICES ASSUME cancels' = 0, egg'.connected PROVE Consents(m', server', egg', app')
  BY DEF ConsInv
<1>1. UNCHANGED <<m, server, cancels>> /\ EggOK(egg) /\ ServerOK(server)
  BY DEF ApplicationStep, IdleDispatched, ApplicationAnswers, ApplicationEndsSession,
         ApplicationDies, vars, TalkInv
<1>a. ASSUME egg.connected, SameTalk(egg, egg'), app' = app
      PROVE  Consents(m', server', egg', app')
  BY <1>1, <1>a DEF ConsInv, Consents, Consulting, Consulted, SameTalk, Still
<1>2. CASE IdleDispatched
  <2>1. egg' = Egg!OnIdle(egg) /\ egg.connected
    BY <1>1, <1>2, IdleKeepsConnection DEF IdleDispatched
  <2>2. Prompt(egg)
    BY <1>1, <2>1 DEF TalkInv
  <2>3. SameTalk(egg, egg')
    BY <1>1, <2>1, <2>2, IdleIsSameTalk DEF Prompt
  <2>4. app' = app
    BY <1>2, <2>2 DEF IdleDispatched, Prompt, Egg!TellsQuit, Egg!TellsCancelledLate
  <2> QED BY <1>a, <2>1, <2>3, <2>4
<1>3. ASSUME NEW answer \in BOOLEAN, ApplicationAnswers(answer)
      PROVE  Consents(m', server', egg', app')
  <2>1. /\ egg' = Egg!WillQuit(egg, answer) /\ app = "asked"
        /\ app' = IF answer THEN "agreed" ELSE "working"
    BY <1>3 DEF ApplicationAnswers
  <2>2. egg.connected
    BY <1>1, <2>1, AnswerKeepsConnection
  <2>3. Consents(m, server, egg, app) /\ InTouch(server, egg)
    BY <1>1, <2>2 DEF ConsInv, TalkInv
  <2>4. ASSUME Consulted(server, egg, app), Conversation(server, egg)
        PROVE  Consulted(server, egg', app')
    <3>1. CASE egg.state = "interact"
      <4>1. Silent(egg) /\ Nothing(server) /\ server.interacting = TRUE
        BY <2>4, <3>1 DEF Conversation, Consulted
      <4>2. egg'.state = "save-yourself-done" /\ (~ answer => Refusing(egg'))
        BY <1>1, <2>1, <3>1, <4>1, AnswerInTouch
      <4> QED BY <2>1, <2>4, <4>1, <4>2 DEF Consulted, Nothing, Only
    <3>2. CASE egg.state # "interact"
      <4>1. egg' = egg
        BY <2>1, <2>4, <3>2 DEF Egg!WillQuit, Conversation
      <4> QED BY <2>1, <2>4, <3>2, <4>1 DEF Consulted
    <3> QED BY <3>1, <3>2
  <2>5. Consulting(m, server) => Conversation(server, egg)
    BY <1>1, <2>2, <2>3, UnendedConverses
       DEF HeedInv, Consulting, QUERY_END_SESSION, EXIT
  <2> QED BY <1>1, <2>3, <2>4, <2>5 DEF Consents
<1>4. ASSUME NEW fast \in BOOLEAN, ApplicationEndsSession(fast)
      PROVE  Consents(m', server', egg', app')
  <2> DEFINE e == [egg EXCEPT !.ending = IF fast THEN "fast" ELSE "confirm"]
  <2>1. egg' = Egg!EndSessionLoop(e) /\ app' = app /\ egg.connected
    BY <1>4 DEF ApplicationEndsSession
  <2>2. Still(egg, e) /\ e.out = egg.out
    BY <1>1 DEF Still, Prompt, EggOK, EggFields
  <2> HIDE DEF e
  <2>3. SameTalk(egg, egg')
    BY <2>1, <2>2, UnsaidIsSameTalk, EndSessionLoopIsSameTalk, SameTalkTwice DEF Still
  <2> QED BY <1>a, <2>1, <2>3
<1>5. ~ ApplicationDies
  <2> DEFINE e == [egg EXCEPT !.ending = "no"]
  <2>1. EggOK(e)
    BY <1>1 DEF EggOK, EggFields
  <2>2. ApplicationDies => egg' = Egg!Disconnect(e)
    BY DEF ApplicationDies
  <2> HIDE DEF e
  <2> QED BY <2>1, <2>2, DisconnectIsEgg
<1> QED BY <1>2, <1>3, <1>4, <1>5 DEF ApplicationStep

LEMMA ConsKept ==
  ASSUME TypeOK, SafetyInvariant, TalkInv, HeedInv, ConsInv, [XSMPNext]_xsmpVars
  PROVE  ConsInv'
<1>1. CASE ManagerStep
  BY <1>1, ManagerStepConsents
<1>2. CASE ManagerReceives
  BY <1>2, SaveYourselfDoneConsents, InteractRequestConsents, InteractDoneConsents,
     SaveYourselfRequestConsents DEF ManagerReceives
<1>3. CASE ConnectionClosed
  BY <1>3 DEF ConnectionClosed, ConsInv
<1>4. CASE ApplicationReceives
  BY <1>4, ApplicationReceivesConsents
<1>5. CASE ApplicationStep
  BY <1>5, ApplicationStepConsents
<1>6. CASE UNCHANGED xsmpVars
  BY <1>6 DEF xsmpVars, vars, ConsInv
<1> QED BY <1>1, <1>2, <1>3, <1>4, <1>5, <1>6 DEF XSMPNext

LEMMA ConsInit == XSMPInit => ConsInv
<1> SUFFICES ASSUME XSMPInit PROVE ConsInv
  OBVIOUS
<1>1. m.phase = RUNNING
  BY DEF XSMPInit, NewManager
<1>2. server.next = "none"
  BY DEF XSMPInit, Csm!Registered
<1> QED BY <1>1, <1>2 DEF ConsInv, Consents, Consulting, RUNNING, QUERY_END_SESSION

-----------------------------------------------------------------------------
(* The theorems *)

\* Wherever a SaveYourself is, the two ends of the connection agree on it for as
\* long as no end of the session was cancelled.
THEOREM TalkInvHolds == XSMPSpec => []TalkInv
BY TalkInit, TalkKept, PTL DEF XSMPSpec

\* As long as no end is cancelled EggSMClientXSMP finds every message of the
\* manager in a state in which it expects it, and never has to fix its state.
THEOREM InStepHolds == XSMPSpec => []InStep
<1>1. TalkInv => InStep
  <2> SUFFICES ASSUME TalkInv, cancels = 0, egg.connected, server.out # <<>>
               PROVE  CASE Head(server.out).msg = "SaveYourself" -> egg.state = "idle"
                        [] Head(server.out).msg = "SaveComplete" ->
                             egg.state = "save-yourself-done"
                        [] Head(server.out).msg = "Interact" ->
                             egg.state = "interact-request"
                        [] OTHER -> TRUE
    BY DEF InStep
  <2>1. Expects(egg, Head(server.out).msg)
    BY HeardIsExpected DEF TalkInv
  <2> QED BY <2>1 DEF Expects
<1> QED BY <1>1, TalkInvHolds, PTL

\* With X, too, the manager takes no step but those of SessionManager: what X's
\* library sends is a response, a request to log out or the end of a connection.
THEOREM ManagerStepsHold == XSMPSpec => [][Next]_vars
BY StepIsManagers, PTL DEF XSMPSpec

\* ... so that what is proved of the manager holds of it in a session with X.
THEOREM ManagerIsSafe == XSMPSpec => [](TypeOK /\ SafetyInvariant)
BY XSMPInitSafe, ManagerStepsHold, NextType, NextSafe, PTL DEF XSMPSpec

\* What CsmManager waits for from X it has asked of it through CsmXSMPClient.
THEOREM HeedInvHolds == XSMPSpec => []HeedInv
BY HeedInit, HeedKept, ManagerIsSafe, TalkInvHolds, PTL DEF XSMPSpec

\* The query and the end of a session wait for an application only while
\* do_save_yourself has its SaveYourself queued or sent, or the application or its
\* answer is on the way to save_yourself_done_callback.
THEOREM NotWaitingInVainHolds == XSMPSpec => []NotWaitingInVain
<1>1. TalkInv /\ HeedInv => NotWaitingInVain
  <2> SUFFICES ASSUME TalkInv, HeedInv, Undisturbed, egg.connected, m.query[X] > 0,
                      server.next = "none"
               PROVE  \/ \E k \in 1..Len(server.out) : server.out[k].msg = "SaveYourself"
                      \/ egg.state \in {"interact-request", "interact"}
                      \/ \E k \in 1..Len(egg.out) : egg.out[k].msg = "SaveYourselfDone"
    BY DEF NotWaitingInVain
  <2>1. server.current # "none" /\ InTouch(server, egg)
    BY DEF HeedInv, TalkInv, Undisturbed, Busy
  <2>2. Unended(server)
    BY DEF HeedInv, Undisturbed, Heeds, QUERY_END_SESSION, END_SESSION, EXIT
  <2>3. ~ Dying(server, egg)
    <3>1. \A k \in 1..Len(server.out) : server.out[k].msg # "Die"
      BY <2>2 DEF Unended, NoneOf
    <3>2. Len(server.out) \in Nat
      BY DEF TalkInv, ServerOK
    <3> QED BY <3>1, <3>2 DEF Dying
  <2>4. Conversation(server, egg)
    BY <2>1, <2>3 DEF InTouch
  <2> QED BY <2>1, <2>4 DEF Conversation, Only, Answered, NoneOf
<1> QED BY <1>1, TalkInvHolds, HeedInvHolds, PTL

\* Whom the query asks through CsmXSMPClient answers for itself.
THEOREM ConsInvHolds == XSMPSpec => []ConsInv
BY ConsInit, ConsKept, ManagerIsSafe, TalkInvHolds, HeedInvHolds, PTL DEF XSMPSpec

\* A SaveYourselfDone that save_yourself_done_callback takes as X's consent to an
\* end that is not forced was sent because the application has agreed, as long as
\* no end was cancelled and no query queued behind another SaveYourself.
THEOREM ConsentIsRealUndisturbedHolds == XSMPSpec => ConsentIsRealUndisturbed
<1>1. ASSUME TalkInv, HeedInv, ConsInv, TakesConsent, Undisturbed
      PROVE  app = "agreed"
  <2>1. /\ egg.connected /\ cancels = 0 /\ server.next # "global"
        /\ m.phase = QUERY_END_SESSION /\ m.mode # "force"
        /\ Receives(Egg!SaveYourselfDone)
    BY <1>1 DEF TakesConsent, Undisturbed, SaveYourselfDoneReceived
  <2>2. /\ EggOK(egg) /\ egg.out # <<>> /\ Head(egg.out) = Egg!SaveYourselfDone
        /\ ServerOK(server) /\ InTouch(server, egg)
    BY <1>1, <2>1, TakenByManager DEF TalkInv
  <2>3. Unended(server)
    BY <1>1, <2>1 DEF HeedInv, QUERY_END_SESSION, EXIT
  <2>4. Conversation(server, egg)
    BY <2>2, <2>3, UnendedConverses
  <2>5. Egg!SaveYourselfDone.msg = "SaveYourselfDone" /\ Egg!SaveYourselfDone # Refusal
    BY DEF Egg!SaveYourselfDone, Refusal, Egg!InteractDone
  <2>6. server.current # "none" /\ Nothing(server) /\ egg.state = "save-yourself-done"
    BY <2>2, <2>4, <2>5, TakenTalk DEF Conversation
  <2>7. Consulted(server, egg, app)
    BY <1>1, <2>1, <2>6 DEF ConsInv, Consents, Consulting
  <2>8. ~ Refusing(egg)
    BY <2>2, <2>5, TakenTalk
  <2> QED BY <2>6, <2>7, <2>8 DEF Consulted
<1>2. TalkInv /\ HeedInv /\ ConsInv /\ [XSMPNext]_xsmpVars
        => [TakesConsent /\ Undisturbed => app = "agreed"]_xsmpVars
  BY <1>1
<1> QED
  BY <1>2, TalkInvHolds, HeedInvHolds, ConsInvHolds, PTL
     DEF XSMPSpec, ConsentIsRealUndisturbed
=============================================================================
