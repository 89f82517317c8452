----------------------------- MODULE SessionEnd -----------------------------
(***************************************************************************)
(* What a session manager promises the D-Bus clients of its session about  *)
(* the end of the session, without phases, timers, inhibitors, dialogs or  *)
(* XSMP.  A session asks all of its members before it ends, tells all that *)
(* are left when it goes on, or tells all that are left when it does not.  *)
(* SessionManager implements it: see SessionManagerRefinement.             *)
(***************************************************************************)
CONSTANT Members           \* the clients that may ever join

VARIABLES stage,           \* where the session is
          present,         \* the clients that are in the session
          notice           \* what each of them knows

Stages == {"starting", "running", "asking", "ending", "over", "aborted"}
Notices == {"none", "asked", "ending"}

TypeOK ==
  /\ stage \in Stages
  /\ present \subseteq Members
  /\ notice \in [Members -> Notices]

Init ==
  /\ stage = "starting"
  /\ present = {}
  /\ notice = [c \in Members |-> "none"]

\* The present clients, before the step, get to know something
Notify(what) ==
  notice' = [c \in Members |-> IF c \in present THEN what ELSE notice[c]]

\* Clients join while the session is up or coming up, which may complete it.
Join ==
  /\ stage \in {"starting", "running"}
  /\ stage' \in {stage, "running"}
  /\ present \subseteq present'
  /\ present' \subseteq Members
  /\ UNCHANGED notice

Leave ==
  /\ present' \subseteq present
  /\ UNCHANGED <<stage, notice>>

Ask ==
  /\ stage = "running"
  /\ stage' = "asking"
  /\ Notify("asked")
  /\ UNCHANGED present

\* Going on, perhaps because the client that leaves was the last to answer
GoOn ==
  /\ stage = "asking"
  /\ stage' = "ending"
  /\ Notify("ending")
  /\ present' \subseteq present

\* The last client leaves, told or not: there is nobody to wait for
GoOnAlone ==
  /\ stage = "asking"
  /\ stage' = "over"
  /\ present' = {}
  /\ Notify("ending") \/ UNCHANGED notice

Resume ==
  /\ stage \in {"asking", "ending"}
  /\ stage' = "running"
  /\ Notify("none")
  /\ UNCHANGED present

Finish ==
  /\ stage = "ending"
  /\ stage' = "over"
  /\ present' \subseteq present
  /\ UNCHANGED notice

Abort ==
  /\ stage' = "aborted"
  /\ UNCHANGED <<present, notice>>

Next == Join \/ Leave \/ Ask \/ GoOn \/ GoOnAlone \/ Resume \/ Finish \/ Abort

Spec == Init /\ [][Next]_<<stage, present, notice>>
=============================================================================
