---------------------- MODULE SessionManagerRefinement ----------------------
(***************************************************************************)
(* SessionManager implements SessionEnd for its D-Bus clients.             *)
(***************************************************************************)
EXTENDS SessionManager

\* The phase, unless the program did not come to its end
StageOf(s) ==
  CASE s.outcome \notin {"running", "quit"} -> "aborted"
    [] s.outcome \in {"running", "quit"} /\ s.phase < RUNNING -> "starting"
    [] s.outcome \in {"running", "quit"} /\ s.phase = RUNNING -> "running"
    [] s.outcome \in {"running", "quit"} /\ s.phase = QUERY_END_SESSION -> "asking"
    [] s.outcome \in {"running", "quit"} /\ s.phase = END_SESSION -> "ending"
    [] OTHER -> "over"

\* What the last message told the client
NoticeOf(msg) ==
  CASE msg \in {"none", "cancel"} -> "none"
    [] msg = "query"              -> "asked"
    [] OTHER                      -> "ending"

SE == INSTANCE SessionEnd WITH
        Members <- DBusClients,
        stage   <- StageOf(m),
        present <- m.clients \cap DBusClients,
        notice  <- [c \in DBusClients |-> NoticeOf(m.told[c])]

\* Every D-Bus client is asked before the session ends, and whoever was asked
\* is told the outcome, in the order that SessionEnd allows.
ImplementsSessionEnd == SE!Spec
=============================================================================
