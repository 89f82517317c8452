-------------------------- MODULE MCSessionManager --------------------------
(***************************************************************************)
(* Small instances of SessionManager and of its properties.  The values of *)
(* the function constants, defined here, are named in the .cfg files.      *)
(***************************************************************************)
EXTENDS SessionManagerProperties, SessionManagerRefinement

CONSTANTS d1, d2, x1, x2, b1, b2, a1, a2, i1, i2

\* Every D-Bus client on the connection b1, every inhibitor on b2
AllOnFirstBus == [c \in DBusClients |-> b1]
InhibitorsOnSecondBus == [i \in Inhibitors |-> b2]
InhibitorsOnFirstBus == [i \in Inhibitors |-> b1]

\* i1 is about logging out, i2 about everything else
SplitFlags == [i \in Inhibitors |-> IF i = i1 THEN {"logout"}
                                    ELSE {"switch-user", "suspend", "idle"}]
AllFlags == [i \in Inhibitors |-> InhibitorFlags]
LogoutFlags == [i \in Inhibitors |-> {"logout"}]

\* a1 is needed early in the startup, a2 later
TwoPhases == [a \in Apps |-> IF a = a1 THEN 1 ELSE 3]
=============================================================================
