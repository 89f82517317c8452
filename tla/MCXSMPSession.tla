--------------------------- MODULE MCXSMPSession ---------------------------
(***************************************************************************)
(* Small instances of XSMPSession, with one connection to the session bus. *)
(***************************************************************************)
EXTENDS XSMPSession

CONSTANTS d1, x1, b1, i1

OneBus == [c \in DBusClients |-> b1]
InhibitorsOnBus == [i \in Inhibitors |-> b1]
LogoutFlags == [i \in Inhibitors |-> {"logout"}]
NoApps == [a \in Apps |-> APPLICATION]
=============================================================================
