----------------------------- MODULE XsmpServer -----------------------------
(***************************************************************************)
(* CsmXsmpServer (cafe-session/csm-xsmp-server.c): what happens to a       *)
(* connection to the ICE socket until a client of the session has come     *)
(* out of it.  The operators are the handlers of the server; they take a   *)
(* connection to its next state.                                           *)
(***************************************************************************)

ConnectionState ==
  {"none",      \* not made
   "ice",       \* accepted by accept_ice_connection, to be authenticated
   "xsmp",      \* a CsmXSMPClient that has not registered
   "client",    \* registered under the startup id its application was given
   "anonymous", \* registered under an id of its own
   "closed"}

Connection ==
  [state   : ConnectionState,
   timeout : BOOLEAN]  \* protocol_timeout is running

NoConnection == [state |-> "none", timeout |-> FALSE]

\* An XSMP client of the session, registered or not
Accepted(c) == c.state \in {"xsmp", "client", "anonymous"}

\* accept_ice_connection and auth_ice_connection
AcceptIce(c) == [state |-> "ice", timeout |-> TRUE]

\* Variant: the watch is left to the new client
AcceptXsmpWatched(c) == [c EXCEPT !.state = "xsmp"]

\* accept_xsmp_connection, with free_ice_connection_watch
AcceptXsmp(c) == [state |-> "xsmp", timeout |-> FALSE]

\* Variant: the timer goes, the connection stays
DropIceLax(c) == [c EXCEPT !.timeout = FALSE]

\* ice_protocol_timeout; and auth_iochannel_watch when the connection has broken
\* or was rejected
DropIce(c) == [state |-> "closed", timeout |-> FALSE]
=============================================================================
