------------------------------ MODULE SystemBus -----------------------------
(***************************************************************************)
(* The connection of the session manager to the service that switches the  *)
(* machine off: logind (csm-systemd.c) or ConsoleKit (csm-consolekit.c),   *)
(* which do the same.  It is made when it is first needed and made again   *)
(* after the bus or the service has gone.                                  *)
(*                                                                         *)
(* A link is a record                                                      *)
(*   conn    dbus_connection: none, live, or dead until that is told       *)
(*   names   there is a bus_proxy, which tells of NameOwnerChanged         *)
(*   proxy   ck_proxy or sd_proxy: none, live, or stale as its service has *)
(*           gone or come anew                                             *)
(*   told    is_connected                                                  *)
(* and a bus is [up |-> BOOLEAN, service |-> BOOLEAN].                     *)
(***************************************************************************)

Links ==
  [conn  : {"none", "live", "dead"},
   names : BOOLEAN,
   proxy : {"none", "live", "stale"},
   told  : BOOLEAN]

NoLink == [conn |-> "none", names |-> FALSE, proxy |-> "none", told |-> FALSE]

\* csm_consolekit_ensure_ck_connection, csm_systemd_ensure_sd_connection; it has
\* succeeded when the proxy is not none
Ensure(link, bus) ==
  LET conn  == IF link.conn = "none" /\ bus.up THEN "live" ELSE link.conn
      names == conn # "none" /\ (link.names \/ conn = "live")
      proxy == IF ~ names THEN "none"
               ELSE IF link.proxy = "none" /\ conn = "live" /\ bus.service THEN "live"
               ELSE link.proxy
  IN  [conn |-> conn, names |-> names, proxy |-> proxy, told |-> proxy # "none"]

\* A call through the link is heard by the service
Reaches(link, bus) == link.conn = "live" /\ link.proxy = "live" /\ bus.service

\* csm_consolekit_dbus_filter, csm_systemd_dbus_filter: the bus has gone; is_connected is
\* left as it was
Disconnected(link) == [NoLink EXCEPT !.told = link.told]

\* Variant: the old proxy is kept
NameOwnerChangedKept(link, bus) == Ensure(link, bus)

\* csm_consolekit_on_name_owner_changed, csm_systemd_on_name_owner_changed
NameOwnerChanged(link, bus) == Ensure([link EXCEPT !.proxy = "none"], bus)

\* What the bus and the service do to a link
BusGone(link) == IF link.conn = "none" THEN link ELSE [link EXCEPT !.conn = "dead"]
ServiceGone(link) == IF link.proxy = "none" THEN link ELSE [link EXCEPT !.proxy = "stale"]
=============================================================================
