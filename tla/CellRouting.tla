------------------------------ MODULE CellRouting ------------------------------
(***************************************************************************)
(* The addresses and routes that src/mosaic-node-manager.cc sets up for    *)
(* the cellular and the wired network, on top of its node tables.          *)
(*                                                                         *)
(* UEs hang on the PGW by a tunnel each; the PGW and the wired nodes share *)
(* one CSMA backbone, on which an address is found by ARP.  An address is  *)
(* the network MOSAIC chose and a host part that is the node's own (MOSAIC *)
(* gives no address twice); a route is a prefix and where it leads.        *)
(***************************************************************************)
EXTENDS MosaicNodeManager, SequencesExt

Address(node) == Append(cellNetwork[node], node)

Route(prefix, to) == [prefix |-> prefix, to |-> to]

(* Configure(): 5.0.0.0/8 is the backbone itself. *)
PgwRoutes ==
    {Route(<<5>>, "backbone"), Route(<<10>>, "tunnel"),
     Route(<<10, 5>>, "backbone"), Route(<<10, 6>>, "backbone")}

(* Mutant: netmask 255.0.0.0 on the backbone, as on the UEs. *)
WiredRoutes_WideMask(node) ==
    {Route(<<5>>, "backbone"), Route(<<10>>, "backbone"), Route(<< >>, "pgw")}

(* The own network is on the link; for the rest there is the PGW. *)
WiredRoutes(node) ==
    {Route(<<5>>, "backbone"), Route(cellNetwork[node], "backbone"),
     Route(<< >>, "pgw")}

(* Ipv4StaticRouting: the longest prefix wins; "" is no route. *)
LeadsTo(routes, address) ==
    LET matching == {r \in routes : IsPrefix(r.prefix, address)}
        longest == {r \in matching :
                       \A s \in matching : Len(s.prefix) <= Len(r.prefix)}
    IN  IF matching = {} THEN "" ELSE (CHOOSE r \in longest : TRUE).to

(* Devices after the loopback device, and the one the sockets of the proxy *)
(* application for cell messages are bound to.                             *)
Devices(node) == IF node \in m_isRadioNode THEN <<"wifi", "lte">> ELSE <<"csma">>
OutDevice(node) == Devices(node)[IF node \in m_isRadioNode THEN 2 ELSE 1]

(* the application that SendCellMsg uses *)
SendingApp(node) == IF node \in m_isRadioNode THEN CellApp ELSE WiredApp

(* Who answers the ARP request for an address. *)
OnBackbone(address) ==
    {node \in m_isWiredNode \cap DOMAIN cellNetwork : Address(node) = address}

(* The UE to whose tunnel the PGW gives a packet for this address. *)
InTunnel(address) ==
    {node \in DOMAIN pgwAddress :
        pgwAddress[node] = "mosaic" /\ Address(node) = address}

FromPgw(address) ==
    CASE LeadsTo(PgwRoutes, address) = "tunnel" -> InTunnel(address)
      [] LeadsTo(PgwRoutes, address) = "backbone" -> OnBackbone(address)
      [] OTHER -> {}

(* Where a packet ends that a node sends to an address by its cell app:    *)
(* the LTE device gives everything to the bearer, once it is attached.     *)
Receivers(node, address) ==
    CASE OutDevice(node) = "lte" ->
            IF node \in DOMAIN pgwAddress THEN FromPgw(address) ELSE {}
      [] OutDevice(node) = "csma" ->
            IF LeadsTo(WiredRoutes(node), address) = "pgw"
            THEN FromPgw(address)
            ELSE OnBackbone(address)

-----------------------------------------------------------------------------
(* All who have been configured reach each other, in whatever order and    *)
(* with whatever networks that pass the assertions: UEs through the PGW,   *)
(* wired nodes directly within their network and through the PGW beyond    *)
(* it.  In particular the PGW knows a UE by the address MOSAIC gave it     *)
(* ("otherwise the route EPC -> UE is broken").                            *)
CellReaches ==
    NsAssert => \A sender, receiver \in DOMAIN cellNetwork :
        sender # receiver /\ sender \notin m_isDeactivated =>
            /\ <<sender, SendingApp(sender)>> \in enabled
            /\ Receivers(sender, Address(receiver)) = {receiver}
=============================================================================
