--------------------------- MODULE MosaicNodeManager ---------------------------
(***************************************************************************)
(* The node tables of src/mosaic-node-manager.cc and what hangs on them:   *)
(* the proxy applications of a node, its Wifi phy and its LTE attachment.  *)
(*                                                                         *)
(* The operations are the methods MosaicNs3Bridge calls, at once before    *)
(* OnStart and from scheduled events afterwards, in any order: which order *)
(* the events of a scenario come in is the ambassador's choice.            *)
(*                                                                         *)
(* An ns-3 node id is an index into `kind`: the NodeList after the core    *)
(* nodes of the EPC, which no MOSAIC id is ever bound to.  A map of        *)
(* booleans is the set of the ids it maps to true; positions, powers and   *)
(* the Wifi stack are left out.  Of an IP address only the network matters *)
(* here; CellRouting has the addresses.                                    *)
(***************************************************************************)
EXTENDS Integers, Sequences, FiniteSets

CONSTANTS MosaicId,              \* node ids of MOSAIC
          m_numExtraRadioNodes,  \* radio nodes created in advance
          NoId,                  \* not a MOSAIC id
          MaxNodes,              \* bound on the nodes ever created
          NsAssert               \* are NS_ASSERTs compiled in? (Debug build)

ASSUME NoIdAssumption == NoId \notin MosaicId
ASSUME ExtraAssumption == m_numExtraRadioNodes \in Nat
ASSUME NsAssertAssumption == NsAssert \in BOOLEAN
ASSUME MaxNodesAssumption == MaxNodes \in Nat

VARIABLES kind,                     \* NodeList: what each node was built as
          m_mosaic2nsdrei, m_nsdrei2mosaic,
          m_isRadioNode, m_isWiredNode, m_isDeactivated,
          m_isWifiRadioConfigured, m_isCellRadioConfigured,
          m_extraRadioNodes,
          enabled,                  \* <<node, app>>: apps with m_active
          phyOff,                   \* nodes whose Wifi phy is off
          addresses,                \* addresses of each node's cell interface,
          cellNetwork,              \* and the network of the one from MOSAIC
          pgwAddress,               \* which of them the PGW has, if attached
          m_didRunOnStart,          \* of the bridge
          reported,                 \* last receiver reported, or NoId
          ended                     \* why the process ended, or "no"

tables == <<m_mosaic2nsdrei, m_nsdrei2mosaic, m_isRadioNode, m_isWiredNode>>
config == <<m_isDeactivated, m_isWifiRadioConfigured, m_isCellRadioConfigured>>
ns3 == <<enabled, phyOff, addresses, cellNetwork, pgwAddress>>
vars == <<kind, tables, config, m_extraRadioNodes, ns3, m_didRunOnStart, reported, ended>>

NodeIds == DOMAIN kind

(* the first two bytes of an address: for servers, for the rest, forbidden *)
ServerNetworks == {<<10, 5>>, <<10, 6>>}
Networks == ServerNetworks \cup {<<10, 1>>, <<192, 168>>}

(* Mutant: the Wifi app taken for the second one. *)
WifiApp_Second == 1

WifiApp == 0        \* GetApplication(i) of a radio node
CellApp == 1
WiredApp == 0       \* and the only one of a wired node

Empty == [x \in {} |-> x]
Put(map, key, value) ==
    [k \in DOMAIN map \cup {key} |-> IF k = key THEN value ELSE map[k]]

Init ==
    /\ kind = << >>
    /\ m_mosaic2nsdrei = Empty
    /\ m_nsdrei2mosaic = Empty
    /\ m_isRadioNode = {}
    /\ m_isWiredNode = {}
    /\ m_isDeactivated = {}
    /\ m_isWifiRadioConfigured = {}
    /\ m_isCellRadioConfigured = {}
    /\ m_extraRadioNodes = << >>
    /\ enabled = {}
    /\ phyOff = {}
    /\ addresses = << >>
    /\ cellNetwork = Empty
    /\ pgwAddress = Empty
    /\ m_didRunOnStart = FALSE
    /\ reported = NoId
    /\ ended = "no"

-----------------------------------------------------------------------------
Running == ended = "no"

(* exit(1), a failed assertion, a dereferenced null pointer *)
End(why) ==
    /\ ended' = why
    /\ UNCHANGED <<kind, tables, config, m_extraRadioNodes, ns3, m_didRunOnStart, reported>>

Known(id) == id \in DOMAIN m_mosaic2nsdrei
Node(id) == m_mosaic2nsdrei[id]

(* GetNs3NodeId of an id that was never added *)
UnknownNode(id) == Running /\ ~ Known(id) /\ End("unknown id")

(* creation of an id that is taken *)
DuplicateNode(id) == Running /\ Known(id) /\ End("duplicate id")

Build(what) ==
    /\ Len(kind) < MaxNodes
    /\ kind' = Append(kind, what)
    /\ addresses' = Append(addresses, 1)

(* Mutant: the table back to MOSAIC is not filled. *)
Bind_OneWay(id, node) ==
    /\ m_mosaic2nsdrei' = Put(m_mosaic2nsdrei, id, node)
    /\ UNCHANGED m_nsdrei2mosaic

Bind(id, node) ==
    /\ m_mosaic2nsdrei' = Put(m_mosaic2nsdrei, id, node)
    /\ m_nsdrei2mosaic' = Put(m_nsdrei2mosaic, node, id)

CreateNodeB ==
    /\ Running
    /\ ~ m_didRunOnStart
    /\ Build("enb")
    /\ UNCHANGED <<tables, config, m_extraRadioNodes, enabled, phyOff,
                   cellNetwork, pgwAddress, m_didRunOnStart, reported, ended>>

CreateWiredNode(id) ==
    /\ Running
    /\ ~ Known(id)
    /\ Build("wired")
    /\ Bind(id, Len(kind) + 1)
    /\ m_isWiredNode' = m_isWiredNode \cup {Len(kind) + 1}
    /\ UNCHANGED <<m_isRadioNode, config, m_extraRadioNodes, enabled, phyOff,
                   cellNetwork, pgwAddress, m_didRunOnStart, reported, ended>>

CreateRadioNode(id) ==
    /\ Running
    /\ ~ m_didRunOnStart
    /\ ~ Known(id)
    /\ Build("radio")
    /\ Bind(id, Len(kind) + 1)
    /\ m_isRadioNode' = m_isRadioNode \cup {Len(kind) + 1}
    /\ UNCHANGED <<m_isWiredNode, config, m_extraRadioNodes, enabled, phyOff,
                   cellNetwork, pgwAddress, m_didRunOnStart, reported, ended>>

(* Mutant: ids counted from one in the pool, from zero in the NodeList. *)
OnStart_OffByOne ==
    /\ Running
    /\ ~ m_didRunOnStart
    /\ Len(kind) + m_numExtraRadioNodes <= MaxNodes
    /\ m_extraRadioNodes' = [i \in 1 .. m_numExtraRadioNodes |-> Len(kind) + i - 1]
    /\ kind' = kind \o [i \in 1 .. m_numExtraRadioNodes |-> "radio"]
    /\ addresses' = addresses \o [i \in 1 .. m_numExtraRadioNodes |-> 1]
    /\ m_didRunOnStart' = TRUE
    /\ UNCHANGED <<tables, config, enabled, phyOff, cellNetwork, pgwAddress,
                   reported, ended>>

(* The radio nodes that may be activated later are created now. *)
OnStart ==
    /\ Running
    /\ ~ m_didRunOnStart
    /\ Len(kind) + m_numExtraRadioNodes <= MaxNodes
    /\ LET extras == [i \in 1 .. m_numExtraRadioNodes |-> Len(kind) + i]
       IN  /\ m_extraRadioNodes' = m_extraRadioNodes \o extras
           /\ kind' = kind \o [i \in DOMAIN extras |-> "radio"]
           /\ addresses' = addresses \o [i \in DOMAIN extras |-> 1]
    /\ m_didRunOnStart' = TRUE
    /\ UNCHANGED <<tables, config, enabled, phyOff, cellNetwork, pgwAddress,
                   reported, ended>>

IsFree(node) == node \notin DOMAIN m_nsdrei2mosaic

(* Mutant: an activated node is not entered as a radio node. *)
ActivateRadioNode_NoRole(id) ==
    /\ Running
    /\ m_didRunOnStart
    /\ ~ Known(id)
    /\ \E i \in DOMAIN m_extraRadioNodes :
          /\ IsFree(m_extraRadioNodes[i])
          /\ Bind(id, m_extraRadioNodes[i])
    /\ UNCHANGED <<kind, m_isRadioNode, m_isWiredNode, config, m_extraRadioNodes,
                   ns3, m_didRunOnStart, reported, ended>>

(* The first node of the pool that has no MOSAIC id. *)
ActivateRadioNode(id) ==
    /\ Running
    /\ m_didRunOnStart
    /\ ~ Known(id)
    /\ \E i \in DOMAIN m_extraRadioNodes :
          /\ IsFree(m_extraRadioNodes[i])
          /\ \A j \in 1 .. i - 1 : ~ IsFree(m_extraRadioNodes[j])
          /\ Bind(id, m_extraRadioNodes[i])
          /\ m_isRadioNode' = m_isRadioNode \cup {m_extraRadioNodes[i]}
    /\ UNCHANGED <<kind, m_isWiredNode, config, m_extraRadioNodes, ns3,
                   m_didRunOnStart, reported, ended>>

NoExtraNode(id) ==
    /\ Running
    /\ m_didRunOnStart
    /\ ~ Known(id)
    /\ \A i \in DOMAIN m_extraRadioNodes : ~ IsFree(m_extraRadioNodes[i])
    /\ End("no extra node")

-----------------------------------------------------------------------------
(* Mutant: commands for removed nodes are obeyed. *)
Live_RemovedToo(id) == Running /\ Known(id)

Live(id) == Running /\ Known(id) /\ Node(id) \notin m_isDeactivated

(* Mutant: a removed id may be used again. *)
RemoveNode_Forgets(id) ==
    /\ Live(id)
    /\ m_didRunOnStart
    /\ m_mosaic2nsdrei' = [k \in DOMAIN m_mosaic2nsdrei \ {id} |-> Node(k)]
    /\ m_isDeactivated' = m_isDeactivated \cup {Node(id)}
    /\ enabled' = enabled \ {<<Node(id), 0>>}
    /\ UNCHANGED <<kind, m_nsdrei2mosaic, m_isRadioNode, m_isWiredNode,
                   m_isWifiRadioConfigured, m_isCellRadioConfigured, m_extraRadioNodes,
                   phyOff, addresses, cellNetwork, pgwAddress,
                   m_didRunOnStart, reported, ended>>

(* The loop over the apps disables GetApplication(0) in every iteration. *)
RemoveNode(id) ==
    /\ Live(id)
    /\ m_didRunOnStart
    /\ LET node == Node(id)
       IN  /\ phyOff' = IF node \in m_isRadioNode THEN phyOff \cup {node} ELSE phyOff
           /\ enabled' = enabled \ {<<node, 0>>}
           /\ m_isDeactivated' = m_isDeactivated \cup {node}
    /\ UNCHANGED <<kind, tables, m_isWifiRadioConfigured, m_isCellRadioConfigured,
                   m_extraRadioNodes, addresses, cellNetwork, pgwAddress,
                   m_didRunOnStart, reported, ended>>

(* Without assertions, a wired node gets its only app enabled. *)
ConfigureWifiRadio(id) ==
    /\ Live(id)
    /\ m_didRunOnStart
    /\ Node(id) \notin m_isWifiRadioConfigured
    /\ NsAssert => Node(id) \in m_isRadioNode
    /\ m_isWifiRadioConfigured' = m_isWifiRadioConfigured \cup {Node(id)}
    /\ enabled' = enabled \cup {<<Node(id), WifiApp>>}
    /\ UNCHANGED <<kind, tables, m_isDeactivated, m_isCellRadioConfigured,
                   m_extraRadioNodes, phyOff, addresses, cellNetwork, pgwAddress,
                   m_didRunOnStart, reported, ended>>

WifiOnWiredNode(id) ==
    /\ Live(id)
    /\ m_didRunOnStart
    /\ NsAssert
    /\ Node(id) \notin m_isWifiRadioConfigured
    /\ Node(id) \notin m_isRadioNode
    /\ End("assertion")

(* Mutant: the attachment precedes the assignment of the address. *)
LearnedAddress_Early(count) == IF count - 1 = 1 THEN "assigned by ns-3" ELSE "mosaic"

(* ActivateEpsBearer, as patched: the PGW learns one address of the UE. *)
LearnedAddress(count) == IF count = 1 THEN "assigned by ns-3" ELSE "mosaic"

EnbExists == \E node \in NodeIds : kind[node] = "enb"

(* the assertions on the address *)
IpFits(node, network) ==
    /\ network[1] = 10
    /\ node \in m_isRadioNode => network \notin ServerNetworks
    /\ node \in m_isWiredNode => network \in ServerNetworks

(* A failed assertion; a node that is neither radio nor wired;             *)
(* AttachToClosestEnb without an eNB; the case the patch does not cover.   *)
CellFault(node, network) ==
    CASE NsAssert /\ ~ IpFits(node, network) -> "assertion"
      [] node \in m_isRadioNode /\ ~ EnbExists -> "no eNB"
      [] node \in m_isRadioNode /\ addresses[node] + 1 > 2 -> "ue addresses"
      [] node \notin m_isRadioNode \cup m_isWiredNode -> "invalid state"
      [] OTHER -> "no"

ConfigureCellRadio(id, network) ==
    /\ Live(id)
    /\ Node(id) \notin m_isCellRadioConfigured
    /\ CellFault(Node(id), network) = "no"
    /\ LET node == Node(id)
       IN  /\ m_isCellRadioConfigured' = m_isCellRadioConfigured \cup {node}
           /\ cellNetwork' = Put(cellNetwork, node, network)
           /\ addresses' = [addresses EXCEPT ![node] = @ + 1]
           /\ IF node \in m_isRadioNode
              THEN /\ enabled' = enabled \cup {<<node, CellApp>>}
                   /\ pgwAddress' =
                         Put(pgwAddress, node, LearnedAddress(addresses[node] + 1))
              ELSE /\ enabled' = enabled \cup {<<node, WiredApp>>}
                   /\ UNCHANGED pgwAddress
    /\ UNCHANGED <<kind, tables, m_isDeactivated, m_isWifiRadioConfigured,
                   m_extraRadioNodes, phyOff, m_didRunOnStart, reported, ended>>

CellConfigurationFails(id, network) ==
    /\ Live(id)
    /\ Node(id) \notin m_isCellRadioConfigured
    /\ CellFault(Node(id), network) # "no"
    /\ End(CellFault(Node(id), network))

(* UpdateNodePosition: a wired node has no mobility model to dereference. *)
UpdateWiredNode(id) ==
    /\ Live(id)
    /\ m_didRunOnStart
    /\ kind[Node(id)] = "wired"
    /\ End("no mobility model")

(* SendWifiMsg on a channel other than CCH, or on a node without Wifi *)
WifiSendFails(id) ==
    /\ Live(id)
    /\ m_didRunOnStart
    /\ \/ End("channel")
       \/ NsAssert /\ Node(id) \notin m_isRadioNode /\ End("assertion")

(* RecvWifiMsg, RecvCellMsg: an enabled app of a node that was not removed *)
(* hands up a packet; GetMosaicNodeId translates the node for MOSAIC.      *)
Receive(node) ==
    /\ Running
    /\ m_didRunOnStart
    /\ \E app \in {WifiApp, CellApp} : <<node, app>> \in enabled
    /\ node \notin m_isDeactivated
    /\ IF node \in DOMAIN m_nsdrei2mosaic
       THEN /\ reported' = m_nsdrei2mosaic[node]
            /\ UNCHANGED <<kind, tables, config, m_extraRadioNodes, ns3,
                           m_didRunOnStart, ended>>
       ELSE End("unknown receiver")

-----------------------------------------------------------------------------
Next ==
    \/ CreateNodeB
    \/ OnStart
    \/ \E id \in MosaicId :
          \/ CreateRadioNode(id) \/ CreateWiredNode(id) \/ ActivateRadioNode(id)
          \/ RemoveNode(id) \/ ConfigureWifiRadio(id)
          \/ NoExtraNode(id) \/ DuplicateNode(id) \/ UnknownNode(id)
          \/ WifiOnWiredNode(id) \/ WifiSendFails(id)
          \/ UpdateWiredNode(id)
          \/ \E network \in Networks :
                ConfigureCellRadio(id, network) \/ CellConfigurationFails(id, network)
    \/ \E node \in NodeIds : Receive(node)

Spec == Init /\ [][Next]_vars

-----------------------------------------------------------------------------
(* Type invariant. *)
TypeOK ==
    /\ kind \in Seq({"enb", "wired", "radio"})
    /\ m_mosaic2nsdrei \in [DOMAIN m_mosaic2nsdrei -> NodeIds]
    /\ DOMAIN m_mosaic2nsdrei \subseteq MosaicId
    /\ m_nsdrei2mosaic \in [DOMAIN m_nsdrei2mosaic -> MosaicId]
    /\ DOMAIN m_nsdrei2mosaic \subseteq NodeIds
    /\ m_isRadioNode \cup m_isWiredNode \subseteq NodeIds
    /\ UNION {m_isDeactivated, m_isWifiRadioConfigured, m_isCellRadioConfigured}
          \subseteq NodeIds
    /\ m_extraRadioNodes \in Seq(NodeIds)
    /\ enabled \subseteq NodeIds \X {WifiApp, CellApp}
    /\ phyOff \subseteq NodeIds
    /\ addresses \in [NodeIds -> Nat]
    /\ cellNetwork \in [m_isCellRadioConfigured -> Networks]
    /\ pgwAddress \in [DOMAIN pgwAddress -> {"assigned by ns-3", "mosaic"}]
    /\ DOMAIN pgwAddress \subseteq NodeIds
    /\ m_didRunOnStart \in BOOLEAN
    /\ reported \in MosaicId \cup {NoId}
    /\ ended \in {"no", "unknown id", "duplicate id", "no extra node", "assertion",
                  "no eNB", "ue addresses", "invalid state", "channel",
                  "unknown receiver", "no mobility model"}

(* The two id tables are inverse to each other, whatever mixture of nodes  *)
(* created before the start, wired nodes and nodes from the pool was       *)
(* added: no ns-3 node answers to two MOSAIC ids, and none is lost.        *)
IdTablesInverse ==
    /\ \A id \in DOMAIN m_mosaic2nsdrei :
          /\ Node(id) \in DOMAIN m_nsdrei2mosaic
          /\ m_nsdrei2mosaic[Node(id)] = id
    /\ \A node \in DOMAIN m_nsdrei2mosaic :
          /\ Known(m_nsdrei2mosaic[node])
          /\ Node(m_nsdrei2mosaic[node]) = node

(* The role tables agree with what the node was built as, so that an app   *)
(* index or a device index computed from them names the intended object.   *)
RolesMatch ==
    /\ m_isRadioNode \cup m_isWiredNode = DOMAIN m_nsdrei2mosaic
    /\ \A node \in m_isRadioNode : kind[node] = "radio"
    /\ \A node \in m_isWiredNode : kind[node] = "wired"

(* The exits that guard the federate's own bookkeeping are never taken: a  *)
(* packet is never handed up by a node MOSAIC does not know, no configured *)
(* node lacks a role, and no UE has more addresses than the patched        *)
(* ActivateEpsBearer covers.                                               *)
NoInternalError ==
    ended \notin {"unknown receiver", "invalid state", "ue addresses"}

(* With assertions on, an app is enabled only by the configuration of the  *)
(* interface it is bound to.                                               *)
EnabledByItsConfiguration ==
    NsAssert => \A node \in NodeIds :
        /\ <<node, CellApp>> \in enabled => node \in m_isCellRadioConfigured
        /\ <<node, WifiApp>> \in enabled =>
              IF node \in m_isRadioNode
              THEN node \in m_isWifiRadioConfigured
              ELSE node \in m_isCellRadioConfigured

(* A MOSAIC id keeps its ns-3 node for good, removal included. *)
KeepsNode ==
    \A id \in DOMAIN m_mosaic2nsdrei :
        Known(id)' /\ Node(id)' = Node(id)
BindingsPermanent == [][KeepsNode]_vars

(* Whatever is still scheduled for a removed node, none of its apps is     *)
(* enabled again, and MOSAIC hears of no reception by it.                  *)
StaysRemoved ==
    /\ \A node \in m_isDeactivated, app \in {WifiApp, CellApp} :
          <<node, app>> \in enabled' => <<node, app>> \in enabled
    /\ reported' # reported => Node(reported') \notin m_isDeactivated
RemovedStaysSilent == [][StaysRemoved]_vars

(* "deactivate Apps", "Disable node (turn off Wi-Fi PHY, disable apps)":   *)
(* a removed node has no app enabled.  RemoveNode disables app 0 twice and *)
(* leaves the cell app of a radio node alone.                              *)
RemovedAppsDisabled ==
    \A node \in m_isDeactivated, app \in {WifiApp, CellApp} :
        <<node, app>> \notin enabled
=============================================================================
