------------------------ MODULE MosaicNodeManager_proofs ------------------------
(***************************************************************************)
(* The node tables and the paths between the nodes, for every set of       *)
(* MOSAIC ids, every size of the pool and of the network, in both builds.  *)
(*                                                                         *)
(* The applications, the addresses and the attachment of a node change     *)
(* only under its MOSAIC id, so all of them belong to nodes in the id      *)
(* tables; and the roles, the indices computed from them and the networks  *)
(* fit what the node was built as.                                         *)
(***************************************************************************)
EXTENDS CellRouting, SequenceTheorems, TLAPS

Bound == DOMAIN m_nsdrei2mosaic
Configured == m_isCellRadioConfigured

(* What a node has before and after its configuration. *)
NodesConfigured ==
    /\ UNION {m_isDeactivated, m_isWifiRadioConfigured, Configured} \subseteq Bound
    /\ \A node \in NodeIds, app \in {WifiApp, CellApp} :
          <<node, app>> \in enabled => node \in Bound
    /\ addresses \in Seq(Nat) /\ Len(addresses) = Len(kind)
    /\ \A node \in NodeIds :
          addresses[node] = IF node \in Configured THEN 2 ELSE 1
    /\ DOMAIN pgwAddress = m_isRadioNode \cap Configured
    /\ \A node \in DOMAIN pgwAddress : pgwAddress[node] = "mosaic"
    /\ NsAssert => \A node \in Configured : IpFits(node, cellNetwork[node])
    /\ \A node \in Configured \ m_isDeactivated :
          <<node, SendingApp(node)>> \in enabled

PoolIsRadio ==
    \A i \in DOMAIN m_extraRadioNodes : kind[m_extraRadioNodes[i]] = "radio"

NInv ==
    /\ TypeOK
    /\ IdTablesInverse
    /\ RolesMatch
    /\ PoolIsRadio
    /\ NodesConfigured
    /\ NoInternalError
    /\ EnabledByItsConfiguration

(* Put into a map of a type. *)
LEMMA PutType ==
    ASSUME NEW S, NEW D, NEW map \in [D -> S], NEW key, NEW value \in S
    PROVE  Put(map, key, value) \in [D \cup {key} -> S]
BY DEF Put

(* The node ids are the positions in the NodeList. *)
LEMMA NodeIdsAreIndices ==
    ASSUME TypeOK
    PROVE  NodeIds = 1 .. Len(kind) /\ Len(kind) \in Nat
BY LenProperties DEF TypeOK, NodeIds

-----------------------------------------------------------------------------
(* The initial state has no nodes. *)
LEMMA NInvInit ==
    ASSUME Init
    PROVE  NInv
<1>0. kind = << >> /\ addresses = << >> /\ m_extraRadioNodes = << >>
  BY DEF Init
<1>1. NodeIds = {} /\ m_extraRadioNodes \in Seq(NodeIds)
  BY <1>0, EmptySeq DEF NodeIds
<1>2. TypeOK
  <2>1. kind \in Seq({"enb", "wired", "radio"})
    BY <1>0, EmptySeq
  <2>2. /\ Empty \in [DOMAIN Empty -> NodeIds] /\ DOMAIN Empty \subseteq MosaicId
        /\ Empty \in [DOMAIN Empty -> MosaicId] /\ DOMAIN Empty \subseteq NodeIds
        /\ Empty \in [{} -> Networks]
        /\ Empty \in [DOMAIN Empty -> {"assigned by ns-3", "mosaic"}]
    BY DEF Empty
  <2>3. addresses \in [NodeIds -> Nat]
    BY <1>0, <1>1
  <2> QED
    BY <1>1, <2>1, <2>2, <2>3 DEF Init, TypeOK
<1>3. IdTablesInverse /\ RolesMatch
  BY DEF Init, IdTablesInverse, RolesMatch, Empty, Node, Known
<1>4. PoolIsRadio
  BY DEF Init, PoolIsRadio
<1>5. NodesConfigured
  BY <1>1 DEF Init, NodesConfigured, Bound, Configured, Empty
<1>6. NoInternalError
  BY DEF Init, NoInternalError
<1>7. EnabledByItsConfiguration
  BY <1>1 DEF EnabledByItsConfiguration
<1> QED
  BY <1>2, <1>3, <1>4, <1>5, <1>6, <1>7 DEF NInv

(* Nothing but the reason changes when the process ends. *)
LEMMA EndPreserves ==
    ASSUME NInv, NEW why, End(why),
           why \in {"unknown id", "duplicate id", "no extra node", "assertion",
                    "no eNB", "channel", "no mobility model"}
    PROVE  NInv'
<1> USE DEF NInv, End, tables, config, ns3
<1>1. TypeOK'
  BY DEF TypeOK, NodeIds
<1>2. IdTablesInverse' /\ RolesMatch'
  BY DEF IdTablesInverse, RolesMatch, Node, Known
<1>3. PoolIsRadio'
  BY DEF PoolIsRadio
<1>4. NodesConfigured'
  BY DEF NodesConfigured, Bound, Configured, NodeIds, SendingApp, IpFits
<1>5. NoInternalError'
  BY DEF NoInternalError
<1>6. EnabledByItsConfiguration'
  BY DEF EnabledByItsConfiguration, NodeIds
<1> QED
  BY <1>1, <1>2, <1>3, <1>4, <1>5, <1>6

(* A new pair in the id tables. *)
LEMMA BindKeepsInverse ==
    ASSUME IdTablesInverse, NEW id, NEW node,
           ~ Known(id), node \notin Bound, Bind(id, node)
    PROVE  /\ IdTablesInverse'
           /\ Bound' = Bound \cup {node}
           /\ DOMAIN m_mosaic2nsdrei' = DOMAIN m_mosaic2nsdrei \cup {id}
<1> USE DEF Bound, Node, Known
<1>0. /\ m_mosaic2nsdrei' = Put(m_mosaic2nsdrei, id, node)
      /\ m_nsdrei2mosaic' = Put(m_nsdrei2mosaic, node, id)
  BY DEF Bind
<1>1. /\ DOMAIN m_mosaic2nsdrei' = DOMAIN m_mosaic2nsdrei \cup {id}
      /\ m_mosaic2nsdrei'[id] = node
      /\ \A k \in DOMAIN m_mosaic2nsdrei :
            k # id => m_mosaic2nsdrei'[k] = m_mosaic2nsdrei[k]
  BY <1>0 DEF Put
<1>2. /\ DOMAIN m_nsdrei2mosaic' = DOMAIN m_nsdrei2mosaic \cup {node}
      /\ m_nsdrei2mosaic'[node] = id
      /\ \A k \in DOMAIN m_nsdrei2mosaic :
            k # node => m_nsdrei2mosaic'[k] = m_nsdrei2mosaic[k]
  BY <1>0 DEF Put
<1>3. ASSUME NEW i \in DOMAIN m_mosaic2nsdrei'
      PROVE  /\ m_mosaic2nsdrei'[i] \in DOMAIN m_nsdrei2mosaic'
             /\ m_nsdrei2mosaic'[m_mosaic2nsdrei'[i]] = i
  BY <1>1, <1>2 DEF IdTablesInverse
<1>4. ASSUME NEW n \in DOMAIN m_nsdrei2mosaic'
      PROVE  /\ m_nsdrei2mosaic'[n] \in DOMAIN m_mosaic2nsdrei'
             /\ m_mosaic2nsdrei'[m_nsdrei2mosaic'[n]] = n
  BY <1>1, <1>2 DEF IdTablesInverse
<1> QED
  BY <1>1, <1>2, <1>3, <1>4 DEF IdTablesInverse

(* The types of the id tables, with a new pair in them. *)
LEMMA BindKeepsTypes ==
    ASSUME TypeOK, NEW id \in MosaicId, NEW node \in NodeIds', Bind(id, node),
           NodeIds \subseteq NodeIds'
    PROVE  /\ m_mosaic2nsdrei' \in [DOMAIN m_mosaic2nsdrei' -> NodeIds']
           /\ DOMAIN m_mosaic2nsdrei' \subseteq MosaicId
           /\ m_nsdrei2mosaic' \in [DOMAIN m_nsdrei2mosaic' -> MosaicId]
           /\ DOMAIN m_nsdrei2mosaic' \subseteq NodeIds'
<1>1. m_mosaic2nsdrei \in [DOMAIN m_mosaic2nsdrei -> NodeIds']
  BY DEF TypeOK
<1>2. m_mosaic2nsdrei' \in [DOMAIN m_mosaic2nsdrei \cup {id} -> NodeIds']
  BY <1>1, PutType DEF Bind
<1>3. m_nsdrei2mosaic' \in [DOMAIN m_nsdrei2mosaic \cup {node} -> MosaicId]
  BY PutType DEF Bind, TypeOK
<1> QED
  BY <1>2, <1>3 DEF TypeOK

(* The configuration of the nodes outlives whatever adds nodes and ids,    *)
(* as a new id is never bound to a configured node.                        *)
LEMMA ConfigurationKept ==
    ASSUME NInv,
           UNCHANGED <<config, enabled, phyOff, cellNetwork, pgwAddress>>,
           Bound \subseteq Bound',
           \A n \in Bound : /\ n \in m_isRadioNode' <=> n \in m_isRadioNode
                            /\ n \in m_isWiredNode' <=> n \in m_isWiredNode,
           addresses' \in Seq(Nat), Len(addresses') = Len(kind'),
           NodeIds \subseteq NodeIds',
           \A n \in NodeIds : addresses'[n] = addresses[n],
           \A n \in NodeIds' \ NodeIds : addresses'[n] = 1
    PROVE  NodesConfigured' /\ EnabledByItsConfiguration'
<1> USE DEF NInv, config, Configured
<1>0. Bound \subseteq NodeIds /\ Configured \subseteq Bound
  BY DEF TypeOK, Bound, NodesConfigured
<1>1. \A n \in NodeIds', app \in {WifiApp, CellApp} :
          <<n, app>> \in enabled => n \in Bound
  BY DEF TypeOK, NodesConfigured
<1>2. (UNION {m_isDeactivated, m_isWifiRadioConfigured, Configured} \subseteq Bound)'
  BY DEF NodesConfigured
<1>3. \A n \in NodeIds' : addresses'[n] = IF n \in Configured' THEN 2 ELSE 1
  BY <1>0 DEF NodesConfigured
<1>4. DOMAIN pgwAddress' = m_isRadioNode' \cap Configured'
  BY <1>0 DEF NodesConfigured
<1>5. \A n \in DOMAIN pgwAddress' : pgwAddress'[n] = "mosaic"
  BY DEF NodesConfigured
<1>6. ASSUME NsAssert, NEW n \in Configured'
      PROVE  IpFits(n, cellNetwork[n])'
  BY <1>0, <1>6 DEF NodesConfigured, IpFits
<1>7. ASSUME NEW n \in Configured' \ m_isDeactivated'
      PROVE  <<n, SendingApp(n)>>' \in enabled'
  BY <1>0 DEF NodesConfigured, SendingApp
<1>8. NodesConfigured'
  BY <1>1, <1>2, <1>3, <1>4, <1>5, <1>6, <1>7 DEF NodesConfigured
<1>9. EnabledByItsConfiguration'
  <2> SUFFICES ASSUME NsAssert, NEW n \in NodeIds'
               PROVE  /\ <<n, CellApp>> \in enabled' => n \in m_isCellRadioConfigured'
                      /\ <<n, WifiApp>> \in enabled' =>
                            IF n \in m_isRadioNode'
                            THEN n \in m_isWifiRadioConfigured'
                            ELSE n \in m_isCellRadioConfigured'
    BY DEF EnabledByItsConfiguration
  <2>1. CASE n \in Bound
    BY <1>0, <2>1 DEF EnabledByItsConfiguration
  <2>2. CASE n \notin Bound
    BY <1>1, <2>2
  <2> QED
    BY <2>1, <2>2
<1> QED
  BY <1>8, <1>9

-----------------------------------------------------------------------------
Kinds == {"enb", "wired", "radio"}

(* Nodes join the NodeList at its end, each with an address of its own.    *)
Grown(more) ==
    /\ kind' \in Seq(Kinds) /\ addresses' \in Seq(Nat)
    /\ Len(kind') = Len(kind) + more /\ Len(addresses') = Len(kind')
    /\ \A n \in NodeIds : kind'[n] = kind[n] /\ addresses'[n] = addresses[n]
    /\ \A n \in NodeIds' \ NodeIds : addresses'[n] = 1

LEMMA BuildGrows ==
    ASSUME NInv, NEW what \in Kinds, Build(what)
    PROVE  Grown(1) /\ kind'[Len(kind) + 1] = what
<1>1. /\ kind \in Seq(Kinds) /\ addresses \in Seq(Nat)
      /\ Len(addresses) = Len(kind) /\ NodeIds = 1 .. Len(kind) /\ Len(kind) \in Nat
  BY NodeIdsAreIndices DEF NInv, TypeOK, NodesConfigured, Kinds
<1>2. kind' = Append(kind, what) /\ addresses' = Append(addresses, 1)
  BY DEF Build
<1>3. /\ kind' \in Seq(Kinds) /\ Len(kind') = Len(kind) + 1
      /\ \A n \in 1 .. Len(kind) : kind'[n] = kind[n]
      /\ kind'[Len(kind) + 1] = what
  BY <1>1, <1>2, AppendProperties
<1>4. /\ addresses' \in Seq(Nat) /\ Len(addresses') = Len(kind) + 1
      /\ \A n \in 1 .. Len(kind) : addresses'[n] = addresses[n]
      /\ addresses'[Len(kind) + 1] = 1
  BY <1>1, <1>2, AppendProperties
<1>5. NodeIds' = 1 .. Len(kind) + 1
  BY <1>1, <1>3, LenProperties DEF NodeIds
<1>6. \A n \in NodeIds' \ NodeIds : n = Len(kind) + 1
  BY <1>1, <1>5
<1> QED
  BY <1>1, <1>3, <1>4, <1>6 DEF Grown

(* What growing leaves as it was. *)
LEMMA GrowthKeeps ==
    ASSUME NInv, NEW more \in Nat, Grown(more)
    PROVE  /\ NodeIds \subseteq NodeIds'
           /\ NodeIds = 1 .. Len(kind) /\ NodeIds' = 1 .. Len(kind) + more
           /\ Len(kind) \in Nat
           /\ addresses' \in [NodeIds' -> Nat]
           /\ \A i \in DOMAIN m_extraRadioNodes :
                 /\ m_extraRadioNodes[i] \in NodeIds
                 /\ kind'[m_extraRadioNodes[i]] = "radio"
           /\ m_extraRadioNodes \in Seq(NodeIds')
           /\ Bound \subseteq NodeIds
<1>1. Len(kind) \in Nat /\ NodeIds = 1 .. Len(kind)
  BY NodeIdsAreIndices DEF NInv
<1>2. Len(kind') = Len(kind) + more /\ NodeIds' = 1 .. Len(kind')
  BY LenProperties DEF Grown, NodeIds
<1>3. NodeIds \subseteq NodeIds'
  BY <1>1, <1>2
<1>4. addresses' \in [NodeIds' -> Nat]
  BY <1>2, LenProperties, ElementOfSeq DEF Grown
<1>5. m_extraRadioNodes \in Seq(NodeIds)
  BY DEF NInv, TypeOK
<1>6. \A i \in DOMAIN m_extraRadioNodes :
          /\ m_extraRadioNodes[i] \in NodeIds
          /\ kind[m_extraRadioNodes[i]] = "radio"
  BY <1>5, ElementOfSeq, LenProperties DEF NInv, PoolIsRadio
<1>7. m_extraRadioNodes \in Seq(NodeIds')
  BY <1>3, <1>5
<1> QED
  BY <1>1, <1>2, <1>3, <1>4, <1>6, <1>7 DEF Grown, NInv, TypeOK, Bound

(* CreateNodeB, CreateWiredNode and CreateRadioNode. *)
LEMMA CreatePreserves ==
    ASSUME NInv,
           CreateNodeB \/ \E id \in MosaicId : CreateWiredNode(id) \/ CreateRadioNode(id)
    PROVE  NInv'
<1> DEFINE new == Len(kind) + 1
<1>1. UNCHANGED <<config, m_extraRadioNodes, enabled, phyOff, cellNetwork,
                  pgwAddress, reported, ended, m_didRunOnStart>>
  BY DEF CreateNodeB, CreateWiredNode, CreateRadioNode
<1>2. Grown(1)
  <2>1. CASE CreateNodeB
    BY <2>1, BuildGrows DEF CreateNodeB, Kinds
  <2>2. ASSUME NEW id \in MosaicId, CreateWiredNode(id) \/ CreateRadioNode(id)
        PROVE  Grown(1)
    BY <2>2, BuildGrows DEF CreateWiredNode, CreateRadioNode, Kinds
  <2> QED
    BY <2>1, <2>2
<1>3. /\ NodeIds \subseteq NodeIds' /\ new \in NodeIds' /\ new \notin NodeIds
      /\ NodeIds' = NodeIds \cup {new}
      /\ Bound \subseteq NodeIds /\ addresses' \in [NodeIds' -> Nat]
      /\ m_extraRadioNodes' \in Seq(NodeIds') /\ PoolIsRadio'
  BY <1>1, <1>2, GrowthKeeps DEF PoolIsRadio
<1>4. \/ UNCHANGED tables
      \/ \E id \in MosaicId :
            /\ ~ Known(id) /\ Bind(id, new)
            /\ \/ /\ m_isWiredNode' = m_isWiredNode \cup {new}
                  /\ kind'[new] = "wired" /\ UNCHANGED m_isRadioNode
               \/ /\ m_isRadioNode' = m_isRadioNode \cup {new}
                  /\ kind'[new] = "radio" /\ UNCHANGED m_isWiredNode
  <2>1. CASE CreateNodeB
    BY <2>1 DEF CreateNodeB
  <2>2. ASSUME NEW id \in MosaicId, CreateWiredNode(id)
        PROVE  <1>4!2
    BY <2>2, BuildGrows DEF CreateWiredNode, Kinds
  <2>3. ASSUME NEW id \in MosaicId, CreateRadioNode(id)
        PROVE  <1>4!2
    BY <2>3, BuildGrows DEF CreateRadioNode, Kinds
  <2> QED
    BY <2>1, <2>2, <2>3
<1>5. /\ IdTablesInverse' /\ RolesMatch'
      /\ m_mosaic2nsdrei' \in [DOMAIN m_mosaic2nsdrei' -> NodeIds']
      /\ DOMAIN m_mosaic2nsdrei' \subseteq MosaicId
      /\ m_nsdrei2mosaic' \in [DOMAIN m_nsdrei2mosaic' -> MosaicId]
      /\ DOMAIN m_nsdrei2mosaic' \subseteq NodeIds'
      /\ Bound \subseteq Bound'
      /\ \A n \in Bound : /\ n \in m_isRadioNode' <=> n \in m_isRadioNode
                          /\ n \in m_isWiredNode' <=> n \in m_isWiredNode
  <2>0. \A n \in NodeIds : kind'[n] = kind[n]
    BY <1>2 DEF Grown
  <2>1. CASE UNCHANGED tables
    <3>1. IdTablesInverse'
      BY <2>1 DEF tables, NInv, IdTablesInverse, Known, Node
    <3>2. RolesMatch'
      BY <1>3, <2>0, <2>1 DEF tables, NInv, RolesMatch, Bound
    <3> QED
      BY <1>3, <2>1, <3>1, <3>2 DEF tables, NInv, TypeOK, Bound
  <2>2. CASE <1>4!2
    <3> PICK id \in MosaicId :
            /\ ~ Known(id) /\ Bind(id, new)
            /\ \/ /\ m_isWiredNode' = m_isWiredNode \cup {new}
                  /\ kind'[new] = "wired" /\ UNCHANGED m_isRadioNode
               \/ /\ m_isRadioNode' = m_isRadioNode \cup {new}
                  /\ kind'[new] = "radio" /\ UNCHANGED m_isWiredNode
      BY <2>2
    <3>1. IdTablesInverse' /\ Bound' = Bound \cup {new}
      BY <1>3, BindKeepsInverse DEF NInv
    <3>2. RolesMatch'
      BY <1>3, <2>0, <3>1 DEF NInv, RolesMatch, Bound
    <3>3. /\ m_mosaic2nsdrei' \in [DOMAIN m_mosaic2nsdrei' -> NodeIds']
          /\ DOMAIN m_mosaic2nsdrei' \subseteq MosaicId
          /\ m_nsdrei2mosaic' \in [DOMAIN m_nsdrei2mosaic' -> MosaicId]
          /\ DOMAIN m_nsdrei2mosaic' \subseteq NodeIds'
      BY <1>3, BindKeepsTypes DEF NInv
    <3> QED
      BY <1>3, <3>1, <3>2, <3>3
  <2> QED
    BY <1>4, <2>1, <2>2
<1>6. NodesConfigured' /\ EnabledByItsConfiguration'
  BY <1>1, <1>2, <1>3, <1>5, ConfigurationKept DEF Grown
<1>7. TypeOK'
  <2>1. kind' \in Seq({"enb", "wired", "radio"})
    BY <1>2 DEF Grown, Kinds
  <2>2. (m_isRadioNode \cup m_isWiredNode \subseteq NodeIds)'
    BY <1>5 DEF RolesMatch
  <2> QED
    BY <1>1, <1>3, <1>5, <2>1, <2>2 DEF NInv, TypeOK, config
<1>8. NoInternalError'
  BY <1>1 DEF NInv, NoInternalError
<1> QED
  BY <1>3, <1>5, <1>6, <1>7, <1>8 DEF NInv

(* The pool is appended to itself with the nodes that join for it. *)
LEMMA OnStartPreserves ==
    ASSUME NInv, OnStart
    PROVE  NInv'
<1> DEFINE N == m_numExtraRadioNodes
           extras == [i \in 1 .. N |-> Len(kind) + i]
           radios == [i \in DOMAIN extras |-> "radio"]
           ones == [i \in DOMAIN extras |-> 1]
<1>1. /\ UNCHANGED <<tables, config, enabled, phyOff, cellNetwork, pgwAddress,
                     reported, ended>>
      /\ m_extraRadioNodes' = m_extraRadioNodes \o extras
      /\ kind' = kind \o radios /\ addresses' = addresses \o ones
      /\ m_didRunOnStart' = TRUE
  BY DEF OnStart
<1>2. /\ N \in Nat /\ Len(kind) \in Nat /\ NodeIds = 1 .. Len(kind)
      /\ kind \in Seq(Kinds) /\ addresses \in Seq(Nat) /\ Len(addresses) = Len(kind)
  BY ExtraAssumption, NodeIdsAreIndices DEF NInv, TypeOK, NodesConfigured, Kinds
<1>3. /\ radios \in Seq(Kinds) /\ Len(radios) = N
      /\ ones \in Seq(Nat) /\ Len(ones) = N
      /\ \A i \in 1 .. N : radios[i] = "radio" /\ ones[i] = 1
  BY <1>2 DEF Kinds
<1> HIDE DEF extras, radios, ones
<1>4. /\ kind' \in Seq(Kinds) /\ Len(kind') = Len(kind) + N
      /\ \A i \in 1 .. Len(kind) + N :
            kind'[i] = IF i <= Len(kind) THEN kind[i] ELSE "radio"
  <2>1. /\ kind' \in Seq(Kinds) /\ Len(kind') = Len(kind) + N
        /\ \A i \in 1 .. Len(kind) + N :
              kind'[i] = IF i <= Len(kind) THEN kind[i] ELSE radios[i - Len(kind)]
    <3>1. kind \in Seq(Kinds) /\ radios \in Seq(Kinds)
      BY <1>2, <1>3
    <3>2. /\ kind \o radios \in Seq(Kinds) /\ Len(kind \o radios) = Len(kind) + Len(radios)
          /\ \A i \in 1 .. Len(kind) + Len(radios) :
                (kind \o radios)[i] =
                    IF i <= Len(kind) THEN kind[i] ELSE radios[i - Len(kind)]
      BY <3>1, ConcatProperties, Zenon
    <3> QED
      BY <1>1, <1>3, <3>1, <3>2
  <2>2. \A i \in 1 .. Len(kind) + N :
            i > Len(kind) => i - Len(kind) \in 1 .. N
    BY <1>2
  <2> QED
    BY <1>2, <1>3, <2>1, <2>2
<1>5. /\ addresses' \in Seq(Nat) /\ Len(addresses') = Len(kind) + N
      /\ \A i \in 1 .. Len(kind) + N :
            addresses'[i] = IF i <= Len(kind) THEN addresses[i] ELSE 1
  <2>1. /\ addresses' \in Seq(Nat) /\ Len(addresses') = Len(kind) + N
        /\ \A i \in 1 .. Len(kind) + N :
              addresses'[i] =
                  IF i <= Len(kind) THEN addresses[i] ELSE ones[i - Len(kind)]
    <3>1. addresses \in Seq(Nat) /\ ones \in Seq(Nat)
      BY <1>2, <1>3
    <3>2. /\ addresses \o ones \in Seq(Nat) /\ Len(addresses \o ones) = Len(addresses) + Len(ones)
          /\ \A i \in 1 .. Len(addresses) + Len(ones) :
                (addresses \o ones)[i] =
                    IF i <= Len(addresses) THEN addresses[i] ELSE ones[i - Len(addresses)]
      BY <3>1, ConcatProperties, Zenon
    <3> QED
      BY <1>1, <1>2, <1>3, <3>1, <3>2
  <2>2. \A i \in 1 .. Len(kind) + N :
            i > Len(kind) => i - Len(kind) \in 1 .. N
    BY <1>2
  <2>3. \A i \in 1 .. Len(kind) + N :
            i > Len(kind) => ones[i - Len(kind)] = 1
    BY <1>3, <2>2
  <2>4. \A i \in 1 .. Len(kind) + N : i > Len(kind) \/ i <= Len(kind)
    BY <1>2
  <2> QED
    BY <2>1, <2>3, <2>4
<1>6. NodeIds' = 1 .. Len(kind) + N
  BY <1>4, LenProperties DEF NodeIds
<1>7. Grown(N)
  BY <1>2, <1>4, <1>5, <1>6 DEF Grown
<1>8. /\ NodeIds \subseteq NodeIds' /\ addresses' \in [NodeIds' -> Nat]
      /\ m_extraRadioNodes \in Seq(NodeIds') /\ Bound \subseteq NodeIds
      /\ \A i \in DOMAIN m_extraRadioNodes : kind'[m_extraRadioNodes[i]] = "radio"
  BY <1>2, <1>7, GrowthKeeps
<1>9. m_extraRadioNodes' \in Seq(NodeIds') /\ PoolIsRadio'
  <2>1. /\ extras \in Seq(NodeIds') /\ Len(extras) = N
        /\ \A i \in 1 .. N : extras[i] \in Nat /\ kind'[extras[i]] = "radio"
    BY <1>2, <1>4, <1>6 DEF extras
  <2>2. /\ m_extraRadioNodes' \in Seq(NodeIds')
        /\ DOMAIN m_extraRadioNodes = 1 .. Len(m_extraRadioNodes)
        /\ DOMAIN m_extraRadioNodes' = 1 .. Len(m_extraRadioNodes) + N
        /\ Len(m_extraRadioNodes) \in Nat
        /\ \A i \in 1 .. Len(m_extraRadioNodes) + N :
              m_extraRadioNodes'[i] =
                  IF i <= Len(m_extraRadioNodes) THEN m_extraRadioNodes[i]
                  ELSE extras[i - Len(m_extraRadioNodes)]
    <3>1. m_extraRadioNodes \in Seq(NodeIds') /\ extras \in Seq(NodeIds')
      BY <1>8, <2>1
    <3>2. /\ m_extraRadioNodes \o extras \in Seq(NodeIds') /\ Len(m_extraRadioNodes \o extras) = Len(m_extraRadioNodes) + Len(extras)
          /\ \A i \in 1 .. Len(m_extraRadioNodes) + Len(extras) :
                (m_extraRadioNodes \o extras)[i] =
                    IF i <= Len(m_extraRadioNodes) THEN m_extraRadioNodes[i] ELSE extras[i - Len(m_extraRadioNodes)]
      BY <3>1, ConcatProperties, Zenon
    <3> QED
      BY <1>1, <2>1, <3>1, <3>2, LenProperties
  <2>3. ASSUME NEW i \in DOMAIN m_extraRadioNodes'
        PROVE  kind'[m_extraRadioNodes'[i]] = "radio"
    <3>1. CASE i <= Len(m_extraRadioNodes)
      BY <1>8, <2>2, <3>1
    <3>2. CASE ~ (i <= Len(m_extraRadioNodes))
      <4>1. i - Len(m_extraRadioNodes) \in 1 .. N
        BY <1>2, <2>2, <3>2
      <4> QED
        BY <2>1, <2>2, <3>2, <4>1
    <3> QED
      BY <3>1, <3>2
  <2> QED
    BY <2>2, <2>3 DEF PoolIsRadio
<1>10. NodesConfigured' /\ EnabledByItsConfiguration'
  BY <1>1, <1>7, <1>8, ConfigurationKept DEF Grown, tables, Bound
<1>11. IdTablesInverse'
  BY <1>1 DEF tables, NInv, IdTablesInverse, Known, Node
<1>12. RolesMatch'
  BY <1>1, <1>7, <1>8 DEF tables, NInv, RolesMatch, Bound, Grown
<1>13. TypeOK'
  <2>1. kind' \in Seq({"enb", "wired", "radio"}) /\ m_didRunOnStart' \in BOOLEAN
    BY <1>1, <1>4 DEF Kinds
  <2> QED
    BY <1>1, <1>8, <1>9, <2>1 DEF NInv, TypeOK, config, tables, WifiApp, CellApp
<1>14. NoInternalError'
  BY <1>1 DEF NInv, NoInternalError
<1> QED
  BY <1>9, <1>10, <1>11, <1>12, <1>13, <1>14 DEF NInv

(* A node of the pool is a radio node, and its roles are free. *)
LEMMA ActivatePreserves ==
    ASSUME NInv, NEW id \in MosaicId, ActivateRadioNode(id)
    PROVE  NInv'
<1>1. UNCHANGED <<kind, m_isWiredNode, config, m_extraRadioNodes, ns3,
                  m_didRunOnStart, reported, ended>>
  BY DEF ActivateRadioNode
<1>2. PICK i \in DOMAIN m_extraRadioNodes :
          /\ IsFree(m_extraRadioNodes[i]) /\ Bind(id, m_extraRadioNodes[i])
          /\ m_isRadioNode' = m_isRadioNode \cup {m_extraRadioNodes[i]}
  BY DEF ActivateRadioNode
<1> DEFINE node == m_extraRadioNodes[i]
<1>3. node \in NodeIds /\ kind[node] = "radio" /\ node \notin Bound /\ ~ Known(id)
  <2>1. m_extraRadioNodes \in Seq(NodeIds)
    BY DEF NInv, TypeOK
  <2>2. node \in NodeIds
    BY <2>1, ElementOfSeq, LenProperties
  <2> QED
    BY <1>2, <2>2 DEF NInv, PoolIsRadio, IsFree, Bound, ActivateRadioNode
<1>4. NodeIds' = NodeIds
  BY <1>1 DEF NodeIds
<1> HIDE DEF node
<1>5. Bind(id, node) /\ m_isRadioNode' = m_isRadioNode \cup {node}
  BY <1>2 DEF node
<1>6. IdTablesInverse' /\ Bound' = Bound \cup {node}
  BY <1>3, <1>5, BindKeepsInverse DEF NInv
<1>7. RolesMatch'
  BY <1>1, <1>3, <1>5, <1>6 DEF NInv, RolesMatch, Bound
<1>8. /\ m_mosaic2nsdrei' \in [DOMAIN m_mosaic2nsdrei' -> NodeIds']
      /\ DOMAIN m_mosaic2nsdrei' \subseteq MosaicId
      /\ m_nsdrei2mosaic' \in [DOMAIN m_nsdrei2mosaic' -> MosaicId]
      /\ DOMAIN m_nsdrei2mosaic' \subseteq NodeIds'
  BY <1>3, <1>4, <1>5, BindKeepsTypes DEF NInv
<1>9. NodesConfigured' /\ EnabledByItsConfiguration'
  <2>1. addresses' \in Seq(Nat) /\ Len(addresses') = Len(kind')
    BY <1>1 DEF NInv, NodesConfigured, ns3
  <2> QED
    BY <1>1, <1>3, <1>4, <1>5, <1>6, <2>1, ConfigurationKept DEF ns3
<1>10. TypeOK'
  BY <1>1, <1>3, <1>4, <1>5, <1>8 DEF NInv, TypeOK, config, ns3
<1>11. PoolIsRadio' /\ NoInternalError'
  BY <1>1 DEF NInv, PoolIsRadio, NoInternalError
<1> QED
  BY <1>6, <1>7, <1>9, <1>10, <1>11 DEF NInv

-----------------------------------------------------------------------------
(* Only a node in the tables can be commanded. *)
LEMMA LiveIsBound ==
    ASSUME NInv, NEW id \in MosaicId, Live(id)
    PROVE  /\ Node(id) \in NodeIds /\ Node(id) \in Bound
           /\ Node(id) \in m_isRadioNode \cup m_isWiredNode
           /\ Node(id) \notin m_isDeactivated
           /\ m_nsdrei2mosaic[Node(id)] = id
BY DEF NInv, TypeOK, IdTablesInverse, RolesMatch, Live, Known, Node, Bound

LEMMA RemovePreserves ==
    ASSUME NInv, NEW id \in MosaicId, RemoveNode(id)
    PROVE  NInv'
<1> DEFINE node == Node(id)
<1>1. node \in NodeIds /\ node \in Bound
  BY LiveIsBound DEF RemoveNode
<1> HIDE DEF node
<1>2. /\ phyOff' = IF node \in m_isRadioNode THEN phyOff \cup {node} ELSE phyOff
      /\ enabled' = enabled \ {<<node, 0>>}
      /\ m_isDeactivated' = m_isDeactivated \cup {node}
      /\ UNCHANGED <<kind, tables, m_isWifiRadioConfigured, m_isCellRadioConfigured,
                     m_extraRadioNodes, addresses, cellNetwork, pgwAddress,
                     m_didRunOnStart, reported, ended>>
  BY DEF RemoveNode, node
<1>3. /\ NodeIds' = NodeIds /\ Bound' = Bound /\ Configured' = Configured
      /\ m_isRadioNode' = m_isRadioNode /\ m_isWiredNode' = m_isWiredNode
  BY <1>2 DEF NodeIds, tables, Bound, Configured
<1>4. TypeOK'
  BY <1>1, <1>2, <1>3 DEF NInv, TypeOK, tables
<1>5. IdTablesInverse' /\ RolesMatch' /\ PoolIsRadio' /\ NoInternalError'
  BY <1>2 DEF NInv, IdTablesInverse, RolesMatch, PoolIsRadio, NoInternalError,
              tables, Known, Node
<1>6. NodesConfigured'
  <2>1. (UNION {m_isDeactivated, m_isWifiRadioConfigured, Configured} \subseteq Bound)'
    BY <1>1, <1>2, <1>3 DEF NInv, NodesConfigured
  <2>2. \A n \in NodeIds', app \in {WifiApp, CellApp} : <<n, app>> \in enabled' => n \in Bound'
    BY <1>2, <1>3 DEF NInv, NodesConfigured
  <2>3. \A n \in Configured' \ m_isDeactivated' : <<n, SendingApp(n)'>> \in enabled'
    BY <1>2, <1>3 DEF NInv, NodesConfigured, SendingApp
  <2> QED
    BY <1>2, <1>3, <2>1, <2>2, <2>3 DEF NInv, NodesConfigured, IpFits, SendingApp
<1>7. EnabledByItsConfiguration'
  BY <1>2, <1>3 DEF NInv, EnabledByItsConfiguration, Configured
<1> QED
  BY <1>4, <1>5, <1>6, <1>7 DEF NInv

LEMMA WifiPreserves ==
    ASSUME NInv, NEW id \in MosaicId, ConfigureWifiRadio(id)
    PROVE  NInv'
<1> DEFINE node == Node(id)
<1>1. node \in NodeIds /\ node \in Bound
  BY LiveIsBound DEF ConfigureWifiRadio
<1> HIDE DEF node
<1>2. /\ m_isWifiRadioConfigured' = m_isWifiRadioConfigured \cup {node}
      /\ enabled' = enabled \cup {<<node, WifiApp>>}
      /\ NsAssert => node \in m_isRadioNode
      /\ UNCHANGED <<kind, tables, m_isDeactivated, m_isCellRadioConfigured,
                     m_extraRadioNodes, phyOff, addresses, cellNetwork, pgwAddress,
                     m_didRunOnStart, reported, ended>>
  BY DEF ConfigureWifiRadio, node
<1>3. /\ NodeIds' = NodeIds /\ Bound' = Bound /\ Configured' = Configured
      /\ m_isRadioNode' = m_isRadioNode /\ m_isWiredNode' = m_isWiredNode
  BY <1>2 DEF NodeIds, tables, Bound, Configured
<1>4. TypeOK'
  <2>1. enabled' \subseteq NodeIds' \X {WifiApp, CellApp}
    <3>1. enabled \subseteq NodeIds \X {WifiApp, CellApp}
      BY DEF NInv, TypeOK
    <3>2. <<node, WifiApp>> \in NodeIds \X {WifiApp, CellApp}
      BY <1>1
    <3> QED
      BY <1>2, <1>3, <3>1, <3>2, Zenon
  <2>2. (UNION {m_isDeactivated, m_isWifiRadioConfigured, m_isCellRadioConfigured}
            \subseteq NodeIds)'
    BY <1>1, <1>2, <1>3 DEF NInv, TypeOK
  <2> QED
    BY <1>2, <1>3, <2>1, <2>2 DEF NInv, TypeOK, tables
<1>5. IdTablesInverse' /\ RolesMatch' /\ PoolIsRadio' /\ NoInternalError'
  BY <1>2 DEF NInv, IdTablesInverse, RolesMatch, PoolIsRadio, NoInternalError,
              tables, Known, Node
<1>6. NodesConfigured'
  <2>1. (UNION {m_isDeactivated, m_isWifiRadioConfigured, Configured} \subseteq Bound)'
    BY <1>1, <1>2, <1>3 DEF NInv, NodesConfigured
  <2>2. \A n \in NodeIds', app \in {WifiApp, CellApp} : <<n, app>> \in enabled' => n \in Bound'
    BY <1>1, <1>2, <1>3 DEF NInv, NodesConfigured
  <2>3. \A n \in Configured' \ m_isDeactivated' : <<n, SendingApp(n)'>> \in enabled'
    BY <1>2, <1>3 DEF NInv, NodesConfigured, SendingApp
  <2> QED
    BY <1>2, <1>3, <2>1, <2>2, <2>3 DEF NInv, NodesConfigured, IpFits, SendingApp
<1>7. EnabledByItsConfiguration'
  <2> SUFFICES ASSUME NsAssert, NEW n \in NodeIds'
               PROVE  /\ <<n, CellApp>> \in enabled' => n \in Configured'
                      /\ <<n, WifiApp>> \in enabled' =>
                            IF n \in m_isRadioNode'
                            THEN n \in m_isWifiRadioConfigured'
                            ELSE n \in Configured'
    BY DEF EnabledByItsConfiguration, Configured
  <2>1. /\ <<n, CellApp>> \in enabled => n \in Configured
        /\ <<n, WifiApp>> \in enabled =>
              IF n \in m_isRadioNode
              THEN n \in m_isWifiRadioConfigured
              ELSE n \in Configured
    BY <1>3 DEF NInv, EnabledByItsConfiguration, Configured
  <2>2. <<n, CellApp>> # <<node, WifiApp>>
    BY DEF WifiApp, CellApp
  <2> QED
    BY <1>2, <1>3, <2>1, <2>2
<1> QED
  BY <1>4, <1>5, <1>6, <1>7 DEF NInv

(* The faults of a configuration that can be excluded, and the others. *)
LEMMA CellFaults ==
    ASSUME NInv, NEW node \in Bound, node \notin Configured, NEW network
    PROVE  /\ CellFault(node, network) \in {"no", "assertion", "no eNB"}
           /\ CellFault(node, network) = "no" =>
                 (NsAssert => IpFits(node, network))
<1>1. node \in NodeIds /\ node \in m_isRadioNode \cup m_isWiredNode
  BY DEF NInv, TypeOK, RolesMatch, Bound
<1>2. addresses[node] = 1
  BY <1>1 DEF NInv, NodesConfigured
<1> QED
  BY <1>1, <1>2 DEF CellFault

LEMMA CellPreserves ==
    ASSUME NInv, NEW id \in MosaicId, NEW network \in Networks,
           ConfigureCellRadio(id, network)
    PROVE  NInv'
<1> DEFINE node == Node(id)
<1>1. /\ node \in NodeIds /\ node \in Bound /\ node \notin Configured
      /\ node \in m_isRadioNode \cup m_isWiredNode
  BY LiveIsBound DEF ConfigureCellRadio, Configured
<1>2. NsAssert => IpFits(node, network)
  BY <1>1, CellFaults DEF ConfigureCellRadio
<1> HIDE DEF node
<1>3. /\ m_isCellRadioConfigured' = m_isCellRadioConfigured \cup {node}
      /\ cellNetwork' = Put(cellNetwork, node, network)
      /\ addresses' = [addresses EXCEPT ![node] = @ + 1]
      /\ IF node \in m_isRadioNode
         THEN /\ enabled' = enabled \cup {<<node, CellApp>>}
              /\ pgwAddress' = Put(pgwAddress, node, LearnedAddress(addresses[node] + 1))
         ELSE /\ enabled' = enabled \cup {<<node, WiredApp>>}
              /\ UNCHANGED pgwAddress
      /\ UNCHANGED <<kind, tables, m_isDeactivated, m_isWifiRadioConfigured,
                     m_extraRadioNodes, phyOff, m_didRunOnStart, reported, ended>>
  BY DEF ConfigureCellRadio, node
<1>4. /\ NodeIds' = NodeIds /\ Bound' = Bound
      /\ Configured' = Configured \cup {node}
      /\ m_isRadioNode' = m_isRadioNode /\ m_isWiredNode' = m_isWiredNode
  BY <1>3 DEF NodeIds, tables, Bound, Configured
<1>5. enabled' = enabled \cup {<<node, SendingApp(node)>>}
  BY <1>3 DEF SendingApp
<1>6. /\ addresses' \in Seq(Nat) /\ Len(addresses') = Len(kind')
      /\ addresses' \in [NodeIds' -> Nat]
      /\ addresses'[node] = 2
      /\ \A n \in NodeIds : n # node => addresses'[n] = addresses[n]
  <2>1. /\ addresses \in Seq(Nat) /\ addresses \in [NodeIds -> Nat]
        /\ Len(addresses) = Len(kind) /\ addresses[node] = 1
    BY <1>1 DEF NInv, TypeOK, NodesConfigured
  <2>2. DOMAIN addresses = NodeIds
    BY <2>1
  <2>3. addresses' = [addresses EXCEPT ![node] = 2]
    BY <1>3, <2>1
  <2>4. /\ addresses' \in Seq(Nat) /\ Len(addresses') = Len(addresses)
    BY <1>1, <2>1, <2>2, <2>3, ExceptSeq, LenProperties
  <2>5. /\ addresses' \in [NodeIds -> Nat] /\ addresses'[node] = 2
        /\ \A n \in NodeIds : n # node => addresses'[n] = addresses[n]
    BY <1>1, <2>1, <2>3
  <2> QED
    BY <1>3, <1>4, <2>1, <2>4, <2>5
<1>7. /\ cellNetwork' \in [Configured' -> Networks]
      /\ cellNetwork'[node] = network
      /\ \A n \in Configured : cellNetwork'[n] = cellNetwork[n]
  <2>1. cellNetwork \in [Configured -> Networks]
    BY DEF NInv, TypeOK, Configured
  <2>2. Put(cellNetwork, node, network) \in [Configured \cup {node} -> Networks]
    BY <2>1, PutType
  <2> QED
    BY <1>1, <1>3, <1>4, <2>1, <2>2 DEF Put
<1>8. /\ DOMAIN pgwAddress' = m_isRadioNode \cap Configured'
      /\ \A n \in DOMAIN pgwAddress' : pgwAddress'[n] = "mosaic"
      /\ pgwAddress' \in [DOMAIN pgwAddress' -> {"assigned by ns-3", "mosaic"}]
      /\ DOMAIN pgwAddress' \subseteq NodeIds'
  <2>1. /\ DOMAIN pgwAddress = m_isRadioNode \cap Configured
        /\ \A n \in DOMAIN pgwAddress : pgwAddress[n] = "mosaic"
        /\ addresses[node] = 1
    BY <1>1 DEF NInv, NodesConfigured
  <2>2. /\ pgwAddress \in [DOMAIN pgwAddress -> {"assigned by ns-3", "mosaic"}]
        /\ DOMAIN pgwAddress \subseteq NodeIds
    BY DEF NInv, TypeOK
  <2>3. CASE node \in m_isRadioNode
    <3>1. pgwAddress' = Put(pgwAddress, node, "mosaic")
      BY <1>3, <2>1, <2>3 DEF LearnedAddress
    <3> QED
      BY <1>1, <1>4, <2>1, <2>2, <2>3, <3>1 DEF Put
  <2>4. CASE node \notin m_isRadioNode
    BY <1>3, <1>4, <2>1, <2>2, <2>4
  <2> QED
    BY <2>3, <2>4
<1>9. NodesConfigured'
  <2>1. (UNION {m_isDeactivated, m_isWifiRadioConfigured, Configured} \subseteq Bound)'
    BY <1>1, <1>3, <1>4 DEF NInv, NodesConfigured
  <2>2. \A n \in NodeIds', app \in {WifiApp, CellApp} : <<n, app>> \in enabled' => n \in Bound'
    BY <1>1, <1>4, <1>5 DEF NInv, NodesConfigured
  <2>3. \A n \in NodeIds' : addresses'[n] = IF n \in Configured' THEN 2 ELSE 1
    BY <1>4, <1>6 DEF NInv, NodesConfigured
  <2>4. NsAssert => \A n \in Configured' : IpFits(n, cellNetwork[n])'
    BY <1>2, <1>4, <1>7 DEF NInv, NodesConfigured, IpFits
  <2>5. \A n \in Configured' \ m_isDeactivated' : <<n, SendingApp(n)'>> \in enabled'
    BY <1>3, <1>4, <1>5 DEF NInv, NodesConfigured, SendingApp
  <2> QED
    BY <1>4, <1>6, <1>8, <2>1, <2>2, <2>3, <2>4, <2>5 DEF NodesConfigured, SendingApp
<1>10. TypeOK'
  <2>1. enabled' \subseteq NodeIds' \X {WifiApp, CellApp}
    <3>1. SendingApp(node) \in {WifiApp, CellApp}
      BY DEF SendingApp, WiredApp, WifiApp, CellApp
    <3>2. enabled \subseteq NodeIds \X {WifiApp, CellApp}
      BY DEF NInv, TypeOK
    <3>3. <<node, SendingApp(node)>> \in NodeIds \X {WifiApp, CellApp}
      BY <1>1, <3>1
    <3> QED
      BY <1>4, <1>5, <3>2, <3>3, Zenon
  <2>2. (UNION {m_isDeactivated, m_isWifiRadioConfigured, m_isCellRadioConfigured}
            \subseteq NodeIds)'
    BY <1>1, <1>3, <1>4 DEF NInv, TypeOK
  <2>3. cellNetwork' \in [m_isCellRadioConfigured' -> Networks]
    BY <1>7 DEF Configured
  <2> QED
    BY <1>3, <1>4, <1>6, <1>8, <2>1, <2>2, <2>3 DEF NInv, TypeOK, tables
<1>11. IdTablesInverse' /\ RolesMatch' /\ PoolIsRadio' /\ NoInternalError'
  BY <1>3 DEF NInv, IdTablesInverse, RolesMatch, PoolIsRadio, NoInternalError,
              tables, Known, Node
<1>12. EnabledByItsConfiguration'
  <2> SUFFICES ASSUME NsAssert, NEW n \in NodeIds'
               PROVE  /\ <<n, CellApp>> \in enabled' => n \in Configured'
                      /\ <<n, WifiApp>> \in enabled' =>
                            IF n \in m_isRadioNode'
                            THEN n \in m_isWifiRadioConfigured'
                            ELSE n \in Configured'
    BY DEF EnabledByItsConfiguration, Configured
  <2>1. /\ <<n, CellApp>> \in enabled => n \in Configured
        /\ <<n, WifiApp>> \in enabled =>
              IF n \in m_isRadioNode
              THEN n \in m_isWifiRadioConfigured
              ELSE n \in Configured
    BY <1>4 DEF NInv, EnabledByItsConfiguration, Configured
  <2>2. <<n, WifiApp>> = <<node, SendingApp(node)>> => n \notin m_isRadioNode
    BY DEF SendingApp, WifiApp, CellApp
  <2> QED
    BY <1>3, <1>4, <1>5, <2>1, <2>2
<1> QED
  BY <1>9, <1>10, <1>11, <1>12 DEF NInv

(* Whoever hands up a packet is in the tables. *)
LEMMA ReceivePreserves ==
    ASSUME NInv, NEW node \in NodeIds, Receive(node)
    PROVE  /\ NInv'
           /\ reported' = m_nsdrei2mosaic[node]
           /\ node \in Bound /\ node \notin m_isDeactivated
           /\ UNCHANGED <<tables, enabled>>
<1>1. node \in Bound
  BY DEF NInv, NodesConfigured, Receive
<1>2. /\ reported' = m_nsdrei2mosaic[node]
      /\ UNCHANGED <<kind, tables, config, m_extraRadioNodes, ns3,
                     m_didRunOnStart, ended>>
  BY <1>1 DEF Receive, Bound
<1>3. reported' \in MosaicId
  BY <1>1, <1>2 DEF NInv, TypeOK, Bound
<1> USE DEF NInv, tables, config, ns3
<1>4. TypeOK'
  BY <1>2, <1>3 DEF TypeOK, NodeIds
<1>5. IdTablesInverse' /\ RolesMatch' /\ PoolIsRadio' /\ NoInternalError'
  BY <1>2 DEF IdTablesInverse, RolesMatch, PoolIsRadio, NoInternalError, Node, Known
<1>6. NodesConfigured'
  BY <1>2 DEF NodesConfigured, Bound, Configured, NodeIds, SendingApp, IpFits
<1>7. EnabledByItsConfiguration'
  BY <1>2 DEF EnabledByItsConfiguration, NodeIds
<1> QED
  BY <1>1, <1>2, <1>4, <1>5, <1>6, <1>7 DEF Receive

(* What of the next-state relation has no lemma of its own. *)
LEMMA EndingPreserves ==
    ASSUME NInv, NEW id \in MosaicId, NEW network \in Networks,
           \/ NoExtraNode(id) \/ DuplicateNode(id) \/ UnknownNode(id)
           \/ WifiOnWiredNode(id) \/ WifiSendFails(id) \/ UpdateWiredNode(id)
           \/ CellConfigurationFails(id, network)
    PROVE  NInv' /\ UNCHANGED <<tables, enabled, reported>>
<1>1. PICK why \in {"unknown id", "duplicate id", "no extra node", "assertion",
                    "no eNB", "channel", "no mobility model"} : End(why)
  <2>1. CASE CellConfigurationFails(id, network)
    <3>1. /\ Node(id) \in Bound /\ Node(id) \notin Configured
          /\ CellFault(Node(id), network) # "no" /\ End(CellFault(Node(id), network))
      BY <2>1, LiveIsBound DEF CellConfigurationFails, Configured
    <3>2. CellFault(Node(id), network) \in {"no", "assertion", "no eNB"}
      BY <3>1, CellFaults
    <3> QED
      BY <3>1, <3>2
  <2>2. CASE ~ CellConfigurationFails(id, network)
    BY <2>2 DEF NoExtraNode, DuplicateNode, UnknownNode, WifiOnWiredNode, WifiSendFails,
                UpdateWiredNode
  <2> QED
    BY <2>1, <2>2
<1>2. NInv'
  BY <1>1, EndPreserves
<1> QED
  BY <1>1, <1>2 DEF End, ns3

(* Every step preserves the invariant, no id loses its node, and nothing   *)
(* is enabled on or heard from a removed node.                             *)
LEMMA NextPreserves ==
    ASSUME NInv, [Next]_vars
    PROVE  NInv' /\ [KeepsNode]_vars /\ [StaysRemoved]_vars
<1> DEFINE Good == NInv' /\ KeepsNode /\ StaysRemoved
<1>0. SUFFICES Next => Good
  <2>1. CASE UNCHANGED vars
    <3> USE <2>1 DEF vars, tables, config, ns3
    <3>1. TypeOK'
      BY DEF NInv, TypeOK, NodeIds
    <3>2. IdTablesInverse' /\ RolesMatch' /\ PoolIsRadio' /\ NoInternalError'
      BY DEF NInv, IdTablesInverse, RolesMatch, PoolIsRadio, NoInternalError, Node, Known
    <3>3. NodesConfigured'
      BY DEF NInv, NodesConfigured, Bound, Configured, NodeIds, SendingApp, IpFits
    <3>4. EnabledByItsConfiguration'
      BY DEF NInv, EnabledByItsConfiguration, NodeIds
    <3> QED
      BY <3>1, <3>2, <3>3, <3>4 DEF NInv
  <2> QED
    BY <2>1
<1>1. ASSUME UNCHANGED m_mosaic2nsdrei
      PROVE  KeepsNode
  BY <1>1 DEF KeepsNode, Known, Node
<1>2. ASSUME NEW id, NEW node, ~ Known(id), Bind(id, node)
      PROVE  KeepsNode
  BY <1>2 DEF KeepsNode, Known, Node, Bind, Put
<1>3. ASSUME UNCHANGED <<enabled, reported>>
      PROVE  StaysRemoved
  BY <1>3 DEF StaysRemoved
<1>4. ASSUME CreateNodeB \/ \E id \in MosaicId : CreateWiredNode(id) \/ CreateRadioNode(id)
      PROVE  Good
  <2>1. NInv'
    BY <1>4, CreatePreserves
  <2>2. StaysRemoved
    BY <1>3, <1>4 DEF CreateNodeB, CreateWiredNode, CreateRadioNode
  <2>3. KeepsNode
    <3>1. CASE CreateNodeB
      BY <1>1, <3>1 DEF CreateNodeB, tables
    <3>2. ASSUME NEW id \in MosaicId, CreateWiredNode(id) \/ CreateRadioNode(id)
          PROVE  KeepsNode
      <4>1. ~ Known(id) /\ Bind(id, Len(kind) + 1)
        BY <3>2 DEF CreateWiredNode, CreateRadioNode
      <4> QED
        BY <1>2, <4>1
    <3> QED
      BY <1>4, <3>1, <3>2
  <2> QED
    BY <2>1, <2>2, <2>3
<1>5. ASSUME OnStart
      PROVE  Good
  BY <1>1, <1>3, <1>5, OnStartPreserves DEF OnStart, tables
<1>6. ASSUME NEW id \in MosaicId, ActivateRadioNode(id)
      PROVE  Good
  <2>1. NInv'
    BY <1>6, ActivatePreserves
  <2>2. StaysRemoved
    BY <1>3, <1>6 DEF ActivateRadioNode, ns3
  <2>3. PICK node : ~ Known(id) /\ Bind(id, node)
    BY <1>6 DEF ActivateRadioNode
  <2> QED
    BY <1>2, <2>1, <2>2, <2>3
<1>7. ASSUME NEW id \in MosaicId, RemoveNode(id)
      PROVE  Good
  <2>1. NInv'
    BY <1>7, RemovePreserves
  <2>2. enabled' \subseteq enabled /\ UNCHANGED reported
    BY <1>7 DEF RemoveNode
  <2>3. KeepsNode
    BY <1>1, <1>7 DEF RemoveNode, tables
  <2> QED
    BY <2>1, <2>2, <2>3 DEF StaysRemoved
<1>8. ASSUME NEW id \in MosaicId, ConfigureWifiRadio(id)
      PROVE  Good
  <2>1. NInv'
    BY <1>8, WifiPreserves
  <2>2. /\ enabled' = enabled \cup {<<Node(id), WifiApp>>} /\ UNCHANGED reported
        /\ Node(id) \notin m_isDeactivated
    BY <1>8, LiveIsBound DEF ConfigureWifiRadio
  <2>3. KeepsNode
    BY <1>1, <1>8 DEF ConfigureWifiRadio, tables
  <2> QED
    BY <2>1, <2>2, <2>3 DEF StaysRemoved
<1>9. ASSUME NEW id \in MosaicId, NEW network \in Networks,
             ConfigureCellRadio(id, network)
      PROVE  Good
  <2>1. NInv'
    BY <1>9, CellPreserves
  <2>2. /\ \/ enabled' = enabled \cup {<<Node(id), CellApp>>}
           \/ enabled' = enabled \cup {<<Node(id), WiredApp>>}
        /\ UNCHANGED reported
        /\ Node(id) \notin m_isDeactivated
    BY <1>9, LiveIsBound DEF ConfigureCellRadio
  <2>3. KeepsNode
    BY <1>1, <1>9 DEF ConfigureCellRadio, tables
  <2> QED
    BY <2>1, <2>2, <2>3 DEF StaysRemoved
<1>10. ASSUME NEW id \in MosaicId, NEW network \in Networks,
              \/ NoExtraNode(id) \/ DuplicateNode(id) \/ UnknownNode(id)
              \/ WifiOnWiredNode(id) \/ WifiSendFails(id) \/ UpdateWiredNode(id)
              \/ CellConfigurationFails(id, network)
       PROVE  Good
  <2>1. NInv' /\ UNCHANGED <<tables, enabled, reported>>
    BY <1>10, EndingPreserves
  <2> QED
    BY <1>1, <1>3, <2>1 DEF tables
<1>11. ASSUME NEW node \in NodeIds, Receive(node)
       PROVE  Good
  <2>1. /\ NInv' /\ reported' = m_nsdrei2mosaic[node]
        /\ node \in Bound /\ node \notin m_isDeactivated
        /\ UNCHANGED <<tables, enabled>>
    BY <1>11, ReceivePreserves
  <2>2. Node(reported') = node
    BY <2>1 DEF NInv, IdTablesInverse, Bound
  <2> QED
    BY <1>1, <2>1, <2>2 DEF tables, StaysRemoved
<1>12. <<10, 1>> \in Networks
  BY DEF Networks
<1> QED
  BY <1>4, <1>5, <1>6, <1>7, <1>8, <1>9, <1>10, <1>11, <1>12 DEF Next

-----------------------------------------------------------------------------
(* The invariant holds in every reachable state. *)
THEOREM NodesInvariant == Spec => []NInv
<1>1. Init => NInv
  BY NInvInit
<1>2. NInv /\ [Next]_vars => NInv'
  BY NextPreserves
<1> QED
  BY <1>1, <1>2, PTL DEF Spec

(* Tables, pool, addresses and routes hold what they are declared to hold: *)
(* in particular no index into the NodeList is ever beyond its end.        *)
THEOREM TypesOfTheNodes == Spec => []TypeOK
BY NodesInvariant, PTL DEF NInv

(* Nodes of MOSAIC and of ns-3 stay in one-to-one correspondence, whether  *)
(* they were created before the start, wired, or taken from the pool.      *)
THEOREM TablesStayInverse == Spec => []IdTablesInverse
BY NodesInvariant, PTL DEF NInv

(* A node has one role, and it is the one it was built for. *)
THEOREM RolesAreTheBuiltOnes == Spec => []RolesMatch
BY NodesInvariant, PTL DEF NInv

(* Of the exits of the federate, those that would mean a fault of its own  *)
(* bookkeeping cannot be reached.                                          *)
THEOREM BookkeepingIsSound == Spec => []NoInternalError
BY NodesInvariant, PTL DEF NInv

(* An application runs only on a configured interface. *)
THEOREM NothingRunsUnconfigured == Spec => []EnabledByItsConfiguration
BY NodesInvariant, PTL DEF NInv

(* An id names the same node for ever. *)
THEOREM IdsAreForGood == Spec => BindingsPermanent
<1>1. NInv /\ [Next]_vars => [KeepsNode]_vars
  BY NextPreserves
<1> QED
  BY <1>1, NodesInvariant, PTL DEF Spec, BindingsPermanent

(* A removal is final, whatever events of the node are still scheduled. *)
THEOREM RemovalIsFinal == Spec => RemovedStaysSilent
<1>1. NInv /\ [Next]_vars => [StaysRemoved]_vars
  BY NextPreserves
<1> QED
  BY <1>1, NodesInvariant, PTL DEF Spec, RemovedStaysSilent

-----------------------------------------------------------------------------
(* Longest prefix match, when there is one such route. *)
LEMMA BestRoute ==
    ASSUME NEW routes, NEW address, NEW r \in routes, IsPrefix(r.prefix, address),
           Len(r.prefix) \in Nat,
           \A s \in routes : IsPrefix(s.prefix, address) /\ s # r =>
               Len(s.prefix) \in Nat /\ Len(s.prefix) < Len(r.prefix)
    PROVE  LeadsTo(routes, address) = r.to
<1> DEFINE matching == {s \in routes : IsPrefix(s.prefix, address)}
           longest == {s \in matching :
                          \A t \in matching : Len(t.prefix) <= Len(s.prefix)}
<1>1. r \in longest
  OBVIOUS
<1>2. \A s \in longest : s = r
  OBVIOUS
<1>3. (CHOOSE s \in longest : TRUE) = r
  BY <1>1, <1>2
<1>4. matching # {}
  BY <1>1
<1> QED
  BY <1>3, <1>4 DEF LeadsTo

(* A prefix, element by element. *)
LEMMA PrefixByElements ==
    ASSUME NEW S, NEW s \in Seq(S), NEW t \in Seq(S)
    PROVE  IsPrefix(t, s) <=>
               Len(t) <= Len(s) /\ \A i \in 1 .. Len(t) : t[i] = s[i]
<1>1. Len(t) \in Nat /\ Len(s) \in Nat
  BY LenProperties
<1>2. SubSeq(t, 1, Len(t)) = t
  BY SubSeqFull
<1> SUFFICES ASSUME Len(t) <= Len(s)
             PROVE  SubSeq(s, 1, Len(t)) = t <=> \A i \in 1 .. Len(t) : t[i] = s[i]
  BY <1>2 DEF IsPrefix
<1> DEFINE u == SubSeq(s, 1, Len(t))
<1>3. \A i \in 1 .. Len(t) : s[i] \in S
  BY <1>1, ElementOfSeq
<1>4. /\ u \in Seq(S) /\ Len(u) = Len(t)
      /\ \A i \in 1 .. Len(t) : u[i] = s[i]
  BY <1>1, <1>3, SubSeqProperties
<1> HIDE DEF u
<1>5. ASSUME u = t
      PROVE  \A i \in 1 .. Len(t) : t[i] = s[i]
  BY <1>4, <1>5
<1>6. ASSUME \A i \in 1 .. Len(t) : t[i] = s[i]
      PROVE  u = t
  <2>1. \A i \in 1 .. Len(u) : u[i] = t[i]
    BY <1>4, <1>6
  <2> QED
    BY <1>4, <2>1, SeqEqual, Zenon
<1> QED
  BY <1>5, <1>6 DEF u

(* Addresses of a host in a network, and their prefixes. *)
LEMMA HostPrefixes ==
    ASSUME NEW a, NEW b, NEW host
    PROVE  /\ IsPrefix(<< >>, <<a, b, host>>)
           /\ \A c : IsPrefix(<<c>>, <<a, b, host>>) <=> c = a
           /\ \A c, d : IsPrefix(<<c, d>>, <<a, b, host>>) <=> c = a /\ d = b
<1> DEFINE s == <<a, b, host>>
<1>0. /\ Len(s) = 3 /\ s[1] = a /\ s[2] = b
  OBVIOUS
<1>1. IsPrefix(<< >>, s)
  <2>1. << >> \in Seq({a, b, host}) /\ s \in Seq({a, b, host})
    OBVIOUS
  <2> QED
    <3>1. IsPrefix(<< >>, s) <=>
              Len(<< >>) <= Len(s) /\ \A i \in 1 .. Len(<< >>) : << >>[i] = s[i]
      BY <2>1, PrefixByElements, Zenon
    <3>2. Len(<< >>) = 0
      BY EmptySeq
    <3> HIDE DEF s
    <3> QED
      BY <1>0, <3>1, <3>2
<1>2. ASSUME NEW c
      PROVE  IsPrefix(<<c>>, s) <=> c = a
  <2>1. <<c>> \in Seq({a, b, c, host}) /\ s \in Seq({a, b, c, host})
    OBVIOUS
  <2>2. IsPrefix(<<c>>, s) <=>
            Len(<<c>>) <= Len(s) /\ \A i \in 1 .. Len(<<c>>) : <<c>>[i] = s[i]
    BY <2>1, PrefixByElements, Zenon
  <2>3. Len(<<c>>) = 1 /\ <<c>>[1] = c
    OBVIOUS
  <2> HIDE DEF s
  <2> QED
    BY <1>0, <2>2, <2>3
<1>3. ASSUME NEW c, NEW d
      PROVE  IsPrefix(<<c, d>>, s) <=> c = a /\ d = b
  <2>1. <<c, d>> \in Seq({a, b, c, d, host}) /\ s \in Seq({a, b, c, d, host})
    OBVIOUS
  <2>2. IsPrefix(<<c, d>>, s) <=>
            Len(<<c, d>>) <= Len(s) /\ \A i \in 1 .. Len(<<c, d>>) : <<c, d>>[i] = s[i]
    BY <2>1, PrefixByElements, Zenon
  <2>3. Len(<<c, d>>) = 2 /\ <<c, d>>[1] = c /\ <<c, d>>[2] = d
    OBVIOUS
  <2> HIDE DEF s
  <2> QED
    BY <1>0, <2>2, <2>3
<1> QED
  BY <1>1, <1>2, <1>3

(* An address is the network and the host. *)
LEMMA HostInNetwork ==
    ASSUME NEW a, NEW b, NEW host
    PROVE  Append(<<a, b>>, host) = <<a, b, host>>
<1> DEFINE S == {a, b, host}
<1>1. <<a, b>> \in Seq(S) /\ Len(<<a, b>>) = 2 /\ <<a, b>>[1] = a /\ <<a, b>>[2] = b
  OBVIOUS
<1>2. /\ <<a, b, host>> \in Seq(S) /\ Len(<<a, b, host>>) = 3
      /\ <<a, b, host>>[1] = a /\ <<a, b, host>>[2] = b /\ <<a, b, host>>[3] = host
  OBVIOUS
<1> DEFINE u == Append(<<a, b>>, host)
<1>3. /\ u \in Seq(S) /\ Len(u) = 3
      /\ u[1] = a /\ u[2] = b /\ u[3] = host
  BY <1>1, AppendProperties
<1>4. \A i \in 1 .. Len(u) : u[i] = <<a, b, host>>[i]
  BY <1>2, <1>3
<1> QED
  BY <1>2, <1>3, <1>4, SeqEqual, Zenon

(* The network of a configured node follows from its role. *)
LEMMA NetworkOfRole ==
    ASSUME NInv, NsAssert, NEW node \in DOMAIN cellNetwork
    PROVE  /\ node \in Configured
           /\ node \in m_isRadioNode \/ node \in m_isWiredNode
           /\ ~ (node \in m_isRadioNode /\ node \in m_isWiredNode)
           /\ node \in m_isRadioNode => cellNetwork[node] = <<10, 1>>
           /\ node \in m_isWiredNode => cellNetwork[node] \in ServerNetworks
           /\ node \in m_isRadioNode => node \in DOMAIN pgwAddress
<1>1. node \in Configured /\ cellNetwork[node] \in Networks
  BY DEF NInv, TypeOK, Configured
<1>2. node \in m_isRadioNode \cup m_isWiredNode
  BY <1>1 DEF NInv, NodesConfigured, RolesMatch, Bound
<1>3. IpFits(node, cellNetwork[node]) /\ node \in m_isRadioNode => node \in DOMAIN pgwAddress
  BY <1>1 DEF NInv, NodesConfigured
<1>4. IpFits(node, cellNetwork[node])
  BY <1>1 DEF NInv, NodesConfigured
<1>5. cellNetwork[node][1] = 10
  BY <1>4 DEF IpFits
<1>6. cellNetwork[node] # <<192, 168>>
  BY <1>5
<1>7. node \in m_isRadioNode => cellNetwork[node] = <<10, 1>>
  BY <1>1, <1>4, <1>6 DEF IpFits, Networks
<1>8. node \in m_isWiredNode => cellNetwork[node] \in ServerNetworks
  BY <1>4 DEF IpFits
<1>9. ~ (node \in m_isRadioNode /\ node \in m_isWiredNode)
  BY DEF NInv, RolesMatch
<1> QED
  BY <1>1, <1>2, <1>3, <1>4, <1>7, <1>8, <1>9

(* Where the PGW sends what is for a UE, and what is for a wired node. *)
LEMMA PgwLeads ==
    ASSUME NEW host
    PROVE  /\ LeadsTo(PgwRoutes, <<10, 1, host>>) = "tunnel"
           /\ LeadsTo(PgwRoutes, <<10, 5, host>>) = "backbone"
           /\ LeadsTo(PgwRoutes, <<10, 6, host>>) = "backbone"
<1>1. ASSUME NEW r \in PgwRoutes
      PROVE  \/ r = Route(<<5>>, "backbone") \/ r = Route(<<10>>, "tunnel")
             \/ r = Route(<<10, 5>>, "backbone") \/ r = Route(<<10, 6>>, "backbone")
  BY DEF PgwRoutes
<1> DEFINE five == Route(<<5>>, "backbone")
           ten == Route(<<10>>, "tunnel")
           server5 == Route(<<10, 5>>, "backbone")
           server6 == Route(<<10, 6>>, "backbone")
<1>2. /\ five.prefix = <<5>> /\ ten.prefix = <<10>>
      /\ server5.prefix = <<10, 5>> /\ server6.prefix = <<10, 6>>
      /\ ten.to = "tunnel" /\ server5.to = "backbone" /\ server6.to = "backbone"
  BY DEF Route
<1>3. Len(<<10>>) = 1 /\ Len(<<10, 5>>) = 2 /\ Len(<<10, 6>>) = 2
  OBVIOUS
<1>4. ten \in PgwRoutes /\ server5 \in PgwRoutes /\ server6 \in PgwRoutes
  BY DEF PgwRoutes
<1> HIDE DEF five, ten, server5, server6
<1>5. \A b : ~ IsPrefix(<<5>>, <<10, b, host>>) /\ IsPrefix(<<10>>, <<10, b, host>>)
  BY HostPrefixes
<1>6. \A b : /\ IsPrefix(<<10, 5>>, <<10, b, host>>) <=> b = 5
             /\ IsPrefix(<<10, 6>>, <<10, b, host>>) <=> b = 6
  BY HostPrefixes
<1>7. \A r \in PgwRoutes : r \in {five, ten, server5, server6}
  BY <1>1 DEF five, ten, server5, server6
<1>8. LeadsTo(PgwRoutes, <<10, 1, host>>) = "tunnel"
  <2>1. \A s \in PgwRoutes : IsPrefix(s.prefix, <<10, 1, host>>) => s = ten
    BY <1>2, <1>5, <1>6, <1>7
  <2>2. IsPrefix(ten.prefix, <<10, 1, host>>) /\ Len(ten.prefix) \in Nat
    BY <1>2, <1>3, <1>5
  <2> QED
    BY <1>2, <1>4, <2>1, <2>2, BestRoute
<1>9. LeadsTo(PgwRoutes, <<10, 5, host>>) = "backbone"
  <2>1. \A s \in PgwRoutes : IsPrefix(s.prefix, <<10, 5, host>>) => s \in {ten, server5}
    BY <1>2, <1>5, <1>6, <1>7
  <2>2. IsPrefix(server5.prefix, <<10, 5, host>>) /\ Len(server5.prefix) = 2
        /\ Len(ten.prefix) = 1
    BY <1>2, <1>3, <1>6
  <2>3. ASSUME NEW s \in PgwRoutes,
               IsPrefix(s.prefix, <<10, 5, host>>), s # server5
        PROVE  Len(s.prefix) \in Nat /\ Len(s.prefix) < Len(server5.prefix)
    <3>1. s = ten
      BY <2>1, <2>3
    <3>2. Len(s.prefix) = 1
      BY <2>2, <3>1
    <3> QED
      BY <2>2, <3>2
  <2>4. server5 \in PgwRoutes /\ Len(server5.prefix) \in Nat
    BY <1>4, <2>2
  <2>5. LeadsTo(PgwRoutes, <<10, 5, host>>) = server5.to
    BY <2>2, <2>3, <2>4, BestRoute
  <2> QED
    BY <1>2, <2>5
<1>10. LeadsTo(PgwRoutes, <<10, 6, host>>) = "backbone"
  <2>1. \A s \in PgwRoutes : IsPrefix(s.prefix, <<10, 6, host>>) => s \in {ten, server6}
    BY <1>2, <1>5, <1>6, <1>7
  <2>2. IsPrefix(server6.prefix, <<10, 6, host>>) /\ Len(server6.prefix) = 2
        /\ Len(ten.prefix) = 1
    BY <1>2, <1>3, <1>6
  <2>3. ASSUME NEW s \in PgwRoutes,
               IsPrefix(s.prefix, <<10, 6, host>>), s # server6
        PROVE  Len(s.prefix) \in Nat /\ Len(s.prefix) < Len(server6.prefix)
    <3>1. s = ten
      BY <2>1, <2>3
    <3>2. Len(s.prefix) = 1
      BY <2>2, <3>1
    <3> QED
      BY <2>2, <3>2
  <2>4. server6 \in PgwRoutes /\ Len(server6.prefix) \in Nat
    BY <1>4, <2>2
  <2>5. LeadsTo(PgwRoutes, <<10, 6, host>>) = server6.to
    BY <2>2, <2>3, <2>4, BestRoute
  <2> QED
    BY <1>2, <2>5
<1> QED
  BY <1>8, <1>9, <1>10

(* A wired node asks the link for its own network, the PGW for the rest. *)
LEMMA WiredLeads ==
    ASSUME NEW node, NEW a \in {5, 6}, cellNetwork[node] = <<10, a>>, NEW b, NEW host
    PROVE  LeadsTo(WiredRoutes(node), <<10, b, host>>) =
               IF b = a THEN "backbone" ELSE "pgw"
<1> DEFINE five == Route(<<5>>, "backbone")
           own == Route(<<10, a>>, "backbone")
           rest == Route(<< >>, "pgw")
<1>1. /\ five.prefix = <<5>> /\ own.prefix = <<10, a>> /\ rest.prefix = << >>
      /\ own.to = "backbone" /\ rest.to = "pgw"
  BY DEF Route
<1>2. Len(<<10, a>>) = 2 /\ Len(<< >>) = 0
  BY EmptySeq
<1>3. WiredRoutes(node) = {five, own, rest}
  BY DEF WiredRoutes
<1> HIDE DEF five, own, rest
<1>4. /\ ~ IsPrefix(<<5>>, <<10, b, host>>) /\ IsPrefix(<< >>, <<10, b, host>>)
      /\ IsPrefix(<<10, a>>, <<10, b, host>>) <=> b = a
  BY HostPrefixes
<1>5. CASE b = a
  <2>1. \A s \in WiredRoutes(node) :
            IsPrefix(s.prefix, <<10, b, host>>) => s \in {own, rest}
    BY <1>1, <1>3, <1>4
  <2>2. /\ IsPrefix(own.prefix, <<10, b, host>>) /\ Len(own.prefix) = 2
        /\ Len(rest.prefix) = 0 /\ own \in WiredRoutes(node)
    BY <1>1, <1>2, <1>3, <1>4, <1>5
  <2> QED
    BY <1>1, <1>5, <2>1, <2>2, BestRoute
<1>6. CASE b # a
  <2>1. \A s \in WiredRoutes(node) :
            IsPrefix(s.prefix, <<10, b, host>>) => s = rest
    BY <1>1, <1>3, <1>4, <1>6
  <2>2. /\ IsPrefix(rest.prefix, <<10, b, host>>) /\ Len(rest.prefix) = 0
        /\ rest \in WiredRoutes(node)
    BY <1>1, <1>2, <1>3, <1>4
  <2> QED
    BY <1>1, <1>6, <2>1, <2>2, BestRoute
<1> QED
  BY <1>5, <1>6

(* Who is found by an address, on the link and in the tunnels. *)
LEMMA FoundByAddress ==
    ASSUME NInv, NsAssert, NEW node \in DOMAIN cellNetwork
    PROVE  /\ node \in m_isWiredNode => OnBackbone(Address(node)) = {node}
           /\ node \in m_isRadioNode => InTunnel(Address(node)) = {node}
           /\ node \in m_isRadioNode => Address(node) = <<10, 1, node>>
           /\ \A b : cellNetwork[node] = <<10, b>> => Address(node) = <<10, b, node>>
<1>1. \A n \in DOMAIN cellNetwork : \E a, b : Address(n) = <<a, b, n>>
  <2>1. \A n \in DOMAIN cellNetwork : cellNetwork[n] \in Networks
    BY DEF NInv, TypeOK
  <2>2. \A net \in Networks : \E a, b : net = <<a, b>>
    BY DEF Networks, ServerNetworks
  <2>3. ASSUME NEW n \in DOMAIN cellNetwork
        PROVE  \E a, b : Address(n) = <<a, b, n>>
    <3>1. PICK a, b : cellNetwork[n] = <<a, b>>
      BY <2>1, <2>2
    <3>2. Address(n) = Append(<<a, b>>, n)
      BY <3>1 DEF Address
    <3>3. Append(<<a, b>>, n) = <<a, b, n>>
      BY HostInNetwork
    <3> QED
      BY <3>2, <3>3, Zenon
  <2> QED
    BY <2>3
<1>2. \A n \in DOMAIN cellNetwork : Address(n) = Address(node) => n = node
  BY <1>1
<1>3. \A n \in DOMAIN pgwAddress : n \in DOMAIN cellNetwork /\ pgwAddress[n] = "mosaic"
  BY DEF NInv, NodesConfigured, TypeOK, Configured
<1>4. node \in m_isWiredNode => OnBackbone(Address(node)) = {node}
  BY <1>2 DEF OnBackbone
<1>5. node \in m_isRadioNode => InTunnel(Address(node)) = {node}
  BY <1>2, <1>3, NetworkOfRole DEF InTunnel
<1>6. \A b : cellNetwork[node] = <<10, b>> => Address(node) = <<10, b, node>>
  BY HostInNetwork DEF Address
<1> QED
  BY <1>4, <1>5, <1>6, NetworkOfRole

(* Once both are configured, one node finds the other, whatever the mix of *)
(* UEs and wired nodes, networks, removals and the order of it all.        *)
THEOREM EveryoneIsReached == Spec => []CellReaches
<1>1. ASSUME NInv
      PROVE  CellReaches
  <2> SUFFICES ASSUME NsAssert, NEW sender \in DOMAIN cellNetwork,
                      NEW receiver \in DOMAIN cellNetwork,
                      sender # receiver, sender \notin m_isDeactivated
               PROVE  /\ <<sender, SendingApp(sender)>> \in enabled
                      /\ Receivers(sender, Address(receiver)) = {receiver}
    BY DEF CellReaches
  <2> USE <1>1
  <2>1. <<sender, SendingApp(sender)>> \in enabled
    BY NetworkOfRole DEF NInv, NodesConfigured
  <2>2. PICK b \in {1, 5, 6} :
            /\ cellNetwork[receiver] = <<10, b>>
            /\ Address(receiver) = <<10, b, receiver>>
            /\ b = 1 => receiver \in m_isRadioNode
            /\ b # 1 => receiver \in m_isWiredNode
    <3>1. CASE receiver \in m_isRadioNode
      BY <3>1, NetworkOfRole, FoundByAddress
    <3>2. CASE receiver \in m_isWiredNode
      BY <3>2, NetworkOfRole, FoundByAddress DEF ServerNetworks
    <3> QED
      BY <3>1, <3>2, NetworkOfRole
  <2>3. FromPgw(Address(receiver)) = {receiver}
    <3>1. CASE b = 1
      <4>1. LeadsTo(PgwRoutes, Address(receiver)) = "tunnel"
        BY <2>2, <3>1, PgwLeads
      <4>2. InTunnel(Address(receiver)) = {receiver}
        BY <2>2, <3>1, FoundByAddress
      <4> QED
        BY <4>1, <4>2 DEF FromPgw
    <3>2. CASE b # 1
      <4>1. LeadsTo(PgwRoutes, Address(receiver)) = "backbone"
        BY <2>2, <3>2, PgwLeads
      <4>2. OnBackbone(Address(receiver)) = {receiver}
        BY <2>2, <3>2, FoundByAddress
      <4> QED
        BY <4>1, <4>2 DEF FromPgw
    <3> QED
      BY <3>1, <3>2
  <2>4. CASE sender \in m_isRadioNode
    <3>1. OutDevice(sender) = "lte" /\ sender \in DOMAIN pgwAddress
      BY <2>4, NetworkOfRole DEF OutDevice, Devices
    <3> QED
      BY <2>1, <2>3, <3>1 DEF Receivers
  <2>5. CASE sender \notin m_isRadioNode
    <3>1. OutDevice(sender) = "csma"
      BY <2>5 DEF OutDevice, Devices
    <3>2. PICK a \in {5, 6} : cellNetwork[sender] = <<10, a>>
      BY <2>5, NetworkOfRole DEF ServerNetworks
    <3>3. LeadsTo(WiredRoutes(sender), Address(receiver)) =
              IF b = a THEN "backbone" ELSE "pgw"
      BY <2>2, <3>2, WiredLeads
    <3>4. CASE b = a
      <4>1. OnBackbone(Address(receiver)) = {receiver}
        BY <2>2, <3>2, <3>4, FoundByAddress
      <4> QED
        BY <2>1, <3>1, <3>3, <3>4, <4>1 DEF Receivers
    <3>5. CASE b # a
      BY <2>1, <2>3, <3>1, <3>3, <3>5 DEF Receivers
    <3> QED
      BY <3>4, <3>5
  <2> QED
    BY <2>4, <2>5
<1> QED
  BY <1>1, NodesInvariant, PTL
================================================================================
