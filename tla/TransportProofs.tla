--------------------------- MODULE TransportProofs ---------------------------
(***************************************************************************)
(* IndInv is an inductive invariant of Transport, for any nodes, IDs,      *)
(* payloads and bounds.                                                    *)
(***************************************************************************)
EXTENDS Transport, MessageQueueProofs

USE DEF ChannelAlive

\* A new transport has no connection, and nothing is under way.
LEMMA InitIndInv == Init => IndInv
<1> SUFFICES ASSUME Init PROVE IndInv
  OBVIOUS
<1> USE DEF Init
<1>1. TypeOK
  BY TransportAssumption, NewType, EmptySeq DEF TypeOK, DialState, ConnState, Event, Alarm
<1>2. DialInv
  BY TransportAssumption DEF DialInv
<1>3. FreshInv
  BY DEF FreshInv, New
<1>4. Agreement /\ MixnetInv
  BY DEF Agreement, MixnetInv
<1>5. PostedInv
  BY DEF PostedInv
<1>6. QueueInv
  BY TransportAssumption DEF QueueInv, New
<1>7. NothingPoppableIsLeft
  BY DEF NothingPoppableIsLeft
<1>8. InOrder /\ NoAlarms
  BY EmptySeq DEF InOrder, NoAlarms
<1> QED
  BY <1>1, <1>2, <1>3, <1>4, <1>5, <1>6, <1>7, <1>8 DEF IndInv

\* What the type of a message under way says of its fields.
LEMMA MixnetTypes ==
    ASSUME TypeOK, NEW m \in mixnet
    PROVE  /\ m.to \in Node /\ m.id \in ConnectionId
           /\ m.type = "ConnectionRequest" => m.recipient \in Node
           /\ m.type = "TransportMessage" => Inner(m) \in TransportMessage
<1>1. m \in Request \/ m \in Response \/ m \in Transported
  BY DEF TypeOK
<1> QED
  BY <1>1 DEF Request, Response, Transported, Inner, TransportMessage

\* A connection has a remote node.
LEMMA RemoteTypes ==
    ASSUME TypeOK, FreshInv, NEW t \in Node, NEW i \in connections[t]
    PROVE  i \in ConnectionId /\ remote[t][i] \in Node
<1>1. i \in ConnectionId
  BY DEF TypeOK
<1> QED
  BY <1>1 DEF FreshInv

\* Listener events concern no connection.
LEMMA EventStep ==
    ASSUME IndInv, NEW t \in Node, RemoveListener(t) \/ PollEvent(t)
    PROVE  IndInv'
<1>1. poll_rx' \in [Node -> Seq(Event)]
  <2>1. poll_rx \in [Node -> Seq(Event)] /\ "ListenerClosed" \in Event
    BY DEF IndInv, TypeOK, Event
  <2>2. CASE RemoveListener(t)
    BY <2>1, <2>2 DEF RemoveListener
  <2>3. CASE PollEvent(t)
    <3>1. Tail(poll_rx[t]) \in Seq(Event)
      BY <2>1, <2>3, HeadTailProperties DEF PollEvent
    <3> QED
      BY <2>1, <2>3, <3>1 DEF PollEvent
  <2> QED
    BY <2>2, <2>3
<1>2. UNCHANGED <<dialVars, connVars, sendVars, recvVars, netVars>>
  BY DEF RemoveListener, PollEvent
<1>3. TypeOK'
  BY <1>1, <1>2 DEF IndInv, TypeOK, dialVars, connVars, sendVars, recvVars, netVars
<1>4. (DialInv /\ FreshInv /\ Agreement)'
  BY <1>2 DEF IndInv, DialInv, FreshInv, Agreement, dialVars, connVars, sendVars, recvVars, netVars
<1>5. MixnetInv'
  BY <1>2 DEF IndInv, MixnetInv, dialVars, connVars, sendVars, recvVars, netVars
<1>6. (PostedInv /\ QueueInv)'
  BY <1>2 DEF IndInv, PostedInv, QueueInv, dialVars, connVars, sendVars, recvVars, netVars
<1>7. (NothingPoppableIsLeft /\ InOrder /\ NoAlarms)'
  BY <1>2 DEF IndInv, NothingPoppableIsLeft, InOrder, NoAlarms, dialVars, connVars, sendVars,
     recvVars, netVars
<1> QED
  BY <1>3, <1>4, <1>5, <1>6, <1>7 DEF IndInv

\* dial makes a new ID pending; nothing else knows of it.
LEMMA DialStep ==
    ASSUME IndInv, NEW t \in Node, NEW i \in ConnectionId, NEW r \in Node, Dial(t, i, r)
    PROVE  IndInv'
<1> USE DEF Dial, dialVars, connVars, sendVars, recvVars, netVars
<1>1. TypeOK'
  BY DEF IndInv, TypeOK, DialState
<1>2. /\ pending_dials \in [Node -> SUBSET ConnectionId]
      /\ dial \in [Node -> [ConnectionId -> DialState]]
      /\ recipient \in [Node -> [ConnectionId -> Node \cup {NoNode}]]
  BY DEF IndInv, TypeOK
<1>3. DialInv'
  BY <1>2 DEF IndInv, DialInv
<1>4. FreshInv' /\ PostedInv' /\ QueueInv' /\ NothingPoppableIsLeft' /\ InOrder' /\ NoAlarms'
  BY DEF IndInv, FreshInv, PostedInv, QueueInv, NothingPoppableIsLeft, InOrder, NoAlarms
<1>5. \A u \in Node, j \in ConnectionId :
         recipient[u][j] \in Node => recipient'[u][j] = recipient[u][j] /\ dial'[u][j] = dial[u][j]
  BY <1>2 DEF IndInv, DialInv
<1>6. Agreement'
  BY <1>5, RemoteTypes DEF IndInv, Agreement
<1>7. MixnetInv'
  <2>1. /\ TypeOK /\ MixnetInv
        /\ mixnet' = mixnet /\ connections' = connections /\ remote' = remote /\ posted' = posted
    BY DEF IndInv
  <2>2. \A m \in mixnet :
           /\ m.to \in Node /\ m.id \in ConnectionId
           /\ m.type = "ConnectionRequest" => m.recipient \in Node
    BY <2>1, MixnetTypes, Zenon
  <2> HIDE DEF Dial
  <2> QED  BY <2>1, <2>2, <1>5 DEF MixnetInv
<1> QED
  BY <1>1, <1>3, <1>4, <1>6, <1>7 DEF IndInv

\* The first poll of a dial sends the request.
LEMMA PollDialStep ==
    ASSUME IndInv, NEW t \in Node, NEW i \in ConnectionId, PollDial(t, i)
    PROVE  IndInv'
<1> USE DEF PollDial, connVars, sendVars, recvVars
<1> DEFINE req == [type |-> "ConnectionRequest", to |-> recipient[t][i], id |-> i, recipient |-> t]
<1>1. /\ dial \in [Node -> [ConnectionId -> DialState]]
      /\ recipient[t][i] \in Node
      /\ dial'[t][i] = "waiting"
      /\ \A u \in Node, j \in ConnectionId :
            <<u, j>> # <<t, i>> => dial'[u][j] = dial[u][j]
  BY DEF IndInv, TypeOK, DialInv
<1>2. TypeOK'
  <2>1. dial' \in [Node -> [ConnectionId -> DialState]]
    BY <1>1 DEF DialState
  <2>2. req \in Request
    BY <1>1 DEF Request
  <2> QED
    BY <2>1, <2>2 DEF IndInv, TypeOK
<1>3. DialInv'
  BY <1>1 DEF IndInv, DialInv
<1>4. FreshInv' /\ PostedInv' /\ QueueInv' /\ NothingPoppableIsLeft' /\ InOrder' /\ NoAlarms'
  BY DEF IndInv, FreshInv, PostedInv, QueueInv, NothingPoppableIsLeft, InOrder, NoAlarms
<1>5. \A u \in Node, j \in ConnectionId : dial[u][j] # "created" => dial'[u][j] # "created"
  BY <1>1
<1>6. Agreement'
  BY <1>5, RemoteTypes DEF IndInv, Agreement
<1>7. MixnetInv'
  <2>1. ASSUME NEW m \in mixnet'
        PROVE  m \in mixnet \/ m = req
    BY <2>1
  <2> QED
    BY <1>1, <1>5, <2>1, MixnetTypes DEF IndInv, MixnetInv
<1> QED
  BY <1>2, <1>3, <1>4, <1>6, <1>7 DEF IndInv

\* A step that only moves dials and Connections along their life preserves the
\* invariant, if it neither makes nor unmakes any and revives none.
LEMMA LifeStep ==
    ASSUME IndInv,
           dial' \in [Node -> [ConnectionId -> DialState]],
           conn' \in [Node -> [ConnectionId -> ConnState]],
           \A u \in Node, j \in ConnectionId :
              /\ dial'[u][j] = "none" <=> dial[u][j] = "none"
              /\ dial'[u][j] = "created" => dial[u][j] = "created"
              /\ conn'[u][j] = "none" <=> conn[u][j] = "none"
              /\ conn'[u][j] \in {"ready", "open"} => conn[u][j] \in {"ready", "open"}
              /\ dial'[u][j] = "answered" => conn'[u][j] = "ready",
           UNCHANGED <<poll_rx, pending_dials, recipient, connections, remote, sendVars, recvVars,
                       netVars>>
    PROVE  IndInv'
<1> USE DEF sendVars, recvVars, netVars
<1>1. TypeOK'
  BY DEF IndInv, TypeOK
<1>2. DialInv'
  BY DEF IndInv, DialInv
<1>3. PostedInv' /\ QueueInv' /\ InOrder' /\ NoAlarms'
  BY DEF IndInv, PostedInv, QueueInv, InOrder, NoAlarms
<1>a. FreshInv'
  BY DEF IndInv, FreshInv
<1>4. NothingPoppableIsLeft'
  BY DEF IndInv, NothingPoppableIsLeft
<1>5. Agreement'
  <2>1. \A u \in Node, j \in ConnectionId : dial[u][j] # "created" => dial'[u][j] # "created"
    OBVIOUS
  <2>2. UNCHANGED <<recipient, connections, remote>>
    OBVIOUS
  <2>3. Agreement /\ \A u \in Node : \A j \in connections[u] : j \in ConnectionId /\ remote[u][j] \in Node
    BY RemoteTypes DEF IndInv
  <2> QED
    BY ONLY <2>1, <2>2, <2>3 DEF Agreement
<1>6. MixnetInv'
  BY MixnetTypes DEF IndInv, MixnetInv
<1> QED
  BY <1>1, <1>2, <1>3, <1>a, <1>4, <1>5, <1>6 DEF IndInv

\* A dial resolves, times out or is dropped; an Upgrade resolves or is dropped; a
\* Connection is dropped.
LEMMA ApplicationStep ==
    ASSUME IndInv, NEW t \in Node, NEW i \in ConnectionId,
           \/ ResolveDial(t, i) \/ TimeOutDial(t, i) \/ DropDial(t, i)
           \/ ResolveUpgrade(t, i) \/ DropUpgrade(t, i) \/ DropConnection(t, i)
    PROVE  IndInv'
<1> USE DEF dialVars, connVars, DialState, ConnState
<1>1. /\ dial \in [Node -> [ConnectionId -> DialState]]
      /\ conn \in [Node -> [ConnectionId -> ConnState]]
  BY DEF IndInv, TypeOK
<1>a. \A u \in Node, j \in ConnectionId : dial[u][j] = "answered" => conn[u][j] = "ready"
  BY DEF IndInv, DialInv
<1>2. CASE ResolveDial(t, i)
  <2>1. conn[t][i] = "ready"
    BY <1>2 DEF IndInv, DialInv, ResolveDial
  <2> QED
    BY <1>1, <1>2, <2>1, <1>a, LifeStep DEF ResolveDial
<1>3. CASE TimeOutDial(t, i)
  BY <1>1, <1>3, <1>a, LifeStep DEF TimeOutDial
<1>4. CASE DropDial(t, i)
  <2>1. dial[t][i] = "answered" => conn[t][i] = "ready"
    BY <1>4 DEF IndInv, DialInv
  <2> QED
    BY <1>1, <1>4, <2>1, <1>a, LifeStep DEF DropDial
<1>5. CASE ResolveUpgrade(t, i)
  BY <1>1, <1>5, <1>a, LifeStep DEF ResolveUpgrade, InUpgrade
<1>6. CASE DropUpgrade(t, i)
  BY <1>1, <1>6, <1>a, LifeStep DEF DropUpgrade, InUpgrade
<1>7. CASE DropConnection(t, i)
  BY <1>1, <1>7, <1>a, LifeStep DEF DropConnection
<1> QED
  BY <1>2, <1>3, <1>4, <1>5, <1>6, <1>7

\* Only one node sends to t over a connection.
LEMMA SingleSender ==
    ASSUME IndInv, NEW i \in ConnectionId, NEW t \in Node, NEW u \in Node, NEW v \in Node,
           remote[u][i] = t, remote[v][i] = t
    PROVE  u = v
<1>1. i \in connections[u] /\ i \in connections[v]
  BY TransportAssumption DEF IndInv, FreshInv
<1>2. \/ recipient[u][i] = t
      \/ recipient[t][i] = u
  BY <1>1 DEF IndInv, Agreement
<1>3. \/ recipient[v][i] = t
      \/ recipient[t][i] = v
  BY <1>1 DEF IndInv, Agreement
<1>4. \A x, y \in Node : recipient[x][i] \in Node /\ recipient[y][i] \in Node => x = y
  BY DEF IndInv, DialInv
<1> QED
  BY <1>2, <1>3, <1>4

\* Fetching a nonce, and giving one up.
LEMMA NonceStep ==
    ASSUME IndInv, NEW t \in Node, NEW i \in ConnectionId,
           ReserveNonce(t, i) \/ DiscardNonce(t, i)
    PROVE  IndInv'
<1> USE DEF dialVars, connVars, recvVars, netVars
<1>1. /\ message_nonce \in [Node -> [ConnectionId -> 0 .. MaxNonce + 1]]
      /\ reserved \in [Node -> [ConnectionId -> SUBSET (1 .. MaxNonce)]]
      /\ posted \in [Node -> [ConnectionId -> SUBSET TransportMessage]]
      /\ MaxNonce \in Nat /\ MaxNonce + 1 < NonceSpace /\ NonceSpace \in Nat
  BY TransportAssumption, NonceSpaceAssumption DEF IndInv, TypeOK
<1>2. UNCHANGED <<poll_rx, dialVars, connVars, posted, recvVars, netVars>>
  BY DEF ReserveNonce, DiscardNonce
<1>3. /\ message_nonce[t][i] >= 1
      /\ i \in connections[t]
      /\ \A n \in reserved[t][i] : 1 <= n /\ n < message_nonce[t][i]
  <2>1. conn[t][i] # "none" \/ reserved[t][i] # {}
    BY DEF ReserveNonce, DiscardNonce
  <2> QED
    BY <2>1 DEF IndInv, FreshInv, PostedInv
<1>4. /\ message_nonce' \in [Node -> [ConnectionId -> 0 .. MaxNonce + 1]]
      /\ reserved' \in [Node -> [ConnectionId -> SUBSET (1 .. MaxNonce)]]
      /\ \A u \in Node, j \in ConnectionId :
            <<u, j>> # <<t, i>> => /\ message_nonce'[u][j] = message_nonce[u][j]
                                   /\ reserved'[u][j] = reserved[u][j]
      /\ message_nonce'[t][i] >= message_nonce[t][i]
      /\ \A n \in reserved'[t][i] : 1 <= n /\ n < message_nonce'[t][i]
      /\ \A n \in 1 .. message_nonce[t][i] - 1 : n \in reserved'[t][i] => n \in reserved[t][i]
  <2>1. CASE ReserveNonce(t, i)
    <3>1. message_nonce[t][i] \in 1 .. MaxNonce /\ WrappingAdd1(message_nonce[t][i]) = message_nonce[t][i] + 1
      BY <1>1, <1>3, <2>1 DEF ReserveNonce, WrappingAdd1
    <3>2. /\ message_nonce' = [message_nonce EXCEPT ![t][i] = message_nonce[t][i] + 1]
          /\ reserved' = [reserved EXCEPT ![t][i] = reserved[t][i] \cup {message_nonce[t][i]}]
      BY <1>1, <2>1, <3>1 DEF ReserveNonce
    <3> QED
      BY <1>1, <1>3, <3>1, <3>2
  <2>2. CASE DiscardNonce(t, i)
    BY <1>1, <1>3, <2>2 DEF DiscardNonce
  <2> QED
    BY <2>1, <2>2
<1>5. TypeOK'
  BY <1>2, <1>4 DEF IndInv, TypeOK
<1>6. /\ DialInv' /\ Agreement' /\ MixnetInv' /\ QueueInv' /\ NothingPoppableIsLeft' /\ InOrder'
      /\ NoAlarms'
  BY <1>2 DEF IndInv, DialInv, Agreement, MixnetInv, QueueInv, NothingPoppableIsLeft, InOrder, NoAlarms
<1>7. FreshInv'
  <2> SUFFICES ASSUME NEW u \in Node, NEW j \in ConnectionId
               PROVE  IF j \in connections[u]
                        THEN conn[u][j] # "none" /\ remote[u][j] \in Node /\ message_nonce'[u][j] >= 1
                        ELSE /\ conn[u][j] = "none" /\ remote[u][j] = NoNode
                             /\ message_nonce'[u][j] = 0 /\ reserved'[u][j] = {}
                             /\ inbound[u][j] = <<>>
                             /\ message_queues[u][j].next_expected_nonce = 0
    BY <1>2 DEF FreshInv
  <2>1. CASE <<u, j>> = <<t, i>>
    BY <1>1, <1>3, <1>4, <2>1 DEF IndInv, FreshInv
  <2>2. CASE <<u, j>> # <<t, i>>
    <3>1. message_nonce'[u][j] = message_nonce[u][j] /\ reserved'[u][j] = reserved[u][j]
      BY <1>4, <2>2
    <3> QED
      BY <3>1 DEF IndInv, FreshInv
  <2> QED
    BY <2>1, <2>2
<1>8. PostedInv'
  <2>1. ASSUME NEW u \in Node, NEW j \in ConnectionId
        PROVE  \A n \in reserved'[u][j] : 1 <= n /\ n < message_nonce'[u][j]
    <3>1. CASE <<u, j>> = <<t, i>>
      BY <1>4, <3>1
    <3>2. CASE <<u, j>> # <<t, i>>
      <4>1. message_nonce'[u][j] = message_nonce[u][j] /\ reserved'[u][j] = reserved[u][j]
        BY <1>4, <3>2
      <4> QED
        BY <4>1 DEF IndInv, PostedInv
    <3> QED
      BY <3>1, <3>2
  <2>2. ASSUME NEW u \in Node, NEW j \in ConnectionId, NEW m \in posted[u][j]
        PROVE  \E v \in Node : /\ remote[v][j] = u
                               /\ 1 <= m.nonce /\ m.nonce < message_nonce'[v][j]
                               /\ m.nonce \notin reserved'[v][j]
    <3>1. PICK v \in Node : /\ remote[v][j] = u
                            /\ 1 <= m.nonce /\ m.nonce < message_nonce[v][j]
                            /\ m.nonce \notin reserved[v][j]
      BY DEF IndInv, PostedInv
    <3>2. m.nonce \in Nat
      BY <1>1 DEF TransportMessage, Nonce
    <3>3. m.nonce < message_nonce'[v][j] /\ m.nonce \notin reserved'[v][j]
      <4>1. CASE <<v, j>> = <<t, i>>
        BY <1>1, <1>4, <3>1, <3>2, <4>1
      <4>2. CASE <<v, j>> # <<t, i>>
        BY <1>4, <3>1, <4>2
      <4> QED
        BY <4>1, <4>2
    <3> QED
      BY <3>1, <3>3
  <2> QED
    BY <1>2, <2>1, <2>2 DEF PostedInv
<1> QED
  BY <1>5, <1>6, <1>7, <1>8 DEF IndInv

\* A message goes out under a reserved nonce, which no other message has.
LEMMA SendMessageStep ==
    ASSUME IndInv, NEW t \in Node, NEW i \in ConnectionId, SendMessage(t, i)
    PROVE  IndInv'
<1> USE DEF dialVars, connVars, recvVars
<1>1. /\ message_nonce \in [Node -> [ConnectionId -> 0 .. MaxNonce + 1]]
      /\ reserved \in [Node -> [ConnectionId -> SUBSET (1 .. MaxNonce)]]
      /\ posted \in [Node -> [ConnectionId -> SUBSET TransportMessage]]
      /\ MaxNonce \in Nat /\ MaxNonce + 1 < NonceSpace /\ NonceSpace \in Nat
  BY TransportAssumption, NonceSpaceAssumption DEF IndInv, TypeOK
<1>2. PICK n \in reserved[t][i], p \in Payload :
          /\ reserved' = [reserved EXCEPT ![t][i] = @ \ {n}]
          /\ posted' = [posted EXCEPT ![remote[t][i]][i] = @ \cup {[nonce |-> n, message |-> p]}]
          /\ mixnet' = mixnet \cup {[type |-> "TransportMessage", to |-> remote[t][i], id |-> i,
                                     nonce |-> n, message |-> p]}
  BY DEF SendMessage
<1> DEFINE r == remote[t][i]
           msg == [nonce |-> n, message |-> p]
           env == [type |-> "TransportMessage", to |-> r, id |-> i, nonce |-> n, message |-> p]
<1>3. UNCHANGED <<poll_rx, dialVars, connVars, message_nonce, recvVars, duplicates>>
  BY DEF SendMessage
<1>4. /\ i \in connections[t] /\ r \in Node
      /\ n \in 1 .. MaxNonce /\ n < message_nonce[t][i]
  BY <1>1 DEF IndInv, FreshInv, PostedInv
<1>5. msg \in TransportMessage /\ n \in Nonce
  BY <1>1, <1>4 DEF TransportMessage, Nonce
<1> HIDE DEF r
<1>6. /\ posted' \in [Node -> [ConnectionId -> SUBSET TransportMessage]]
      /\ posted'[r][i] = posted[r][i] \cup {msg}
      /\ \A u \in Node, j \in ConnectionId : <<u, j>> # <<r, i>> => posted'[u][j] = posted[u][j]
      /\ \A u \in Node, j \in ConnectionId : posted[u][j] \subseteq posted'[u][j]
  BY <1>1, <1>2, <1>4, <1>5 DEF r
<1>7. /\ reserved' \in [Node -> [ConnectionId -> SUBSET (1 .. MaxNonce)]]
      /\ reserved'[t][i] = reserved[t][i] \ {n}
      /\ \A u \in Node, j \in ConnectionId : <<u, j>> # <<t, i>> => reserved'[u][j] = reserved[u][j]
      /\ \A u \in Node, j \in ConnectionId : reserved'[u][j] \subseteq reserved[u][j]
  BY <1>1, <1>2
<1>8. ASSUME NEW m \in mixnet' PROVE m \in mixnet \/ m = env
  BY <1>2 DEF r
<1>9. TypeOK'
  <2>1. env \in Transported
    BY <1>4, <1>5 DEF Transported
  <2>2. mixnet' \subseteq Request \cup Response \cup Transported
    BY <1>8, <2>1 DEF IndInv, TypeOK
  <2> QED
    BY <1>3, <1>6, <1>7, <2>2 DEF IndInv, TypeOK
<1>10. DialInv' /\ Agreement' /\ NothingPoppableIsLeft' /\ NoAlarms'
  BY <1>3 DEF IndInv, DialInv, Agreement, NothingPoppableIsLeft, NoAlarms
<1>11. FreshInv'
  BY <1>3, <1>7 DEF IndInv, FreshInv
<1>12. QueueInv'
  BY <1>3, <1>6 DEF IndInv, QueueInv
<1>13. MixnetInv'
  <2>1. ASSUME NEW m \in mixnet
        PROVE  m.type = "TransportMessage" => Inner(m) \in posted'[m.to][m.id]
    BY <1>6, MixnetTypes DEF IndInv, MixnetInv
  <2>2. Inner(env) \in posted'[env.to][env.id]
    BY <1>6 DEF Inner
  <2> QED
    BY <1>3, <1>8, <2>1, <2>2 DEF IndInv, MixnetInv
<1>14. PostedInv'
  <2>1. ASSUME NEW u \in Node, NEW j \in ConnectionId
        PROVE  \A k \in reserved'[u][j] : 1 <= k /\ k < message_nonce[u][j]
    BY <1>7 DEF IndInv, PostedInv
  <2>2. ASSUME NEW u \in Node, NEW j \in ConnectionId, NEW m \in posted'[u][j]
        PROVE  \E v \in Node : /\ remote[v][j] = u
                               /\ 1 <= m.nonce /\ m.nonce < message_nonce[v][j]
                               /\ m.nonce \notin reserved'[v][j]
    <3>1. CASE m \in posted[u][j]
      BY <1>7, <3>1 DEF IndInv, PostedInv
    <3>2. CASE m \notin posted[u][j]
      <4>1. u = r /\ j = i /\ m = msg
        BY <1>6, <3>2
      <4> QED
        BY <1>4, <1>7, <4>1 DEF r
    <3> QED
      BY <3>1, <3>2
  <2> QED
    BY <1>3, <2>1, <2>2 DEF PostedInv
<1>15. InOrder'
  <2>1. ASSUME NEW m \in posted[r][i] PROVE m.nonce # n
    <3>1. PICK v \in Node : remote[v][i] = r /\ m.nonce \notin reserved[v][i]
      BY <1>4 DEF IndInv, PostedInv
    <3>2. v = t
      BY <1>4, <3>1, SingleSender DEF r
    <3> QED
      BY <3>1, <3>2
  <2>2. ASSUME NEW u \in Node, NEW j \in ConnectionId
        PROVE  \A m1, m2 \in posted'[u][j] : m1.nonce = m2.nonce => m1 = m2
    <3>1. CASE <<u, j>> = <<r, i>>
      BY <1>6, <2>1, <3>1 DEF IndInv, InOrder
    <3>2. CASE <<u, j>> # <<r, i>>
      BY <1>6, <3>2 DEF IndInv, InOrder
    <3> QED
      BY <3>1, <3>2
  <2>3. ASSUME NEW u \in Node, NEW j \in ConnectionId, NEW k \in 1 .. Len(inbound[u][j])
        PROVE  [nonce |-> k, message |-> inbound[u][j][k]] \in posted'[u][j]
    BY <1>6 DEF IndInv, InOrder
  <2> QED
    BY <1>3, <2>2, <2>3 DEF InOrder
<1> QED
  BY <1>9, <1>10, <1>11, <1>12, <1>13, <1>14, <1>15 DEF IndInv
-----------------------------------------------------------------------------
(***************************************************************************)
(* Inbound messages.                                                       *)
(***************************************************************************)

\* A queue and what was handed over go back to messages posted to t over i.
Kept(q, sofar, t, i) ==
    /\ q \in Queue /\ sofar \in Seq(Payload)
    /\ q.queue \subseteq posted[t][i]
    /\ q.next_expected_nonce <= MaxNonce + 1
    /\ \A k \in 1 .. Len(sofar) : [nonce |-> k, message |-> sofar[k]] \in posted[t][i]

\* The queue goes on where what was handed over ends.
Exact(q, sofar) ==
    /\ \A m \in q.queue : m.nonce > q.next_expected_nonce
    /\ q.next_expected_nonce = Len(sofar) + 1

\* The nonces of posted messages.
LEMMA PostedNonces ==
    ASSUME IndInv, NEW t \in Node, NEW i \in ConnectionId, NEW m \in posted[t][i]
    PROVE  m \in TransportMessage /\ m.nonce \in 1 .. MaxNonce
<1>1. m \in TransportMessage
  BY DEF IndInv, TypeOK
<1>2. PICK u \in Node : 1 <= m.nonce /\ m.nonce < message_nonce[u][i]
  BY DEF IndInv, PostedInv
<1>3. message_nonce[u][i] \in 0 .. MaxNonce + 1 /\ MaxNonce \in Nat
  BY TransportAssumption DEF IndInv, TypeOK
<1>4. m.nonce \in Nat
  BY <1>1, NonceSpaceAssumption DEF TransportMessage, Nonce
<1> QED
  BY <1>1, <1>2, <1>3, <1>4

\* What every queue and channel of a reachable state satisfy.
LEMMA KeptNow ==
    ASSUME IndInv, NEW t \in Node, NEW i \in ConnectionId
    PROVE  Kept(message_queues[t][i], inbound[t][i], t, i)
BY DEF IndInv, TypeOK, QueueInv, InOrder, Kept

\* The drain loop leaves the queue and the channel exact.
LEMMA DrainExact ==
    ASSUME IndInv, NEW t \in Node, NEW i \in ConnectionId,
           NEW q, NEW sofar, Kept(q, sofar, t, i),
           \A m \in q.queue : m.nonce >= q.next_expected_nonce,
           q.next_expected_nonce = Len(sofar) + 1,
           NEW n \in DrainEnd(q)
    PROVE  /\ Kept(DrainedTo(q, n), DrainOnto(sofar, q, n), t, i)
           /\ Exact(DrainedTo(q, n), DrainOnto(sofar, q, n))
<1> DEFINE d == DrainedTo(q, n)
           s == DrainOnto(sofar, q, n)
           len == Len(sofar)
<1>1. /\ q \in Queue /\ sofar \in Seq(Payload) /\ q.queue \subseteq posted[t][i]
      /\ q.next_expected_nonce <= MaxNonce + 1
      /\ \A k \in 1 .. len : [nonce |-> k, message |-> sofar[k]] \in posted[t][i]
  BY DEF Kept
<1>2. /\ n \in Nonce /\ n >= q.next_expected_nonce
      /\ d \in Queue /\ d.next_expected_nonce = n /\ d.queue \subseteq q.queue
      /\ \A m \in d.queue : m.nonce > n
      /\ s \in Seq(Payload)
      /\ Len(s) = len + (n - q.next_expected_nonce)
      /\ \A k \in 1 .. len : s[k] = sofar[k]
      /\ \A k \in len + 1 .. len + (n - q.next_expected_nonce) :
            [nonce |-> q.next_expected_nonce + (k - len - 1), message |-> s[k]] \in q.queue
  BY <1>1, DrainProperties
<1>3. len \in Nat /\ n \in Nat /\ q.next_expected_nonce = len + 1 /\ MaxNonce \in Nat
  BY <1>1, <1>2, LenProperties, NonceSpaceAssumption, TransportAssumption DEF Nonce
<1> HIDE DEF d, s, len
<1>4. Len(s) = n - 1
  <2>1. Len(s) = len + (n - q.next_expected_nonce)
    BY <1>2
  <2>2. len + (n - q.next_expected_nonce) = n - 1
    BY <1>3
  <2> QED
    BY ONLY <2>1, <2>2
<1>5. ASSUME NEW k \in 1 .. n - 1
      PROVE  [nonce |-> k, message |-> s[k]] \in posted[t][i]
  <2>1. CASE k <= len
    BY <1>1, <1>2, <1>3, <2>1
  <2>2. CASE ~ (k <= len)
    <3>1. k \in len + 1 .. len + (n - q.next_expected_nonce) /\ q.next_expected_nonce + (k - len - 1) = k
      BY <1>3, <2>2
    <3>2. [nonce |-> q.next_expected_nonce + (k - len - 1), message |-> s[k]] \in q.queue
      BY <1>2, <3>1
    <3> QED
      BY <1>1, <3>1, <3>2
  <2> QED
    BY <2>1, <2>2
<1>6. n <= MaxNonce + 1
  <2>1. CASE n = 1
    BY <1>3, <2>1
  <2>2. CASE n # 1
    <3>1. n - 1 \in 1 .. n - 1
      BY <1>2, <1>3, <2>2
    <3>2. [nonce |-> n - 1, message |-> s[n - 1]] \in posted[t][i]
      BY <1>5, <3>1
    <3>3. n - 1 \in 1 .. MaxNonce
      BY <3>2, PostedNonces
    <3> QED
      BY <1>3, <3>3
  <2> QED
    BY <2>1, <2>2
<1>7. Kept(d, s, t, i)
  BY <1>1, <1>2, <1>4, <1>5, <1>6 DEF Kept
<1>8. Exact(d, s)
  BY <1>2, <1>3, <1>4 DEF Exact
<1> QED
  BY <1>7, <1>8 DEF d, s

\* A step that changes one queue and one channel preserves what the invariant says
\* of queues and channels, if it keeps them right.
LEMMA ReceiveInv ==
    ASSUME IndInv, NEW t \in Node, NEW i \in ConnectionId,
           Kept(message_queues'[t][i], inbound'[t][i], t, i),
           conn'[t][i] \in {"ready", "open"} => Exact(message_queues'[t][i], inbound'[t][i]),
           \A u \in Node, j \in ConnectionId : <<u, j>> # <<t, i>> =>
              /\ message_queues'[u][j] = message_queues[u][j]
              /\ inbound'[u][j] = inbound[u][j]
              /\ conn'[u][j] = conn[u][j],
           UNCHANGED posted
    PROVE  QueueInv' /\ NothingPoppableIsLeft' /\ InOrder'
<1>4. ASSUME NEW u \in Node, NEW j \in ConnectionId
      PROVE  /\ Kept(message_queues'[u][j], inbound'[u][j], u, j)
             /\ conn'[u][j] \in {"ready", "open"} => Exact(message_queues'[u][j], inbound'[u][j])
  <2>1. CASE <<u, j>> = <<t, i>>
    BY <2>1
  <2>2. CASE <<u, j>> # <<t, i>>
    <3>1. /\ message_queues'[u][j] = message_queues[u][j] /\ inbound'[u][j] = inbound[u][j]
          /\ conn'[u][j] = conn[u][j]
      BY <2>2
    <3>2. conn[u][j] \in {"ready", "open"} => Exact(message_queues[u][j], inbound[u][j])
      BY DEF IndInv, NothingPoppableIsLeft, Exact
    <3> QED
      BY <3>1, <3>2, KeptNow
  <2> QED
    BY <2>1, <2>2
<1>5. QueueInv'
  BY <1>4 DEF QueueInv, Kept
<1>6. NothingPoppableIsLeft'
  BY <1>4 DEF NothingPoppableIsLeft, Exact
<1>7. InOrder'
  <2>1. \A u \in Node, j \in ConnectionId : \A m1, m2 \in posted[u][j] : m1.nonce = m2.nonce => m1 = m2
    BY DEF IndInv, InOrder
  <2> QED
    BY <1>4, <2>1 DEF InOrder, Kept
<1> QED
  BY <1>5, <1>6, <1>7

\* Taking a message leaves under way only messages that were there, and the answers.
LEMMA TakeProperties ==
    ASSUME TypeOK, NEW t \in Node, NEW m, NEW answers, Take(t, m, answers)
    PROVE  /\ mixnet' \subseteq mixnet \cup answers
           /\ duplicates' \in 0 .. MaxDuplicates
BY TransportAssumption DEF Take, TypeOK

\* What a connection message does when it sets up connection i of t to r, whose
\* Connection is then in state c.
Created(t, i, r, c) ==
    /\ i \notin connections[t]
    /\ CreateConnection(t, i, r) /\ InitiateQueue(t, i)
    /\ conn' = [conn EXCEPT ![t][i] = c] /\ c \in ConnState \ {"none"}
    /\ \/ recipient[t][i] = r /\ i \in connections[r] /\ remote[r][i] = t
       \/ recipient[r][i] = t /\ dial[r][i] # "created"
    /\ dial' \in [Node -> [ConnectionId -> DialState]]
    /\ \A u \in Node, j \in ConnectionId :
          /\ dial'[u][j] = "none" <=> dial[u][j] = "none"
          /\ dial'[u][j] = "created" => dial[u][j] = "created"
          /\ dial'[u][j] = "answered" => conn'[u][j] = "ready"
    /\ pending_dials' \in [Node -> SUBSET ConnectionId]
    /\ \A u \in Node : pending_dials[u] \subseteq pending_dials'[u] \cup connections'[u]
    /\ \A m \in mixnet' : \/ m \in mixnet
                          \/ /\ m = [type |-> "ConnectionResponse", to |-> r, id |-> i]
                             /\ recipient[r][i] = t
    /\ duplicates' \in 0 .. MaxDuplicates
    /\ UNCHANGED <<poll_rx, recipient, reserved, posted>>

\* A connection message sets up a connection that did not exist.
LEMMA CreateStep ==
    ASSUME IndInv, NEW t \in Node, NEW i \in ConnectionId, NEW r \in Node, NEW c,
           Created(t, i, r, c)
    PROVE  IndInv'
<1> USE DEF Created
<1>1. /\ connections \in [Node -> SUBSET ConnectionId]
      /\ remote \in [Node -> [ConnectionId -> Node \cup {NoNode}]]
      /\ message_nonce \in [Node -> [ConnectionId -> 0 .. MaxNonce + 1]]
      /\ conn \in [Node -> [ConnectionId -> ConnState]]
      /\ MaxNonce \in Nat /\ NoNode \notin Node
  BY TransportAssumption DEF IndInv, TypeOK
<1>2. /\ connections' \in [Node -> SUBSET ConnectionId]
      /\ remote' \in [Node -> [ConnectionId -> Node \cup {NoNode}]]
      /\ message_nonce' \in [Node -> [ConnectionId -> 0 .. MaxNonce + 1]]
      /\ conn' \in [Node -> [ConnectionId -> ConnState]]
      /\ i \in connections'[t] /\ remote'[t][i] = r /\ message_nonce'[t][i] = 1 /\ conn'[t][i] = c
  BY <1>1 DEF CreateConnection
<1>3. \A u \in Node, j \in ConnectionId : <<u, j>> # <<t, i>> =>
         /\ j \in connections'[u] <=> j \in connections[u]
         /\ remote'[u][j] = remote[u][j]
         /\ message_nonce'[u][j] = message_nonce[u][j]
         /\ conn'[u][j] = conn[u][j]
  BY <1>1 DEF CreateConnection
<1>4. /\ conn[t][i] = "none" /\ remote[t][i] = NoNode /\ message_nonce[t][i] = 0
      /\ reserved[t][i] = {} /\ inbound[t][i] = <<>>
      /\ message_queues[t][i].next_expected_nonce = 0
  BY DEF IndInv, FreshInv
<1> DEFINE q == SetConnectionMessageReceived(message_queues[t][i])
<1>5. /\ Kept(q, inbound[t][i], t, i)
      /\ \A m \in q.queue : m.nonce >= q.next_expected_nonce
      /\ q.next_expected_nonce = Len(inbound[t][i]) + 1
  <2>1. message_queues[t][i] \in Queue /\ message_queues[t][i].queue \subseteq posted[t][i]
    BY DEF IndInv, TypeOK, QueueInv
  <2>2. q \in Queue /\ q.next_expected_nonce = 1 /\ q.queue = message_queues[t][i].queue
    <3>1. /\ q \in Queue
          /\ q.next_expected_nonce = WrappingAdd1(message_queues[t][i].next_expected_nonce)
          /\ q.queue = message_queues[t][i].queue
      BY <2>1, SetConnectionMessageReceivedProperties
    <3>2. WrappingAdd1(0) = 1
      BY NonceSpaceAssumption DEF WrappingAdd1
    <3> QED
      BY <1>4, <3>1, <3>2
  <2>3. \A m \in q.queue : m.nonce >= 1
    BY <2>1, <2>2, PostedNonces
  <2> HIDE DEF q
  <2>4. Len(inbound[t][i]) = 0 /\ inbound[t][i] \in Seq(Payload)
    BY <1>4, EmptySeq
  <2> QED
    BY <1>1, <2>1, <2>2, <2>3, <2>4 DEF Kept
<1>6. PICK n \in DrainEnd(q) :
         /\ message_queues' = [message_queues EXCEPT ![t][i] = DrainedTo(q, n)]
         /\ inbound' = [inbound EXCEPT ![t][i] = DrainOnto(inbound[t][i], q, n)]
  BY <1>1 DEF InitiateQueue, IndInv, TypeOK
<1>7. alarms' = alarms
  BY <1>4 DEF InitiateQueue, AwaitsConnectionMessage
<1> HIDE DEF q
<1>8. /\ Kept(DrainedTo(q, n), DrainOnto(inbound[t][i], q, n), t, i)
      /\ Exact(DrainedTo(q, n), DrainOnto(inbound[t][i], q, n))
  BY <1>5, DrainExact
<1>9. /\ message_queues' \in [Node -> [ConnectionId -> Queue]]
      /\ inbound' \in [Node -> [ConnectionId -> Seq(Payload)]]
      /\ \A u \in Node, j \in ConnectionId : <<u, j>> # <<t, i>> =>
            message_queues'[u][j] = message_queues[u][j] /\ inbound'[u][j] = inbound[u][j]
      /\ QueueInv' /\ NothingPoppableIsLeft' /\ InOrder'
  <2> DEFINE d == DrainedTo(q, n)
             s == DrainOnto(inbound[t][i], q, n)
  <2>1. /\ message_queues \in [Node -> [ConnectionId -> Queue]]
        /\ inbound \in [Node -> [ConnectionId -> Seq(Payload)]]
        /\ d \in Queue /\ s \in Seq(Payload)
    BY <1>8 DEF IndInv, TypeOK, Kept
  <2>2. /\ Kept(d, s, t, i) /\ Exact(d, s)
        /\ message_queues' = [message_queues EXCEPT ![t][i] = d]
        /\ inbound' = [inbound EXCEPT ![t][i] = s]
    BY <1>6, <1>8
  <2> HIDE DEF d, s
  <2>3. /\ message_queues' \in [Node -> [ConnectionId -> Queue]]
        /\ inbound' \in [Node -> [ConnectionId -> Seq(Payload)]]
        /\ message_queues'[t][i] = d /\ inbound'[t][i] = s
        /\ \A u \in Node, j \in ConnectionId : <<u, j>> # <<t, i>> =>
              message_queues'[u][j] = message_queues[u][j] /\ inbound'[u][j] = inbound[u][j]
    BY <2>1, <2>2
  <2>4. Kept(message_queues'[t][i], inbound'[t][i], t, i) /\ Exact(message_queues'[t][i], inbound'[t][i])
    BY <2>2, <2>3
  <2>5. QueueInv' /\ NothingPoppableIsLeft' /\ InOrder'
    <3>1. \A u \in Node, j \in ConnectionId : <<u, j>> # <<t, i>> =>
             /\ message_queues'[u][j] = message_queues[u][j]
             /\ inbound'[u][j] = inbound[u][j]
             /\ conn'[u][j] = conn[u][j]
      BY <1>3, <2>3
    <3>2. UNCHANGED posted
      OBVIOUS
    <3> QED
      BY ONLY IndInv, t \in Node, i \in ConnectionId, <2>4, <3>1, <3>2, ReceiveInv
  <2> QED
    BY <2>3, <2>5
<1>10. TypeOK'
  <2>1. mixnet' \subseteq Request \cup Response \cup Transported
    BY DEF IndInv, TypeOK, Response
  <2> QED
    BY <1>2, <1>7, <1>9, <2>1 DEF IndInv, TypeOK
<1>11. \A u \in Node : connections[u] \subseteq connections'[u]
  BY <1>1 DEF CreateConnection
<1>12. DialInv'
  <2>1. ASSUME NEW u \in Node, NEW j \in ConnectionId
        PROVE  /\ recipient[u][j] \in Node <=> dial'[u][j] # "none"
               /\ \A v \in Node : dial'[u][j] # "none" /\ dial'[v][j] # "none" => u = v
               /\ dial'[u][j] # "none" => j \in pending_dials'[u] \cup connections'[u]
               /\ dial'[u][j] = "answered" => conn'[u][j] = "ready"
    <3>1. /\ recipient[u][j] \in Node <=> dial[u][j] # "none"
          /\ \A v \in Node : dial[u][j] # "none" /\ dial[v][j] # "none" => u = v
          /\ dial[u][j] # "none" => j \in pending_dials[u] \cup connections[u]
      BY DEF IndInv, DialInv
    <3>2. \A v \in Node : dial'[v][j] # "none" => dial[v][j] # "none"
      OBVIOUS
    <3>3. dial'[u][j] = "answered" => conn'[u][j] = "ready"
      OBVIOUS
    <3>4. j \in pending_dials[u] \cup connections[u] => j \in pending_dials'[u] \cup connections'[u]
      BY <1>11
    <3>5. recipient[u][j] \in Node <=> dial'[u][j] # "none"
      BY <3>1
    <3> QED
      BY <3>1, <3>2, <3>3, <3>4, <3>5
  <2> QED
    BY <2>1 DEF DialInv
<1>13. FreshInv'
  <2> SUFFICES ASSUME NEW u \in Node, NEW j \in ConnectionId
               PROVE  IF j \in connections'[u]
                        THEN /\ conn'[u][j] # "none" /\ remote'[u][j] \in Node
                             /\ message_nonce'[u][j] >= 1
                        ELSE /\ conn'[u][j] = "none" /\ remote'[u][j] = NoNode
                             /\ message_nonce'[u][j] = 0 /\ reserved[u][j] = {}
                             /\ inbound'[u][j] = <<>>
                             /\ message_queues'[u][j].next_expected_nonce = 0
    BY DEF FreshInv
  <2>1. CASE <<u, j>> = <<t, i>>
    BY <1>2, <2>1
  <2>2. CASE <<u, j>> # <<t, i>>
    <3>1. /\ j \in connections'[u] <=> j \in connections[u]
          /\ remote'[u][j] = remote[u][j]
          /\ message_nonce'[u][j] = message_nonce[u][j]
          /\ conn'[u][j] = conn[u][j]
          /\ message_queues'[u][j] = message_queues[u][j] /\ inbound'[u][j] = inbound[u][j]
      BY <1>3, <1>9, <2>2
    <3> QED
      BY <3>1 DEF IndInv, FreshInv
  <2> QED
    BY <2>1, <2>2
<1>14. ASSUME NEW u \in Node, NEW j \in ConnectionId, j \in connections[u]
       PROVE  j \in connections'[u] /\ remote'[u][j] = remote[u][j]
  <2>1. <<u, j>> # <<t, i>>
    BY <1>14
  <2> QED
    BY <1>3, <1>14, <2>1
<1>15. Agreement'
  <2> SUFFICES ASSUME NEW u \in Node, NEW j \in connections'[u]
               PROVE  \/ /\ recipient[u][j] = remote'[u][j] /\ j \in connections'[remote'[u][j]]
                         /\ remote'[remote'[u][j]][j] = u
                      \/ recipient[remote'[u][j]][j] = u /\ dial'[remote'[u][j]][j] # "created"
    BY DEF Agreement
  <2>1. j \in ConnectionId
    BY <1>2
  <2>2. CASE <<u, j>> = <<t, i>>
    BY <1>2, <1>14, <2>1, <2>2
  <2>3. CASE <<u, j>> # <<t, i>>
    <3>1. j \in connections[u] /\ remote'[u][j] = remote[u][j]
      BY <1>3, <2>1, <2>3
    <3>2. remote[u][j] \in Node
      BY <3>1, RemoteTypes DEF IndInv
    <3>3. \/ /\ recipient[u][j] = remote[u][j] /\ j \in connections[remote[u][j]]
             /\ remote[remote[u][j]][j] = u
          \/ recipient[remote[u][j]][j] = u /\ dial[remote[u][j]][j] # "created"
      BY <3>1 DEF IndInv, Agreement
    <3> QED
      BY <1>14, <2>1, <3>1, <3>2, <3>3
  <2> QED
    BY <2>2, <2>3
<1>16. MixnetInv'
  <2> SUFFICES ASSUME NEW m \in mixnet'
               PROVE  /\ m.type = "ConnectionRequest" =>
                            /\ recipient[m.recipient][m.id] = m.to
                            /\ dial'[m.recipient][m.id] # "created"
                      /\ m.type = "ConnectionResponse" =>
                            /\ recipient[m.to][m.id] \in Node
                            /\ m.id \in connections'[recipient[m.to][m.id]]
                            /\ remote'[recipient[m.to][m.id]][m.id] = m.to
                      /\ m.type = "TransportMessage" => Inner(m) \in posted[m.to][m.id]
    BY DEF MixnetInv
  <2>1. CASE m \in mixnet
    <3>1. /\ m.to \in Node /\ m.id \in ConnectionId
          /\ m.type = "ConnectionRequest" => m.recipient \in Node
      BY <2>1, MixnetTypes DEF IndInv
    <3>2. /\ m.type = "ConnectionRequest" =>
                /\ recipient[m.recipient][m.id] = m.to
                /\ dial[m.recipient][m.id] # "created"
          /\ m.type = "ConnectionResponse" =>
                /\ recipient[m.to][m.id] \in Node
                /\ m.id \in connections[recipient[m.to][m.id]]
                /\ remote[recipient[m.to][m.id]][m.id] = m.to
          /\ m.type = "TransportMessage" => Inner(m) \in posted[m.to][m.id]
      BY <2>1 DEF IndInv, MixnetInv
    <3>3. m.type = "ConnectionResponse" =>
             /\ m.id \in connections'[recipient[m.to][m.id]]
             /\ remote'[recipient[m.to][m.id]][m.id] = m.to
      BY <1>14, <3>1, <3>2
    <3>4. \A u \in Node, j \in ConnectionId : dial[u][j] # "created" => dial'[u][j] # "created"
      OBVIOUS
    <3> QED
      BY <3>1, <3>2, <3>3, <3>4
  <2>2. CASE m \notin mixnet
    BY <1>2, <2>2
  <2> QED
    BY <2>1, <2>2
<1>17. PostedInv'
  <2>1. ASSUME NEW u \in Node, NEW j \in ConnectionId
        PROVE  \A k \in reserved[u][j] : 1 <= k /\ k < message_nonce'[u][j]
    <3>1. CASE <<u, j>> = <<t, i>>
      BY <1>4, <3>1
    <3>2. CASE <<u, j>> # <<t, i>>
      <4>1. message_nonce'[u][j] = message_nonce[u][j]
        BY <1>3, <3>2
      <4> QED
        BY <4>1 DEF IndInv, PostedInv
    <3> QED
      BY <3>1, <3>2
  <2>2. ASSUME NEW u \in Node, NEW j \in ConnectionId, NEW m \in posted[u][j]
        PROVE  \E v \in Node : /\ remote'[v][j] = u
                               /\ 1 <= m.nonce /\ m.nonce < message_nonce'[v][j]
                               /\ m.nonce \notin reserved[v][j]
    <3>1. PICK v \in Node : /\ remote[v][j] = u
                            /\ 1 <= m.nonce /\ m.nonce < message_nonce[v][j]
                            /\ m.nonce \notin reserved[v][j]
      BY DEF IndInv, PostedInv
    <3>2. <<v, j>> # <<t, i>>
      BY <1>1, <1>4, <3>1
    <3>3. remote'[v][j] = remote[v][j] /\ message_nonce'[v][j] = message_nonce[v][j]
      BY <1>3, <3>2
    <3> QED
      BY <3>1, <3>3
  <2> QED
    BY <2>1, <2>2 DEF PostedInv
<1>18. NoAlarms'
  BY <1>7 DEF IndInv, NoAlarms
<1> QED
  BY <1>9, <1>10, <1>12, <1>13, <1>15, <1>16, <1>17, <1>18 DEF IndInv

\* A refused message only leaves the mixnet.
LEMMA RefusedStep ==
    ASSUME IndInv, NEW t \in Node, NEW m \in mixnet, Take(t, m, {}),
           UNCHANGED <<poll_rx, dialVars, connVars, sendVars, recvVars>>
    PROVE  IndInv'
<1> USE DEF dialVars, connVars, sendVars, recvVars
<1>1. mixnet' \subseteq mixnet /\ duplicates' \in 0 .. MaxDuplicates
  BY TakeProperties DEF IndInv
<1>2. TypeOK' /\ MixnetInv'
  BY <1>1 DEF IndInv, TypeOK, MixnetInv
<1>3. /\ DialInv' /\ FreshInv' /\ Agreement' /\ PostedInv' /\ QueueInv' /\ NothingPoppableIsLeft'
      /\ InOrder' /\ NoAlarms'
  BY DEF IndInv, DialInv, FreshInv, Agreement, PostedInv, QueueInv, NothingPoppableIsLeft, InOrder,
     NoAlarms
<1> QED
  BY <1>2, <1>3 DEF IndInv

\* handle_connection_request.
LEMMA RequestStep ==
    ASSUME IndInv, NEW t \in Node, NEW m \in mixnet, m.to = t, m.type = "ConnectionRequest",
           HandleConnectionRequest(t, m)
    PROVE  IndInv'
<1>1. m.id \in ConnectionId /\ m.recipient \in Node
  BY MixnetTypes DEF IndInv
<1>2. CASE m.id \in connections[t]
  BY <1>2, RefusedStep DEF HandleConnectionRequest
<1>3. CASE m.id \notin connections[t]
  <2> DEFINE i == m.id
             r == m.recipient
             resp == [type |-> "ConnectionResponse", to |-> r, id |-> i]
  <2>1. /\ CreateConnection(t, i, r)
        /\ InitiateQueue(t, i)
        /\ conn' = [conn EXCEPT ![t][i] = "ready"]
        /\ Take(t, m, {resp})
        /\ UNCHANGED <<poll_rx, dialVars, reserved, posted>>
    BY <1>3 DEF HandleConnectionRequest
  <2>2. recipient[r][i] = t /\ dial[r][i] # "created"
    BY DEF IndInv, MixnetInv
  <2>3. mixnet' \subseteq mixnet \cup {resp} /\ duplicates' \in 0 .. MaxDuplicates
    BY <2>1, TakeProperties DEF IndInv
  <2>4. UNCHANGED <<poll_rx, pending_dials, dial, recipient, reserved, posted>>
    BY <2>1 DEF dialVars
  <2>5. /\ dial' \in [Node -> [ConnectionId -> DialState]]
        /\ pending_dials' \in [Node -> SUBSET ConnectionId]
        /\ conn \in [Node -> [ConnectionId -> ConnState]]
    BY <2>4 DEF IndInv, TypeOK
  <2>6. \A u \in Node, j \in ConnectionId :
           /\ dial'[u][j] = "none" <=> dial[u][j] = "none"
           /\ dial'[u][j] = "created" => dial[u][j] = "created"
           /\ dial'[u][j] = "answered" => conn'[u][j] = "ready"
    BY <1>1, <2>1, <2>4, <2>5 DEF IndInv, DialInv
  <2>7. \A u \in Node : pending_dials[u] \subseteq pending_dials'[u] \cup connections'[u]
    BY <2>4
  <2>8. \A x \in mixnet' : x \in mixnet \/ (x = resp /\ recipient[r][i] = t)
    BY <2>2, <2>3
  <2>9. "ready" \in ConnState \ {"none"} /\ UNCHANGED <<poll_rx, recipient, reserved, posted>>
    BY <2>4 DEF ConnState
  <2> HIDE DEF i, r
  <2>10. i \in ConnectionId /\ r \in Node /\ i \notin connections[t]
    BY <1>1, <1>3 DEF i, r
  <2>11. Created(t, i, r, "ready")
    BY <2>1, <2>2, <2>3, <2>5, <2>6, <2>7, <2>8, <2>9, <2>10 DEF Created
  <2> QED
    BY ONLY IndInv, t \in Node, <2>10, <2>11, CreateStep
<1> QED
  BY <1>2, <1>3

\* handle_connection_response.
LEMMA ResponseStep ==
    ASSUME IndInv, NEW t \in Node, NEW m \in mixnet, m.to = t, m.type = "ConnectionResponse",
           HandleConnectionResponse(t, m)
    PROVE  IndInv'
<1>1. m.id \in ConnectionId
  BY MixnetTypes DEF IndInv
<1>2. CASE m.id \in connections[t]
  BY <1>2, RefusedStep DEF HandleConnectionResponse
<1>3. CASE m.id \notin connections[t]
  <2> DEFINE i == m.id
             r == recipient[t][i]
             c == IF dial[t][i] = "waiting" THEN "ready" ELSE "lost"
  <2>1. /\ r \in Node /\ i \in connections[r] /\ remote[r][i] = t
        /\ i \in pending_dials[t]
    BY <1>1, <1>3 DEF IndInv, MixnetInv, DialInv
  <2>2. /\ pending_dials' = [pending_dials EXCEPT ![t] = @ \ {i}]
        /\ CreateConnection(t, i, r)
        /\ InitiateQueue(t, i)
        /\ dial' = [dial EXCEPT ![t][i] = IF @ = "waiting" THEN "answered" ELSE @]
        /\ conn' = [conn EXCEPT ![t][i] = c]
        /\ Take(t, m, {})
        /\ UNCHANGED <<poll_rx, recipient, reserved, posted>>
    BY <1>3, <2>1 DEF HandleConnectionResponse
  <2>3. mixnet' \subseteq mixnet /\ duplicates' \in 0 .. MaxDuplicates
    BY <2>2, TakeProperties DEF IndInv
  <2>4. /\ dial \in [Node -> [ConnectionId -> DialState]]
        /\ pending_dials \in [Node -> SUBSET ConnectionId]
        /\ connections \in [Node -> SUBSET ConnectionId]
        /\ conn \in [Node -> [ConnectionId -> ConnState]]
    BY DEF IndInv, TypeOK
  <2>5. /\ dial' \in [Node -> [ConnectionId -> DialState]]
        /\ pending_dials' \in [Node -> SUBSET ConnectionId]
    BY <1>1, <2>2, <2>4 DEF DialState
  <2>6. dial[t][i] # "answered"
    BY <1>1, <1>3 DEF IndInv, DialInv, FreshInv
  <2>7. \A u \in Node, j \in ConnectionId : dial[u][j] = "answered" => conn[u][j] = "ready"
    BY DEF IndInv, DialInv
  <2>8. \A u \in Node, j \in ConnectionId :
           /\ dial'[u][j] = "none" <=> dial[u][j] = "none"
           /\ dial'[u][j] = "created" => dial[u][j] = "created"
           /\ dial'[u][j] = "answered" => conn'[u][j] = "ready"
    BY <1>1, <2>2, <2>4, <2>6, <2>7
  <2>9. \A u \in Node : pending_dials[u] \subseteq pending_dials'[u] \cup connections'[u]
    BY <1>1, <2>2, <2>4 DEF CreateConnection
  <2>10. c \in ConnState \ {"none"}
    BY DEF ConnState
  <2>11. \A x \in mixnet' : \/ x \in mixnet
                            \/ /\ x = [type |-> "ConnectionResponse", to |-> r, id |-> i]
                               /\ recipient[r][i] = t
    BY <2>3
  <2> HIDE DEF c, i
  <2>12. i \in ConnectionId /\ i \notin connections[t]
    BY <1>1, <1>3 DEF i
  <2>13. /\ recipient[t][i] = r
         /\ CreateConnection(t, i, r) /\ InitiateQueue(t, i) /\ conn' = [conn EXCEPT ![t][i] = c]
         /\ UNCHANGED <<poll_rx, recipient, reserved, posted>>
    BY <2>2
  <2>14. \/ recipient[t][i] = r /\ i \in connections[r] /\ remote[r][i] = t
         \/ recipient[r][i] = t /\ dial[r][i] # "created"
    BY <2>1
  <2>15. r \in Node /\ duplicates' \in 0 .. MaxDuplicates
    BY <2>1, <2>3
  <2> HIDE DEF r
  <2>16. Created(t, i, r, c)
    BY <2>5, <2>8, <2>9, <2>10, <2>11, <2>12, <2>13, <2>14, <2>15 DEF Created
  <2> QED
    BY ONLY IndInv, t \in Node, <2>12, <2>15, <2>16, CreateStep
<1> QED
  BY <1>2, <1>3

\* handle_transport_message.
LEMMA TransportMessageStep ==
    ASSUME IndInv, NEW t \in Node, NEW m \in mixnet, m.to = t, m.type = "TransportMessage",
           HandleTransportMessage(t, m)
    PROVE  IndInv'
<1> DEFINE i == m.id
           msg == Inner(m)
           q == message_queues[t][i]
           q1 == TryPush(q, msg)
           sofar == inbound[t][i]
<1>1. /\ i \in ConnectionId
      /\ msg \in TransportMessage /\ msg \in posted[t][i] /\ msg.nonce \in 1 .. MaxNonce
      /\ msg = [nonce |-> msg.nonce, message |-> m.message] /\ m.message \in Payload
  <2>1. i \in ConnectionId /\ msg \in posted[t][i]
    BY MixnetTypes DEF IndInv, MixnetInv
  <2>2. msg \in TransportMessage /\ msg.nonce \in 1 .. MaxNonce
    BY <2>1, PostedNonces
  <2>3. msg = [nonce |-> msg.nonce, message |-> m.message] /\ msg.message = m.message
    BY DEF Inner
  <2> QED
    BY <2>1, <2>2, <2>3 DEF TransportMessage
<1>2. /\ Take(t, m, {})
      /\ UNCHANGED <<poll_rx, pending_dials, dial, recipient, connections, conn, remote,
                     message_nonce, reserved, posted>>
  BY DEF HandleTransportMessage, dialVars, connVars, sendVars
<1>3. mixnet' \subseteq mixnet /\ duplicates' \in 0 .. MaxDuplicates
  BY <1>2, TakeProperties DEF IndInv
<1>4. /\ Kept(q, sofar, t, i)
      /\ q \in Queue /\ sofar \in Seq(Payload)
      /\ ChannelAlive(t, i) => Exact(q, sofar)
      /\ q.next_expected_nonce \in Nat
      /\ MaxNonce \in Nat /\ NonceSpace \in Nat /\ MaxNonce + 1 < NonceSpace
  <2>1. Kept(q, sofar, t, i)
    BY <1>1, KeptNow
  <2>2. ChannelAlive(t, i) => Exact(q, sofar)
    BY <1>1 DEF IndInv, NothingPoppableIsLeft, Exact
  <2>3. q.next_expected_nonce \in Nat
    BY <2>1, NonceSpaceAssumption DEF Kept, Queue, Nonce
  <2> QED
    BY <2>1, <2>2, <2>3, NonceSpaceAssumption, TransportAssumption DEF Kept
<1>5. i \notin connections[t] => q.next_expected_nonce = 0 /\ ~ ChannelAlive(t, i)
  BY <1>1 DEF IndInv, FreshInv
<1>6. /\ q1 \in Queue
      /\ TryPushReturns(q, msg) =>
            /\ q1.next_expected_nonce = WrappingAdd1(q.next_expected_nonce)
            /\ q1.queue = q.queue
            /\ q.next_expected_nonce = msg.nonce
      /\ ~ TryPushReturns(q, msg) =>
            /\ q1.next_expected_nonce = q.next_expected_nonce
            /\ \/ q1.queue = q.queue
               \/ q1.queue = q.queue \cup {msg} /\ msg.nonce > q.next_expected_nonce
  <2>1. TryPushReturns(q, msg) => q.next_expected_nonce = msg.nonce
    BY DEF TryPushReturns
  <2> QED
    BY <1>1, <1>4, <2>1, TryPushProperties
<1>7. TryPushReturns(q, msg) => q1.next_expected_nonce = msg.nonce + 1 /\ i \in connections[t]
  BY <1>1, <1>4, <1>5, <1>6 DEF WrappingAdd1
<1>8. sofar = <<>> \/ i \in connections[t]
  BY <1>1 DEF IndInv, FreshInv
<1> HIDE DEF i, msg, q, q1, sofar
<1>9. ASSUME NEW d, NEW s, Kept(d, s, t, i), ChannelAlive(t, i) => Exact(d, s),
             i \notin connections[t] => s = <<>> /\ d.next_expected_nonce = 0,
             message_queues' = [message_queues EXCEPT ![t][i] = d],
             inbound' = [inbound EXCEPT ![t][i] = s],
             alarms' = alarms
      PROVE  IndInv'
  <2>1. /\ message_queues \in [Node -> [ConnectionId -> Queue]]
        /\ inbound \in [Node -> [ConnectionId -> Seq(Payload)]]
        /\ d \in Queue /\ s \in Seq(Payload)
    BY <1>9 DEF IndInv, TypeOK, Kept
  <2>2. /\ message_queues' \in [Node -> [ConnectionId -> Queue]]
        /\ inbound' \in [Node -> [ConnectionId -> Seq(Payload)]]
        /\ message_queues'[t][i] = d /\ inbound'[t][i] = s
        /\ \A u \in Node, j \in ConnectionId : <<u, j>> # <<t, i>> =>
              message_queues'[u][j] = message_queues[u][j] /\ inbound'[u][j] = inbound[u][j]
    BY <1>1, <1>9, <2>1
  <2>3. QueueInv' /\ NothingPoppableIsLeft' /\ InOrder'
    <3>1. Kept(message_queues'[t][i], inbound'[t][i], t, i)
      BY <1>9, <2>2
    <3>2. conn'[t][i] \in {"ready", "open"} => Exact(message_queues'[t][i], inbound'[t][i])
      BY <1>2, <1>9, <2>2 DEF ChannelAlive
    <3>3. \A u \in Node, j \in ConnectionId : <<u, j>> # <<t, i>> =>
             /\ message_queues'[u][j] = message_queues[u][j]
             /\ inbound'[u][j] = inbound[u][j]
             /\ conn'[u][j] = conn[u][j]
      BY <1>2, <2>2
    <3>4. i \in ConnectionId /\ UNCHANGED posted
      BY <1>1, <1>2
    <3> QED
      BY ONLY IndInv, t \in Node, <3>1, <3>2, <3>3, <3>4, ReceiveInv
  <2>4. TypeOK'
    BY <1>2, <1>3, <1>9, <2>2 DEF IndInv, TypeOK
  <2>5. FreshInv'
    <3> SUFFICES ASSUME NEW u \in Node, NEW j \in ConnectionId
                 PROVE  IF j \in connections[u]
                          THEN /\ conn[u][j] # "none" /\ remote[u][j] \in Node
                               /\ message_nonce[u][j] >= 1
                          ELSE /\ conn[u][j] = "none" /\ remote[u][j] = NoNode
                               /\ message_nonce[u][j] = 0 /\ reserved[u][j] = {}
                               /\ inbound'[u][j] = <<>>
                               /\ message_queues'[u][j].next_expected_nonce = 0
      BY <1>2 DEF FreshInv
    <3>1. CASE <<u, j>> = <<t, i>>
      BY <1>9, <2>2, <3>1 DEF IndInv, FreshInv
    <3>2. CASE <<u, j>> # <<t, i>>
      <4>1. message_queues'[u][j] = message_queues[u][j] /\ inbound'[u][j] = inbound[u][j]
        BY <2>2, <3>2
      <4> QED
        BY <4>1 DEF IndInv, FreshInv
    <3> QED
      BY <3>1, <3>2
  <2>6. DialInv' /\ Agreement' /\ PostedInv'
    BY <1>2 DEF IndInv, DialInv, Agreement, PostedInv
  <2>7. MixnetInv' /\ NoAlarms'
    BY <1>2, <1>3, <1>9 DEF IndInv, MixnetInv, NoAlarms
  <2> QED
    BY <2>3, <2>4, <2>5, <2>6, <2>7 DEF IndInv
<1>10. CASE ~ TryPushReturns(q, msg)
  <2>1. /\ message_queues' = [message_queues EXCEPT ![t][i] = q1]
        /\ inbound' = inbound /\ alarms' = alarms
    BY <1>10 DEF HandleTransportMessage, i, q, q1, msg
  <2>2. inbound' = [inbound EXCEPT ![t][i] = sofar]
    BY <1>1, <2>1 DEF IndInv, TypeOK, sofar
  <2>3. Kept(q1, sofar, t, i)
    BY <1>1, <1>4, <1>6, <1>10 DEF Kept
  <2>4. ChannelAlive(t, i) => Exact(q1, sofar)
    BY <1>4, <1>6, <1>10 DEF Exact
  <2>5. i \notin connections[t] => sofar = <<>> /\ q1.next_expected_nonce = 0
    BY <1>5, <1>6, <1>8, <1>10
  <2> QED
    BY <1>9, <2>1, <2>2, <2>3, <2>4, <2>5
<1>11. CASE TryPushReturns(q, msg) /\ ChannelAlive(t, i)
  <2> DEFINE s1 == Append(sofar, m.message)
  <2>1. PICK n \in DrainEnd(q1) :
           /\ message_queues' = [message_queues EXCEPT ![t][i] = DrainedTo(q1, n)]
           /\ inbound' = [inbound EXCEPT ![t][i] = DrainOnto(Append(@, m.message), q1, n)]
           /\ alarms' = alarms
    BY <1>11 DEF HandleTransportMessage, i, q, q1, msg
  <2>2. inbound' = [inbound EXCEPT ![t][i] = DrainOnto(s1, q1, n)]
    BY <1>1, <2>1 DEF IndInv, TypeOK, sofar
  <2>3. /\ \A x \in q.queue : x.nonce > msg.nonce
        /\ msg.nonce = Len(sofar) + 1 /\ q.queue \subseteq posted[t][i]
        /\ \A k \in 1 .. Len(sofar) : [nonce |-> k, message |-> sofar[k]] \in posted[t][i]
    BY <1>4, <1>6, <1>11 DEF Exact, Kept
  <2>4. /\ s1 \in Seq(Payload) /\ Len(s1) = Len(sofar) + 1
        /\ \A k \in 1 .. Len(sofar) : s1[k] = sofar[k]
        /\ s1[Len(sofar) + 1] = m.message
        /\ Len(sofar) \in Nat
    BY <1>1, <1>4, AppendProperties, LenProperties
  <2> HIDE DEF s1
  <2>5. q1.next_expected_nonce = msg.nonce + 1 /\ q1.queue = q.queue /\ q1 \in Queue
    BY <1>6, <1>7, <1>11
  <2>6. Kept(q1, s1, t, i)
    <3>1. ASSUME NEW k \in 1 .. Len(s1) PROVE [nonce |-> k, message |-> s1[k]] \in posted[t][i]
      <4>1. CASE k = Len(sofar) + 1
        BY <1>1, <2>3, <2>4, <4>1
      <4>2. CASE k # Len(sofar) + 1
        BY <2>3, <2>4, <4>2
      <4> QED
        BY <4>1, <4>2
    <3>2. q1.next_expected_nonce <= MaxNonce + 1
      BY <1>1, <1>4, <2>5
    <3> QED
      BY <2>3, <2>4, <2>5, <3>1, <3>2 DEF Kept
  <2>7. \A x \in q1.queue : x.nonce >= q1.next_expected_nonce
    <3> SUFFICES ASSUME NEW x \in q.queue PROVE x.nonce >= msg.nonce + 1
      BY <2>5
    <3>1. x.nonce \in Nat /\ msg.nonce \in Nat /\ x.nonce > msg.nonce
      BY <1>1, <2>3, PostedNonces
    <3> QED
      BY <3>1
  <2>8. q1.next_expected_nonce = Len(s1) + 1
    BY <2>3, <2>4, <2>5
  <2>9. Kept(DrainedTo(q1, n), DrainOnto(s1, q1, n), t, i) /\ Exact(DrainedTo(q1, n), DrainOnto(s1, q1, n))
    BY <1>1, <2>6, <2>7, <2>8, DrainExact
  <2> QED
    BY <1>7, <1>9, <1>11, <2>1, <2>2, <2>9
<1>12. CASE TryPushReturns(q, msg) /\ ~ ChannelAlive(t, i)
  <2>1. /\ message_queues' = [message_queues EXCEPT ![t][i] = q1]
        /\ inbound' = inbound /\ alarms' = alarms
    BY <1>7, <1>12 DEF HandleTransportMessage, i, q, q1, msg
  <2>2. inbound' = [inbound EXCEPT ![t][i] = sofar]
    BY <1>1, <2>1 DEF IndInv, TypeOK, sofar
  <2>3. Kept(q1, sofar, t, i)
    BY <1>1, <1>4, <1>6, <1>7, <1>12 DEF Kept
  <2> QED
    BY <1>7, <1>9, <1>12, <2>1, <2>2, <2>3
<1> QED
  BY <1>10, <1>11, <1>12
-----------------------------------------------------------------------------
(***************************************************************************)
(* The theorems.                                                           *)
(***************************************************************************)

\* Transport::poll with a message from the mixnet.
LEMMA InboundStep ==
    ASSUME IndInv, NEW t \in Node, HandleInbound(t)
    PROVE  IndInv'
<1>1. PICK m \in mixnet :
         /\ m.to = t
         /\ \/ m.type = "ConnectionRequest" /\ HandleConnectionRequest(t, m)
            \/ m.type = "ConnectionResponse" /\ HandleConnectionResponse(t, m)
            \/ m.type = "TransportMessage" /\ HandleTransportMessage(t, m)
  BY DEF HandleInbound
<1>2. CASE m.type = "ConnectionRequest" /\ HandleConnectionRequest(t, m)
  BY <1>1, <1>2, RequestStep
<1>3. CASE m.type = "ConnectionResponse" /\ HandleConnectionResponse(t, m)
  BY <1>1, <1>3, ResponseStep
<1>4. CASE m.type = "TransportMessage" /\ HandleTransportMessage(t, m)
  BY <1>1, <1>4, TransportMessageStep
<1> QED
  BY <1>1, <1>2, <1>3, <1>4

\* A step that changes no variable preserves the invariant.
LEMMA StutterStep ==
    ASSUME IndInv, UNCHANGED vars
    PROVE  IndInv'
<1> USE DEF vars, dialVars, connVars, sendVars, recvVars, netVars
<1>1. TypeOK' /\ NoAlarms'
  BY DEF IndInv, TypeOK, NoAlarms
<1>2. DialInv' /\ FreshInv' /\ Agreement' /\ MixnetInv'
  BY DEF IndInv, DialInv, FreshInv, Agreement, MixnetInv
<1>3. PostedInv' /\ QueueInv' /\ NothingPoppableIsLeft' /\ InOrder'
  BY DEF IndInv, PostedInv, QueueInv, NothingPoppableIsLeft, InOrder, ChannelAlive
<1> QED
  BY <1>1, <1>2, <1>3 DEF IndInv

\* Every step of every transport, application and message preserves IndInv.
LEMMA NextIndInv == IndInv /\ [Next]_vars => IndInv'
<1> SUFFICES ASSUME IndInv, [Next]_vars PROVE IndInv'
  OBVIOUS
<1>1. CASE \E t \in Node : RemoveListener(t) \/ PollEvent(t) \/ HandleInbound(t)
  BY <1>1, EventStep, InboundStep
<1>2. ASSUME NEW t \in Node, NEW i \in ConnectionId,
             \/ \E r \in Node : Dial(t, i, r)
             \/ PollDial(t, i) \/ ResolveDial(t, i) \/ TimeOutDial(t, i) \/ DropDial(t, i)
             \/ ResolveUpgrade(t, i) \/ DropUpgrade(t, i) \/ DropConnection(t, i)
             \/ ReserveNonce(t, i) \/ SendMessage(t, i) \/ DiscardNonce(t, i)
      PROVE  IndInv'
  BY <1>2, DialStep, PollDialStep, ApplicationStep, NonceStep, SendMessageStep
<1>3. CASE UNCHANGED vars
  BY <1>3, StutterStep
<1> QED
  BY <1>1, <1>2, <1>3 DEF Next

\* The inductive invariant holds in every state the transports can reach, for any
\* number of nodes, connections, payloads, messages and repeated deliveries.
THEOREM IndInvariant == Spec => []IndInv
BY InitIndInv, NextIndInv, PTL DEF Spec

\* Every variable keeps its type; in particular no nonce counter passes its bound
\* and every queue stays a set of numbered messages.
THEOREM TypeCorrect == Spec => []TypeOK
<1>1. IndInv => TypeOK
  BY DEF IndInv
<1> QED
  BY <1>1, IndInvariant, PTL

\* What handle_transport_message and the drain loops hand to a Connection is what
\* its peer sent, in the order of the nonces, without a gap or a repetition.
THEOREM DeliveryInOrder == Spec => []InOrder
<1>1. IndInv => InOrder
  BY DEF IndInv
<1> QED
  BY <1>1, IndInvariant, PTL

\* The panic in set_connection_message_received and the errors
\* NoConnectionForResponse and NoConnectionForTransportMessage never occur.
THEOREM NeverAlarmed == Spec => []NoAlarms
<1>1. IndInv => NoAlarms
  BY DEF IndInv
<1> QED
  BY <1>1, IndInvariant, PTL

\* The two transports of a connection agree on its ends.
THEOREM EndsAgree == Spec => []Agreement
<1>1. IndInv => Agreement
  BY DEF IndInv
<1> QED
  BY <1>1, IndInvariant, PTL

\* No message that could be handed over stays in the queue of a live Connection.
THEOREM QueueIsDrained == Spec => []NothingPoppableIsLeft
<1>1. IndInv => NothingPoppableIsLeft
  BY DEF IndInv
<1> QED
  BY <1>1, IndInvariant, PTL
=============================================================================
