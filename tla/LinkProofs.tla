----------------------------- MODULE LinkProofs -----------------------------
(***************************************************************************)
(* What the transports promise to the Connections: a connection is set up  *)
(* once, and Transport implements OrderedLink.                             *)
(***************************************************************************)
EXTENDS TransportProofs

\* What a step of handle_inbound at t does to connection i of t: what is handed over and the
\* queue only go on, and a connection that exists keeps its peer and its nonces.
GoesOn(t, i) ==
    /\ posted' = posted
    /\ \A u \in Node, j \in ConnectionId : <<u, j>> # <<t, i>> =>
          /\ inbound'[u][j] = inbound[u][j] /\ message_queues'[u][j] = message_queues[u][j]
          /\ j \in connections'[u] <=> j \in connections[u]
          /\ remote'[u][j] = remote[u][j] /\ message_nonce'[u][j] = message_nonce[u][j]
    /\ Len(inbound[t][i]) <= Len(inbound'[t][i])
    /\ i \in connections[t] =>
          /\ i \in connections'[t]
          /\ remote'[t][i] = remote[t][i] /\ message_nonce'[t][i] = message_nonce[t][i]
          /\ message_queues[t][i].next_expected_nonce <= message_queues'[t][i].next_expected_nonce

\* The lengths and counters that GoesOn compares are numbers.
LEMMA CounterTypes ==
    ASSUME IndInv, NEW t \in Node, NEW i \in ConnectionId
    PROVE  /\ Len(inbound[t][i]) \in Nat
           /\ message_queues[t][i] \in Queue
           /\ message_queues[t][i].next_expected_nonce \in Nat
           /\ message_nonce[t][i] \in Nat
<1>1. inbound[t][i] \in Seq(Payload) /\ message_queues[t][i] \in Queue
  BY DEF IndInv, TypeOK
<1>2. message_nonce[t][i] \in Nat
  BY TransportAssumption DEF IndInv, TypeOK
<1>3. message_queues[t][i].next_expected_nonce \in Nat
  BY <1>1, NonceSpaceAssumption DEF Queue, Nonce
<1> QED
  BY <1>1, <1>2, <1>3, LenProperties

\* A message that changes neither a queue nor a connection.
LEMMA RefusedGoesOn ==
    ASSUME IndInv, NEW t \in Node, NEW i \in ConnectionId,
           UNCHANGED <<connVars, sendVars, recvVars>>
    PROVE  GoesOn(t, i)
BY CounterTypes DEF GoesOn, connVars, sendVars, recvVars

\* What the drain loop hands over comes after what was handed over before.
LEMMA DrainGrows ==
    ASSUME NEW q \in Queue, NEW n \in DrainEnd(q), NEW sofar, Len(sofar) \in Nat
    PROVE  /\ Len(sofar) <= Len(DrainOnto(sofar, q, n))
           /\ q.next_expected_nonce <= DrainedTo(q, n).next_expected_nonce
<1>1. q.next_expected_nonce \in Nat /\ n \in Nat /\ q.next_expected_nonce <= n
  BY NonceSpaceAssumption DEF DrainEnd, Queue, Nonce
<1>2. DrainedTo(q, n).next_expected_nonce = n
  BY DEF DrainedTo
<1>3. PICK len \in Nat : len = Len(sofar) + (n - q.next_expected_nonce) /\ Len(sofar) <= len
  BY <1>1
<1>4. Len(DrainOnto(sofar, q, n)) = len
  BY <1>3 DEF DrainOnto
<1> QED
  BY <1>1, <1>2, <1>3, <1>4

\* A connection message for a connection that does not exist yet.
LEMMA CreatedGoesOn ==
    ASSUME IndInv, NEW t \in Node, NEW i \in ConnectionId, NEW r, i \notin connections[t],
           CreateConnection(t, i, r), InitiateQueue(t, i), posted' = posted
    PROVE  GoesOn(t, i)
<1>1. /\ connections \in [Node -> SUBSET ConnectionId]
      /\ remote \in [Node -> [ConnectionId -> Node \cup {NoNode}]]
      /\ message_nonce \in [Node -> [ConnectionId -> 0 .. MaxNonce + 1]]
      /\ message_queues \in [Node -> [ConnectionId -> Queue]]
      /\ inbound \in [Node -> [ConnectionId -> Seq(Payload)]]
  BY DEF IndInv, TypeOK
<1>2. PICK q \in Queue : q = SetConnectionMessageReceived(message_queues[t][i])
  BY CounterTypes, SetConnectionMessageReceivedProperties
<1>3. PICK n \in DrainEnd(q) :
         /\ message_queues' = [message_queues EXCEPT ![t][i] = DrainedTo(q, n)]
         /\ inbound' = [inbound EXCEPT ![t][i] = DrainOnto(@, q, n)]
  BY <1>2 DEF InitiateQueue
<1>4. \A u \in Node, j \in ConnectionId : <<u, j>> # <<t, i>> =>
         inbound'[u][j] = inbound[u][j] /\ message_queues'[u][j] = message_queues[u][j]
  BY <1>1, <1>3
<1>5. \A u \in Node, j \in ConnectionId : <<u, j>> # <<t, i>> =>
         /\ j \in connections'[u] <=> j \in connections[u]
         /\ remote'[u][j] = remote[u][j] /\ message_nonce'[u][j] = message_nonce[u][j]
  BY <1>1 DEF CreateConnection
<1>6. inbound'[t][i] = DrainOnto(inbound[t][i], q, n)
  BY <1>1, <1>3
<1>7. Len(inbound[t][i]) <= Len(inbound'[t][i])
  BY <1>6, CounterTypes, DrainGrows
<1> QED
  BY <1>4, <1>5, <1>7 DEF GoesOn

\* A TransportMessage.
LEMMA TransportMessageGoesOn ==
    ASSUME IndInv, NEW t \in Node, NEW m \in mixnet, m.to = t, m.type = "TransportMessage",
           HandleTransportMessage(t, m)
    PROVE  GoesOn(t, m.id)
<1>1. PICK i \in ConnectionId : i = m.id
  BY MixnetTypes DEF IndInv
<1>2. PICK msg \in TransportMessage : msg = Inner(m) /\ msg.nonce \in 1 .. MaxNonce
  <2>1. Inner(m) \in posted[t][i]
    BY <1>1 DEF IndInv, MixnetInv
  <2> QED
    BY <2>1, PostedNonces
<1>3. PICK q \in Queue : q = message_queues[t][i]
  BY CounterTypes
<1>4. PICK q1 \in Queue : q1 = TryPush(q, msg) /\ q.next_expected_nonce <= q1.next_expected_nonce
  <2>1. /\ TryPush(q, msg) \in Queue
        /\ TryPushReturns(q, msg) =>
              TryPush(q, msg).next_expected_nonce = WrappingAdd1(q.next_expected_nonce)
        /\ ~ TryPushReturns(q, msg) =>
              TryPush(q, msg).next_expected_nonce = q.next_expected_nonce
    BY TryPushProperties
  <2>2. q.next_expected_nonce \in Nat
    BY <1>3, CounterTypes
  <2>3. CASE TryPushReturns(q, msg)
    <3>1. WrappingAdd1(q.next_expected_nonce) = q.next_expected_nonce + 1
      BY <1>2, <2>2, <2>3, TransportAssumption, NonceSpaceAssumption DEF TryPushReturns, WrappingAdd1
    <3> QED
      BY <2>1, <2>2, <2>3, <3>1
  <2>4. CASE ~ TryPushReturns(q, msg)
    BY <2>1, <2>2, <2>4
  <2> QED
    BY <2>3, <2>4
<1>5. UNCHANGED <<connections, remote, message_nonce, posted>>
  BY DEF HandleTransportMessage, connVars, sendVars
<1>6. /\ message_queues \in [Node -> [ConnectionId -> Queue]]
      /\ inbound \in [Node -> [ConnectionId -> Seq(Payload)]]
  BY DEF IndInv, TypeOK
<1>7. ASSUME NEW d, NEW s, message_queues' = [message_queues EXCEPT ![t][i] = d],
             inbound' = [inbound EXCEPT ![t][i] = s], Len(inbound[t][i]) <= Len(s),
             q.next_expected_nonce <= d.next_expected_nonce
      PROVE  GoesOn(t, i)
  <2>1. /\ \A u \in Node, j \in ConnectionId : <<u, j>> # <<t, i>> =>
              inbound'[u][j] = inbound[u][j] /\ message_queues'[u][j] = message_queues[u][j]
        /\ inbound'[t][i] = s /\ message_queues'[t][i] = d
    BY <1>6, <1>7
  <2> QED
    BY <1>3, <1>5, <1>7, <2>1 DEF GoesOn
<1>8. CASE message_queues' = [message_queues EXCEPT ![t][i] = q1] /\ inbound' = inbound
  <2>1. inbound' = [inbound EXCEPT ![t][i] = inbound[t][i]]
    BY <1>6, <1>8
  <2>2. Len(inbound[t][i]) <= Len(inbound[t][i])
    BY CounterTypes
  <2> QED
    BY <1>1, <1>4, <1>7, <1>8, <2>1, <2>2
<1>9. ASSUME NEW n \in DrainEnd(q1),
             message_queues' = [message_queues EXCEPT ![t][i] = DrainedTo(q1, n)],
             inbound' = [inbound EXCEPT ![t][i] = DrainOnto(Append(@, m.message), q1, n)]
      PROVE  GoesOn(t, i)
  <2>1. PICK s1 : s1 = Append(inbound[t][i], m.message)
    OBVIOUS
  <2>2. Len(s1) = Len(inbound[t][i]) + 1 /\ Len(inbound[t][i]) \in Nat
    <3>1. inbound[t][i] \in Seq(Payload) /\ m.message \in Payload
      BY <1>2, <1>6 DEF TransportMessage, Inner
    <3> QED
      BY <2>1, <3>1, AppendProperties, LenProperties
  <2>3. inbound' = [inbound EXCEPT ![t][i] = DrainOnto(s1, q1, n)]
    BY <1>6, <1>9, <2>1
  <2>4. /\ Len(s1) <= Len(DrainOnto(s1, q1, n))
        /\ q1.next_expected_nonce <= DrainedTo(q1, n).next_expected_nonce
    BY <2>2, DrainGrows
  <2>5. Len(DrainOnto(s1, q1, n)) \in Int /\ DrainedTo(q1, n).next_expected_nonce \in Int
    BY <2>2, NonceSpaceAssumption DEF DrainOnto, DrainedTo, DrainEnd, Queue, Nonce
  <2>6. q.next_expected_nonce \in Nat /\ q1.next_expected_nonce \in Nat
    BY NonceSpaceAssumption DEF Queue, Nonce
  <2>7. Len(inbound[t][i]) <= Len(DrainOnto(s1, q1, n))
    BY <2>2, <2>4, <2>5
  <2>8. q.next_expected_nonce <= DrainedTo(q1, n).next_expected_nonce
    BY <1>4, <2>4, <2>5, <2>6
  <2> QED
    BY <1>7, <1>9, <2>3, <2>7, <2>8
<1>10. \/ message_queues' = [message_queues EXCEPT ![t][i] = q1] /\ inbound' = inbound
       \/ \E n \in DrainEnd(q1) :
             /\ message_queues' = [message_queues EXCEPT ![t][i] = DrainedTo(q1, n)]
             /\ inbound' = [inbound EXCEPT ![t][i] = DrainOnto(Append(@, m.message), q1, n)]
  BY <1>1, <1>2, <1>3, <1>4 DEF HandleTransportMessage
<1> QED
  BY <1>1, <1>8, <1>9, <1>10

\* Transport::poll with a message from the mixnet.
LEMMA InboundGoesOn ==
    ASSUME IndInv, NEW t \in Node, HandleInbound(t)
    PROVE  \E i \in ConnectionId : GoesOn(t, i)
<1>1. PICK m \in mixnet :
         /\ m.to = t
         /\ \/ m.type = "ConnectionRequest" /\ HandleConnectionRequest(t, m)
            \/ m.type = "ConnectionResponse" /\ HandleConnectionResponse(t, m)
            \/ m.type = "TransportMessage" /\ HandleTransportMessage(t, m)
  BY DEF HandleInbound
<1>2. m.id \in ConnectionId
  BY MixnetTypes DEF IndInv
<1>3. CASE HandleConnectionRequest(t, m)
  <2>1. CASE m.id \in connections[t]
    BY <1>2, <1>3, <2>1, RefusedGoesOn DEF HandleConnectionRequest
  <2>2. CASE m.id \notin connections[t]
    BY <1>2, <1>3, <2>2, CreatedGoesOn DEF HandleConnectionRequest
  <2> QED
    BY <2>1, <2>2
<1>4. CASE m.type = "ConnectionResponse" /\ HandleConnectionResponse(t, m)
  <2>1. CASE m.id \in connections[t]
    BY <1>2, <1>4, <2>1, RefusedGoesOn DEF HandleConnectionResponse
  <2>2. CASE m.id \notin connections[t]
    <3>1. m.id \in pending_dials[t]
      BY <1>1, <1>2, <1>4, <2>2 DEF IndInv, MixnetInv, DialInv
    <3> QED
      BY <1>2, <1>4, <2>2, <3>1, CreatedGoesOn DEF HandleConnectionResponse
  <2> QED
    BY <2>1, <2>2
<1>5. CASE m.type = "TransportMessage" /\ HandleTransportMessage(t, m)
  BY <1>1, <1>2, <1>5, TransportMessageGoesOn
<1> QED
  BY <1>1, <1>3, <1>4, <1>5

-----------------------------------------------------------------------------
(***************************************************************************)
(* A connection is set up once.                                            *)
(***************************************************************************)

\* The steps that neither take a message nor fetch a nonce leave connections, nonces, queues
\* and what was handed over alone.
LEMMA OtherSteps ==
    ASSUME NEW t \in Node, NEW i \in ConnectionId,
           \/ RemoveListener(t) \/ PollEvent(t) \/ (\E r \in Node : Dial(t, i, r))
           \/ PollDial(t, i) \/ ResolveDial(t, i) \/ TimeOutDial(t, i) \/ DropDial(t, i)
           \/ ResolveUpgrade(t, i) \/ DropUpgrade(t, i) \/ DropConnection(t, i)
    PROVE  UNCHANGED <<connections, remote, message_nonce, message_queues, inbound, posted>>
BY DEF RemoveListener, PollEvent, Dial, PollDial, ResolveDial, TimeOutDial, DropDial,
   ResolveUpgrade, DropUpgrade, DropConnection, connVars, sendVars, recvVars

\* No step gives a connection another peer, restarts its nonces or rewinds its queue.
LEMMA SetUpStep ==
    ASSUME IndInv, [Next]_vars, NEW t \in Node, NEW i \in connections[t]
    PROVE  /\ i \in connections'[t]
           /\ remote'[t][i] = remote[t][i]
           /\ message_nonce'[t][i] >= message_nonce[t][i]
           /\ message_queues'[t][i].next_expected_nonce >= message_queues[t][i].next_expected_nonce
<1>1. i \in ConnectionId
  BY DEF IndInv, TypeOK
<1>2. message_nonce[t][i] \in Nat /\ message_queues[t][i].next_expected_nonce \in Nat
  BY <1>1, CounterTypes
<1>3. CASE UNCHANGED <<connections, remote, message_nonce, message_queues, inbound, posted>>
  BY <1>2, <1>3
<1>4. ASSUME NEW u \in Node, HandleInbound(u)
      PROVE  /\ i \in connections'[t]
             /\ remote'[t][i] = remote[t][i]
             /\ message_nonce'[t][i] >= message_nonce[t][i]
             /\ message_queues'[t][i].next_expected_nonce
                   >= message_queues[t][i].next_expected_nonce
  <2>1. PICK j \in ConnectionId : GoesOn(u, j)
    BY <1>4, InboundGoesOn
  <2>2. CASE <<t, i>> # <<u, j>>
    <3>1. /\ i \in connections'[t] /\ remote'[t][i] = remote[t][i]
          /\ message_nonce'[t][i] = message_nonce[t][i] /\ message_queues'[t][i] = message_queues[t][i]
      BY <1>1, <2>1, <2>2 DEF GoesOn
    <3> QED
      BY <1>2, <3>1
  <2>3. CASE <<t, i>> = <<u, j>>
    <3>1. /\ i \in connections'[t] /\ remote'[t][i] = remote[t][i]
          /\ message_nonce'[t][i] = message_nonce[t][i]
          /\ message_queues[t][i].next_expected_nonce <= message_queues'[t][i].next_expected_nonce
      BY <2>1, <2>3 DEF GoesOn
    <3> QED
      BY <1>2, <3>1
  <2> QED
    BY <2>2, <2>3
<1>5. ASSUME NEW u \in Node, NEW j \in ConnectionId, ReserveNonce(u, j)
      PROVE  /\ i \in connections'[t]
             /\ remote'[t][i] = remote[t][i]
             /\ message_nonce'[t][i] >= message_nonce[t][i]
             /\ message_queues'[t][i].next_expected_nonce
                   >= message_queues[t][i].next_expected_nonce
  <2>1. UNCHANGED <<connections, remote, message_queues>>
    BY <1>5 DEF ReserveNonce, connVars, recvVars
  <2>2. message_nonce \in [Node -> [ConnectionId -> 0 .. MaxNonce + 1]]
    BY DEF IndInv, TypeOK
  <2>3. WrappingAdd1(message_nonce[u][j]) = message_nonce[u][j] + 1 /\ message_nonce[u][j] \in Nat
    <3>1. message_nonce[u][j] \in Nat /\ message_nonce[u][j] <= MaxNonce
      BY <1>5, CounterTypes DEF ReserveNonce
    <3> QED
      BY <3>1, TransportAssumption, NonceSpaceAssumption DEF WrappingAdd1
  <2>4. message_nonce' = [message_nonce EXCEPT ![u][j] = message_nonce[u][j] + 1]
    BY <1>5, <2>3 DEF ReserveNonce
  <2>5. message_nonce'[t][i] = message_nonce[t][i] \/ message_nonce'[t][i] = message_nonce[t][i] + 1
    BY <1>1, <2>2, <2>4
  <2> QED
    BY <1>2, <2>1, <2>5
<1>6. ASSUME NEW u \in Node, NEW j \in ConnectionId, SendMessage(u, j) \/ DiscardNonce(u, j)
      PROVE  /\ i \in connections'[t]
             /\ remote'[t][i] = remote[t][i]
             /\ message_nonce'[t][i] >= message_nonce[t][i]
             /\ message_queues'[t][i].next_expected_nonce
                   >= message_queues[t][i].next_expected_nonce
  <2>1. UNCHANGED <<connections, remote, message_nonce, message_queues>>
    BY <1>6 DEF SendMessage, DiscardNonce, connVars, recvVars
  <2> QED
    BY <1>2, <2>1
<1>7. CASE UNCHANGED vars
  BY <1>3, <1>7 DEF vars, connVars, sendVars, recvVars
<1>8. CASE Next
  <2>1. CASE \E u \in Node : RemoveListener(u) \/ PollEvent(u) \/ HandleInbound(u)
    BY <1>1, <1>3, <1>4, <2>1, OtherSteps
  <2>2. CASE \E u \in Node, j \in ConnectionId :
                \/ \E r \in Node : Dial(u, j, r)
                \/ PollDial(u, j) \/ ResolveDial(u, j) \/ TimeOutDial(u, j) \/ DropDial(u, j)
                \/ ResolveUpgrade(u, j) \/ DropUpgrade(u, j) \/ DropConnection(u, j)
                \/ ReserveNonce(u, j) \/ SendMessage(u, j) \/ DiscardNonce(u, j)
    BY <1>3, <1>5, <1>6, <2>2, OtherSteps
  <2> QED
    BY <1>8, <2>1, <2>2 DEF Next
<1> QED
  BY <1>7, <1>8

\* A connection is set up once: whatever requests and responses come late or again, it keeps
\* its peer, its nonces never restart and its queue never goes back.
THEOREM SetUpOnceTheorem == Spec => SetUpOnce
<1> DEFINE Step ==
       \A t \in Node : \A i \in connections[t] :
          /\ i \in connections'[t]
          /\ remote'[t][i] = remote[t][i]
          /\ message_nonce'[t][i] >= message_nonce[t][i]
          /\ message_queues'[t][i].next_expected_nonce
                >= message_queues[t][i].next_expected_nonce
<1>1. IndInv /\ [Next]_vars => [Step]_vars
  BY SetUpStep
<1>2. SetUpOnce <=> [][Step]_vars
  BY DEF SetUpOnce
<1> HIDE DEF Step
<1> QED
  BY <1>1, <1>2, IndInvariant, PTL DEF Spec
-----------------------------------------------------------------------------
(***************************************************************************)
(* The ordered link.                                                       *)
(***************************************************************************)

\* What was handed over is what was posted under the nonces 1, 2, 3, ...
LEMMA HandedOver ==
    ASSUME IndInv, NEW t \in Node, NEW i \in ConnectionId
    PROVE  /\ Len(inbound[t][i]) \in Nat
           /\ 1 .. Len(inbound[t][i]) \subseteq OrderedLink!NoncesPosted(t, i)
           /\ inbound[t][i] = [k \in 1 .. Len(inbound[t][i]) |-> OrderedLink!PayloadAt(t, i, k)]
<1>1. PICK s \in Seq(Payload) : s = inbound[t][i]
  BY DEF IndInv, TypeOK
<1>2. /\ \A k \in 1 .. Len(s) : [nonce |-> k, message |-> s[k]] \in posted[t][i]
      /\ \A m1, m2 \in posted[t][i] : m1.nonce = m2.nonce => m1 = m2
  BY <1>1 DEF IndInv, InOrder
<1>3. ASSUME NEW k \in 1 .. Len(s)
      PROVE  /\ k \in OrderedLink!NoncesPosted(t, i)
             /\ OrderedLink!PayloadAt(t, i, k) = s[k]
  <2>1. PICK m \in posted[t][i] : m.nonce = k /\ m.message = s[k]
    BY <1>2
  <2>2. (CHOOSE x \in posted[t][i] : x.nonce = k) = m
    BY <1>2, <2>1
  <2> QED
    BY <2>1, <2>2 DEF OrderedLink!NoncesPosted, OrderedLink!PayloadAt
<1>4. Len(s) \in Nat /\ s = [k \in 1 .. Len(s) |-> s[k]]
  BY LenProperties
<1>5. s = [k \in 1 .. Len(s) |-> OrderedLink!PayloadAt(t, i, k)]
  BY <1>3, <1>4
<1> QED
  BY <1>1, <1>3, <1>4, <1>5

\* handle_inbound delivers, or changes nothing that a Connection sees.
LEMMA DeliverStep ==
    ASSUME IndInv, IndInv', NEW t \in Node, NEW i \in ConnectionId, GoesOn(t, i)
    PROVE  OrderedLink!Deliver(t, i) \/ UNCHANGED OrderedLink!linkVars
<1>1. /\ posted' = posted
      /\ \A u \in Node, j \in ConnectionId : <<u, j>> # <<t, i>> => inbound'[u][j] = inbound[u][j]
      /\ Len(inbound[t][i]) <= Len(inbound'[t][i])
  BY DEF GoesOn
<1>2. /\ Len(inbound[t][i]) \in Nat
      /\ inbound[t][i] = [k \in 1 .. Len(inbound[t][i]) |-> OrderedLink!PayloadAt(t, i, k)]
  BY HandedOver
<1>3. /\ Len(inbound'[t][i]) \in Nat
      /\ 1 .. Len(inbound'[t][i]) \subseteq OrderedLink!NoncesPosted(t, i)
      /\ inbound'[t][i] = [k \in 1 .. Len(inbound'[t][i]) |-> OrderedLink!PayloadAt(t, i, k)]
  <2>1. /\ Len(inbound'[t][i]) \in Nat
        /\ 1 .. Len(inbound'[t][i]) \subseteq OrderedLink!NoncesPosted(t, i)'
        /\ inbound'[t][i] = [k \in 1 .. Len(inbound'[t][i]) |-> OrderedLink!PayloadAt(t, i, k)']
    <3>1. IndInv' => (/\ Len(inbound[t][i]) \in Nat
                      /\ 1 .. Len(inbound[t][i]) \subseteq OrderedLink!NoncesPosted(t, i)
                      /\ inbound[t][i] = [k \in 1 .. Len(inbound[t][i]) |->
                                             OrderedLink!PayloadAt(t, i, k)])'
      BY HandedOver, PTL
    <3> QED
      BY <3>1
  <2>2. OrderedLink!NoncesPosted(t, i)' = OrderedLink!NoncesPosted(t, i)
    BY <1>1 DEF OrderedLink!NoncesPosted
  <2>3. \A k : OrderedLink!PayloadAt(t, i, k)' = OrderedLink!PayloadAt(t, i, k)
    BY <1>1 DEF OrderedLink!PayloadAt
  <2> QED
    BY <2>1, <2>2, <2>3
<1>4. /\ inbound \in [Node -> [ConnectionId -> Seq(Payload)]]
      /\ inbound' \in [Node -> [ConnectionId -> Seq(Payload)]]
  BY DEF IndInv, TypeOK
<1>5. PICK n \in Nat : n = Len(inbound'[t][i])
  BY <1>3
<1>6. inbound' = [inbound EXCEPT ![t][i] = inbound'[t][i]]
  BY <1>1, <1>4
<1>7. CASE n = Len(inbound[t][i])
  <2>1. inbound'[t][i] = inbound[t][i]
    BY <1>2, <1>3, <1>5, <1>7
  <2>2. inbound' = inbound
    BY <1>4, <1>6, <2>1
  <2> QED
    BY <1>1, <2>2 DEF OrderedLink!linkVars
<1>8. CASE n # Len(inbound[t][i])
  <2>1. n > Len(inbound[t][i]) /\ n \in 1 .. n
    BY <1>1, <1>2, <1>5, <1>8
  <2>2. n \in OrderedLink!NoncesPosted(t, i) /\ 1 .. n \subseteq OrderedLink!NoncesPosted(t, i)
    BY <1>3, <1>5, <2>1
  <2>3. inbound' = [inbound EXCEPT ![t][i] = [k \in 1 .. n |-> OrderedLink!PayloadAt(t, i, k)]]
    BY <1>3, <1>5, <1>6
  <2> QED
    BY <1>1, <2>1, <2>2, <2>3 DEF OrderedLink!Deliver
<1> QED
  BY <1>7, <1>8

\* A send posts a message under a nonce that none has.
LEMMA PostStep ==
    ASSUME IndInv, IndInv', NEW t \in Node, NEW i \in ConnectionId, SendMessage(t, i)
    PROVE  \E p \in Node : OrderedLink!Post(p, i)
<1>1. PICK n \in reserved[t][i], x \in Payload :
         posted' = [posted EXCEPT ![remote[t][i]][i] = @ \cup {[nonce |-> n, message |-> x]}]
  BY DEF SendMessage
<1>2. PICK r \in Node : r = remote[t][i]
  BY DEF IndInv, FreshInv
<1>3. n \in 1 .. MaxNonce
  BY DEF IndInv, TypeOK
<1>4. ASSUME NEW m \in posted[r][i]
      PROVE  m.nonce # n
  <2>1. PICK u \in Node : remote[u][i] = r /\ m.nonce \notin reserved[u][i]
    BY <1>4 DEF IndInv, PostedInv
  <2>2. u = t
    BY <1>2, <2>1, SingleSender
  <2> QED
    BY <2>1, <2>2
<1>5. n \in (1 .. MaxNonce) \ OrderedLink!NoncesPosted(r, i)
  BY <1>3, <1>4 DEF OrderedLink!NoncesPosted
<1>6. UNCHANGED inbound
  BY DEF SendMessage, recvVars
<1> QED
  BY <1>1, <1>2, <1>5, <1>6 DEF OrderedLink!Post

\* Every step of the transports is a step of the ordered link, or none.
LEMMA LinkStep ==
    ASSUME IndInv, IndInv', [Next]_vars
    PROVE  [OrderedLink!Next]_(OrderedLink!linkVars)
<1>1. CASE UNCHANGED <<inbound, posted>>
  BY <1>1 DEF OrderedLink!linkVars
<1>2. ASSUME NEW t \in Node, HandleInbound(t)
      PROVE  OrderedLink!Next \/ UNCHANGED OrderedLink!linkVars
  BY <1>2, InboundGoesOn, DeliverStep DEF OrderedLink!Next
<1>3. ASSUME NEW t \in Node, NEW i \in ConnectionId, SendMessage(t, i)
      PROVE  OrderedLink!Next
  BY <1>3, PostStep DEF OrderedLink!Next
<1>4. ASSUME NEW t \in Node, NEW i \in ConnectionId, ReserveNonce(t, i) \/ DiscardNonce(t, i)
      PROVE  UNCHANGED <<inbound, posted>>
  BY <1>4 DEF ReserveNonce, DiscardNonce, recvVars
<1>5. CASE UNCHANGED vars
  BY <1>1, <1>5 DEF vars, sendVars, recvVars
<1>6. ASSUME NEW t \in Node, RemoveListener(t) \/ PollEvent(t)
      PROVE  UNCHANGED <<inbound, posted>>
  BY <1>6 DEF RemoveListener, PollEvent, recvVars, sendVars
<1>7. CASE Next
  BY <1>1, <1>2, <1>3, <1>4, <1>6, <1>7, OtherSteps DEF Next
<1> QED
  BY <1>5, <1>7

\* Towards the Connections, dialing, queueing and the mixnet are an ordered link that hands
\* over each message exactly once, for any number of nodes, connections and messages.
THEOREM Refinement == Spec => ImplementsOrderedLink
<1>1. Init => OrderedLink!Init
  BY DEF Init, OrderedLink!Init
<1>2. IndInv /\ IndInv' /\ [Next]_vars => [OrderedLink!Next]_(OrderedLink!linkVars)
  BY LinkStep
<1> QED
  BY <1>1, <1>2, IndInvariant, PTL DEF Spec, ImplementsOrderedLink, OrderedLink!Spec
=============================================================================
