----------------------------- MODULE Transport -----------------------------
(***************************************************************************)
(* NymTransport (src/src/transport.rs) at every node, the reordering queue *)
(* of each connection, and the mixnet between the nodes.                   *)
(*                                                                         *)
(* A node dials another one: the dial future sends a ConnectionRequest,    *)
(* the listener answers with a ConnectionResponse, and each side hands a   *)
(* Connection to its application.  The dial races a timeout, and the       *)
(* application may drop a dial, an upgrade or a Connection at any moment.  *)
(* Over an established connection the two ends number their messages; the  *)
(* mixnet delivers them in any order, and possibly again.                  *)
(*                                                                         *)
(* Peer IDs and Nym addresses are both the node.  A Connection is reduced  *)
(* to its channel and its nonce counter: module Connection models the rest.*)
(***************************************************************************)
EXTENDS MessageQueue

CONSTANTS
    Node,           \* the transports, each with its Nym address
    ConnectionId,   \* the IDs that ConnectionId::generate may yield
    NoNode,         \* no address
    MaxNonce,       \* bound: messages that one end sends over a connection
    MaxDuplicates,  \* bound: deliveries of a message that the mixnet repeats
    MaxEvents       \* bound: queued listener events at which remove_listener is still called

ASSUME TransportAssumption ==
    /\ NoNode \notin Node
    /\ MaxNonce \in Nat
    /\ MaxNonce + 1 < NonceSpace        \* no u64 nonce wraps around
    /\ MaxDuplicates \in Nat
    /\ MaxEvents \in Nat

VARIABLES
    \* Fields of NymTransport.
    poll_rx,         \* [Node -> Seq(event)]: listener events for Transport::poll
    pending_dials,   \* [Node -> SUBSET ConnectionId]
    connections,     \* [Node -> SUBSET ConnectionId]
    message_queues,  \* [Node -> [ConnectionId -> Queue]]; New where the map has no entry
    \* The futures that dial returns.
    dial,            \* [Node -> [ConnectionId -> DialState]]
    recipient,       \* the address dialed, also PendingConnection.remote_recipient
    \* The Connection objects.
    conn,            \* [Node -> [ConnectionId -> ConnState]]
    remote,          \* Connection.remote_recipient
    message_nonce,   \* Connection.message_nonce; 0 before Connection::new
    reserved,        \* nonces fetched from message_nonce whose message is not yet sent
    inbound,         \* all that was sent on the Connection's inbound channel
    \* The mixnet.
    mixnet,          \* messages under way
    duplicates,      \* deliveries repeated so far
    posted,          \* history: the TransportMessages ever sent towards a node
    \* What the code says cannot happen, and did.
    alarms

dialVars == <<pending_dials, dial, recipient>>
connVars == <<connections, conn, remote>>
sendVars == <<message_nonce, reserved, posted>>
recvVars == <<message_queues, inbound, alarms>>
netVars == <<mixnet, duplicates>>
vars == <<poll_rx, dialVars, connVars, sendVars, recvVars, netVars>>

(***************************************************************************)
(* A dial is created by dial(), waiting once the future was polled and its *)
(* request sent, answered when a Connection lies in its oneshot channel,   *)
(* resolved when the future returned it, gone when it timed out or was     *)
(* dropped.                                                                *)
(***************************************************************************)
DialState == {"none", "created", "waiting", "answered", "resolved", "gone"}

(***************************************************************************)
(* A Connection is ready while it lies in the oneshot channel of a dial or *)
(* of an Upgrade, open once the application has it, dropped when the       *)
(* application dropped it, lost when its oneshot receiver was gone.        *)
(***************************************************************************)
ConnState == {"none", "ready", "open", "dropped", "lost"}

\* The receiving half of the Connection's inbound channel still exists.
ChannelAlive(t, i) == conn[t][i] \in {"ready", "open"}

Event == {"NewAddress", "ListenerClosed"}

Alarm == {"connection message received twice",    \* panic in queue.rs
          "NoConnectionForResponse",
          "NoConnectionForTransportMessage"}

Request == [type : {"ConnectionRequest"}, to : Node, id : ConnectionId, recipient : Node]
Response == [type : {"ConnectionResponse"}, to : Node, id : ConnectionId]
Transported == [type : {"TransportMessage"}, to : Node, id : ConnectionId,
                nonce : Nonce, message : Payload]

\* The nonce and payload of a TransportMessage: what the queue keeps of it.
Inner(m) == [nonce |-> m.nonce, message |-> m.message]

TypeOK ==
    /\ poll_rx \in [Node -> Seq(Event)]
    /\ pending_dials \in [Node -> SUBSET ConnectionId]
    /\ connections \in [Node -> SUBSET ConnectionId]
    /\ message_queues \in [Node -> [ConnectionId -> Queue]]
    /\ dial \in [Node -> [ConnectionId -> DialState]]
    /\ recipient \in [Node -> [ConnectionId -> Node \cup {NoNode}]]
    /\ conn \in [Node -> [ConnectionId -> ConnState]]
    /\ remote \in [Node -> [ConnectionId -> Node \cup {NoNode}]]
    /\ message_nonce \in [Node -> [ConnectionId -> 0 .. MaxNonce + 1]]
    /\ reserved \in [Node -> [ConnectionId -> SUBSET (1 .. MaxNonce)]]
    /\ inbound \in [Node -> [ConnectionId -> Seq(Payload)]]
    /\ mixnet \subseteq Request \cup Response \cup Transported
    /\ duplicates \in 0 .. MaxDuplicates
    /\ posted \in [Node -> [ConnectionId -> SUBSET TransportMessage]]
    /\ alarms \subseteq Alarm

\* new_maybe_with_notify_inbound: the only event of a new transport is its address.
Init ==
    /\ poll_rx = [t \in Node |-> <<"NewAddress">>]
    /\ pending_dials = [t \in Node |-> {}]
    /\ connections = [t \in Node |-> {}]
    /\ message_queues = [t \in Node |-> [i \in ConnectionId |-> New]]
    /\ dial = [t \in Node |-> [i \in ConnectionId |-> "none"]]
    /\ recipient = [t \in Node |-> [i \in ConnectionId |-> NoNode]]
    /\ conn = [t \in Node |-> [i \in ConnectionId |-> "none"]]
    /\ remote = [t \in Node |-> [i \in ConnectionId |-> NoNode]]
    /\ message_nonce = [t \in Node |-> [i \in ConnectionId |-> 0]]
    /\ reserved = [t \in Node |-> [i \in ConnectionId |-> {}]]
    /\ inbound = [t \in Node |-> [i \in ConnectionId |-> <<>>]]
    /\ mixnet = {}
    /\ duplicates = 0
    /\ posted = [t \in Node |-> [i \in ConnectionId |-> {}]]
    /\ alarms = {}
-----------------------------------------------------------------------------
(***************************************************************************)
(* Listener events.                                                        *)
(***************************************************************************)

\* remove_listener with our own listener ID.  Connections and channels stay.
RemoveListener(t) ==
    /\ Len(poll_rx[t]) < MaxEvents
    /\ poll_rx' = [poll_rx EXCEPT ![t] = Append(@, "ListenerClosed")]
    /\ UNCHANGED <<dialVars, connVars, sendVars, recvVars, netVars>>

\* Transport::poll returns a queued listener event before it looks at the mixnet.
PollEvent(t) ==
    /\ poll_rx[t] # <<>>
    /\ poll_rx' = [poll_rx EXCEPT ![t] = Tail(@)]
    /\ UNCHANGED <<dialVars, connVars, sendVars, recvVars, netVars>>
-----------------------------------------------------------------------------
(***************************************************************************)
(* Dialing.                                                                *)
(***************************************************************************)

\* dial: a fresh random ID becomes pending.  Nothing is sent yet.
Dial(t, i, r) ==
    /\ \A u \in Node : dial[u][i] = "none"
    /\ pending_dials' = [pending_dials EXCEPT ![t] = @ \cup {i}]
    /\ dial' = [dial EXCEPT ![t][i] = "created"]
    /\ recipient' = [recipient EXCEPT ![t][i] = r]
    /\ UNCHANGED <<poll_rx, connVars, sendVars, recvVars, netVars>>

\* The first poll of the future sends the request and starts the timeout.
PollDial(t, i) ==
    /\ dial[t][i] = "created"
    /\ dial' = [dial EXCEPT ![t][i] = "waiting"]
    /\ mixnet' = mixnet \cup {[type |-> "ConnectionRequest", to |-> recipient[t][i],
                               id |-> i, recipient |-> t]}
    /\ UNCHANGED <<poll_rx, pending_dials, recipient, connVars, sendVars, recvVars, duplicates>>

\* The future returns the Connection that its oneshot channel holds.
ResolveDial(t, i) ==
    /\ dial[t][i] = "answered"
    /\ dial' = [dial EXCEPT ![t][i] = "resolved"]
    /\ conn' = [conn EXCEPT ![t][i] = "open"]
    /\ UNCHANGED <<poll_rx, pending_dials, recipient, connections, remote, sendVars, recvVars,
                   netVars>>

\* DialTimeout.  timeout() polls the channel first, so an answer in it wins.
TimeOutDial(t, i) ==
    /\ dial[t][i] = "waiting"
    /\ dial' = [dial EXCEPT ![t][i] = "gone"]
    /\ UNCHANGED <<poll_rx, pending_dials, recipient, connVars, sendVars, recvVars, netVars>>

\* The application drops the future, and with it a Connection it may hold.
DropDial(t, i) ==
    /\ dial[t][i] \in {"created", "waiting", "answered"}
    /\ dial' = [dial EXCEPT ![t][i] = "gone"]
    /\ conn' = [conn EXCEPT ![t][i] = IF dial[t][i] = "answered" THEN "lost" ELSE @]
    /\ UNCHANGED <<poll_rx, pending_dials, recipient, connections, remote, sendVars, recvVars,
                   netVars>>
-----------------------------------------------------------------------------
(***************************************************************************)
(* Upgrades and Connections in the application's hands.                    *)
(***************************************************************************)

InUpgrade(t, i) == conn[t][i] = "ready" /\ dial[t][i] # "answered"

\* Upgrade::poll returns the Connection that handle_inbound put into its channel.
ResolveUpgrade(t, i) ==
    /\ InUpgrade(t, i)
    /\ conn' = [conn EXCEPT ![t][i] = "open"]
    /\ UNCHANGED <<poll_rx, dialVars, connections, remote, sendVars, recvVars, netVars>>

DropUpgrade(t, i) ==
    /\ InUpgrade(t, i)
    /\ conn' = [conn EXCEPT ![t][i] = "lost"]
    /\ UNCHANGED <<poll_rx, dialVars, connections, remote, sendVars, recvVars, netVars>>

DropConnection(t, i) ==
    /\ conn[t][i] = "open"
    /\ conn' = [conn EXCEPT ![t][i] = "dropped"]
    /\ UNCHANGED <<poll_rx, dialVars, connections, remote, sendVars, recvVars, netVars>>

(***************************************************************************)
(* The Connection and its substreams send in two steps, each in a thread   *)
(* of its own: message_nonce.fetch_add(1), then a send on the outbound     *)
(* channel.  Substreams share both with the Connection and outlive it.     *)
(***************************************************************************)

\* A nonce counter that is read and written back in two steps.
ReserveNonce_NotAtomic(t, i) ==
    /\ conn[t][i] \in {"open", "dropped"}
    /\ message_nonce[t][i] <= MaxNonce
    /\ reserved' = [reserved EXCEPT ![t][i] = @ \cup {message_nonce[t][i]}]
    /\ message_nonce' = [message_nonce EXCEPT ![t][i] = IF reserved[t][i] = {} THEN @ ELSE @ + 1]
    /\ UNCHANGED <<poll_rx, dialVars, connVars, posted, recvVars, netVars>>

ReserveNonce(t, i) ==
    /\ conn[t][i] \in {"open", "dropped"}
    /\ message_nonce[t][i] <= MaxNonce
    /\ reserved' = [reserved EXCEPT ![t][i] = @ \cup {message_nonce[t][i]}]
    /\ message_nonce' = [message_nonce EXCEPT ![t][i] = WrappingAdd1(@)]
    /\ UNCHANGED <<poll_rx, dialVars, connVars, posted, recvVars, netVars>>

SendMessage(t, i) ==
    /\ \E n \in reserved[t][i], p \in Payload :
          /\ reserved' = [reserved EXCEPT ![t][i] = @ \ {n}]
          /\ posted' = [posted EXCEPT ![remote[t][i]][i] =
                            @ \cup {[nonce |-> n, message |-> p]}]
          /\ mixnet' = mixnet \cup {[type |-> "TransportMessage", to |-> remote[t][i], id |-> i,
                                     nonce |-> n, message |-> p]}
    /\ UNCHANGED <<poll_rx, dialVars, connVars, message_nonce, recvVars, duplicates>>

\* Substream::poll_close fetches its nonce before it finds the substream closed
\* and returns an error: that nonce is never sent.
DiscardNonce(t, i) ==
    /\ \E n \in reserved[t][i] : reserved' = [reserved EXCEPT ![t][i] = @ \ {n}]
    /\ UNCHANGED <<poll_rx, dialVars, connVars, message_nonce, posted, recvVars, netVars>>
-----------------------------------------------------------------------------
(***************************************************************************)
(* handle_inbound, called by Transport::poll for one message once no       *)
(* listener event is queued.  The mixnet picks any message under way and   *)
(* may keep a copy of it.                                                  *)
(***************************************************************************)
Take(t, m, answers) ==
    /\ poll_rx[t] = <<>>
    /\ \/ /\ mixnet' = (mixnet \ {m}) \cup answers
          /\ UNCHANGED duplicates
       \/ /\ duplicates < MaxDuplicates
          /\ duplicates' = duplicates + 1
          /\ mixnet' = mixnet \cup answers

\* handle_message_queue_on_connection_initiation without the loop over queue.pop().
InitiateQueue_NoDrain(t, i) ==
    LET q == SetConnectionMessageReceived(message_queues[t][i])
    IN  /\ message_queues' = [message_queues EXCEPT ![t][i] = q]
        /\ UNCHANGED <<inbound, alarms>>

\* handle_message_queue_on_connection_initiation.  The Connection was created
\* a moment ago, so its channel takes every message.
InitiateQueue(t, i) ==
    LET q == SetConnectionMessageReceived(message_queues[t][i])
    IN  /\ \E n \in DrainEnd(q) :
              /\ message_queues' = [message_queues EXCEPT ![t][i] = DrainedTo(q, n)]
              /\ inbound' = [inbound EXCEPT ![t][i] = DrainOnto(@, q, n)]
        /\ alarms' = IF AwaitsConnectionMessage(message_queues[t][i]) THEN alarms
                     ELSE alarms \cup {"connection message received twice"}

\* A Connection whose nonce counter starts at 0, the nonce of the connection messages.
CreateConnection_FromZero(t, i, r) ==
    /\ connections' = [connections EXCEPT ![t] = @ \cup {i}]
    /\ remote' = [remote EXCEPT ![t][i] = r]
    /\ message_nonce' = [message_nonce EXCEPT ![t][i] = 0]

\* create_connection_types, Connection::new and connections.insert.
CreateConnection(t, i, r) ==
    /\ connections' = [connections EXCEPT ![t] = @ \cup {i}]
    /\ remote' = [remote EXCEPT ![t][i] = r]
    /\ message_nonce' = [message_nonce EXCEPT ![t][i] = 1]

\* handle_connection_request without the check for an existing connection.
HandleConnectionRequest_NoCheck(t, m) ==
    /\ CreateConnection(t, m.id, m.recipient)
    /\ conn' = [conn EXCEPT ![t][m.id] = "ready"]
    /\ InitiateQueue(t, m.id)
    /\ Take(t, m, {[type |-> "ConnectionResponse", to |-> m.recipient, id |-> m.id]})
    /\ UNCHANGED <<poll_rx, dialVars, reserved, posted>>

\* handle_connection_request that answers to its own address.
HandleConnectionRequest_AnswersItself(t, m) ==
    /\ m.id \notin connections[t]
    /\ CreateConnection(t, m.id, m.recipient)
    /\ conn' = [conn EXCEPT ![t][m.id] = "ready"]
    /\ InitiateQueue(t, m.id)
    /\ Take(t, m, {[type |-> "ConnectionResponse", to |-> t, id |-> m.id]})
    /\ UNCHANGED <<poll_rx, dialVars, reserved, posted>>

\* handle_connection_request: a second request with an ID is refused
\* (ConnectionIDExists); the first one makes a Connection, which handle_inbound
\* puts into an Upgrade, and is answered.  One without a recipient would be refused
\* before anything else; dial always sets it, so no Request here is without.
HandleConnectionRequest(t, m) ==
    \/ /\ m.id \in connections[t]
       /\ Take(t, m, {})
       /\ UNCHANGED <<poll_rx, dialVars, connVars, sendVars, recvVars>>
    \/ /\ m.id \notin connections[t]
       /\ CreateConnection(t, m.id, m.recipient)
       /\ conn' = [conn EXCEPT ![t][m.id] = "ready"]
       /\ InitiateQueue(t, m.id)
       /\ Take(t, m, {[type |-> "ConnectionResponse", to |-> m.recipient, id |-> m.id]})
       /\ UNCHANGED <<poll_rx, dialVars, reserved, posted>>

\* handle_connection_response that takes our own address for the remote one.
HandleConnectionResponse_WrongRemote(t, m) ==
    /\ m.id \in pending_dials[t]
    /\ pending_dials' = [pending_dials EXCEPT ![t] = @ \ {m.id}]
    /\ CreateConnection(t, m.id, t)
    /\ InitiateQueue(t, m.id)
    /\ dial' = [dial EXCEPT ![t][m.id] = IF @ = "waiting" THEN "answered" ELSE @]
    /\ conn' = [conn EXCEPT ![t][m.id] = IF dial[t][m.id] = "waiting" THEN "ready" ELSE "lost"]
    /\ Take(t, m, {})
    /\ UNCHANGED <<poll_rx, recipient, reserved, posted>>

\* handle_connection_response: ConnectionAlreadyEstablished, or the pending dial
\* becomes a Connection.  If the dial's future is gone, the oneshot send fails
\* (ConnectionSendError) and the Connection is dropped, but it stays in connections.
HandleConnectionResponse(t, m) ==
    \/ /\ m.id \in connections[t]
       /\ Take(t, m, {})
       /\ UNCHANGED <<poll_rx, dialVars, connVars, sendVars, recvVars>>
    \/ /\ m.id \notin connections[t]
       /\ pending_dials' = [pending_dials EXCEPT ![t] = @ \ {m.id}]
       /\ IF m.id \in pending_dials[t]
            THEN /\ CreateConnection(t, m.id, recipient[t][m.id])
                 /\ InitiateQueue(t, m.id)
                 /\ dial' = [dial EXCEPT ![t][m.id] = IF @ = "waiting" THEN "answered" ELSE @]
                 /\ conn' = [conn EXCEPT ![t][m.id] =
                                IF dial[t][m.id] = "waiting" THEN "ready" ELSE "lost"]
            ELSE /\ alarms' = alarms \cup {"NoConnectionForResponse"}
                 /\ UNCHANGED <<connVars, message_nonce, message_queues, inbound, dial>>
       /\ Take(t, m, {})
       /\ UNCHANGED <<poll_rx, recipient, reserved, posted>>

\* handle_transport_message.
\*  - try_push keeps or drops the message: nothing more happens;
\*  - its nonce is the expected one: it goes to the Connection, and the messages
\*    that waited for it follow;
\*  - the same, but the Connection is gone: the send fails (InboundSendError)
\*    before the loop starts, and the message is lost.
HandleTransportMessage(t, m) ==
    LET q == message_queues[t][m.id]
        q1 == TryPush(q, Inner(m))
    IN  /\ Take(t, m, {})
        /\ \/ /\ ~ TryPushReturns(q, Inner(m))
              /\ message_queues' = [message_queues EXCEPT ![t][m.id] = q1]
              /\ UNCHANGED <<inbound, alarms>>
           \/ /\ TryPushReturns(q, Inner(m))
              /\ ChannelAlive(t, m.id)
              /\ \E n \in DrainEnd(q1) :
                    /\ message_queues' = [message_queues EXCEPT ![t][m.id] = DrainedTo(q1, n)]
                    /\ inbound' = [inbound EXCEPT ![t][m.id] =
                                      DrainOnto(Append(@, m.message), q1, n)]
              /\ UNCHANGED alarms
           \/ /\ TryPushReturns(q, Inner(m))
              /\ ~ ChannelAlive(t, m.id)
              /\ message_queues' = [message_queues EXCEPT ![t][m.id] = q1]
              /\ alarms' = IF m.id \in connections[t] THEN alarms
                           ELSE alarms \cup {"NoConnectionForTransportMessage"}
              /\ UNCHANGED inbound
        /\ UNCHANGED <<poll_rx, dialVars, connVars, sendVars>>

HandleInbound(t) ==
    \E m \in mixnet :
        /\ m.to = t
        /\ \/ m.type = "ConnectionRequest" /\ HandleConnectionRequest(t, m)
           \/ m.type = "ConnectionResponse" /\ HandleConnectionResponse(t, m)
           \/ m.type = "TransportMessage" /\ HandleTransportMessage(t, m)
-----------------------------------------------------------------------------
Next ==
    \/ \E t \in Node : RemoveListener(t) \/ PollEvent(t) \/ HandleInbound(t)
    \/ \E t \in Node, i \in ConnectionId :
          \/ \E r \in Node : Dial(t, i, r)
          \/ PollDial(t, i) \/ ResolveDial(t, i) \/ TimeOutDial(t, i) \/ DropDial(t, i)
          \/ ResolveUpgrade(t, i) \/ DropUpgrade(t, i) \/ DropConnection(t, i)
          \/ ReserveNonce(t, i) \/ SendMessage(t, i) \/ DiscardNonce(t, i)

Spec == Init /\ [][Next]_vars

(***************************************************************************)
(* Fairness.  The swarm polls the transport whenever it is woken, and Nym  *)
(* delivers what it was given (queue.rs:9): PollEvent and HandleInbound.   *)
(* Nothing is assumed of the application, the senders or the timeouts.     *)
(***************************************************************************)
Fairness == \A t \in Node : WF_vars(PollEvent(t)) /\ WF_vars(HandleInbound(t))

FairSpec == Spec /\ Fairness
-----------------------------------------------------------------------------
(***************************************************************************)
(* Safety.                                                                 *)
(***************************************************************************)

\* What handle_transport_message and the drain loops hand to a Connection is
\* exactly what its peer sent: the k-th message is the one with nonce k, and no
\* two messages have the same nonce, however the senders' fetch_add and send
\* interleave and whatever the mixnet reorders or repeats.
InOrder ==
    \A t \in Node, i \in ConnectionId :
        /\ \A k \in 1 .. Len(inbound[t][i]) :
              [nonce |-> k, message |-> inbound[t][i][k]] \in posted[t][i]
        /\ \A m1, m2 \in posted[t][i] : m1.nonce = m2.nonce => m1 = m2

\* The panic of set_connection_message_received and the two errors that no
\* well-behaved peer should cause (NoConnectionForResponse,
\* NoConnectionForTransportMessage) never occur: repeated requests and
\* responses, late ones, and messages that overtake the ConnectionResponse
\* are all caught by the checks that come before.
NoAlarms == alarms = {}

\* The two transports of a connection agree on who is at the other end: a node
\* that dialed has the connection only after the node it dialed, which answers
\* to it; a node that was dialed has it with the node that did.
Agreement ==
    \A t \in Node : \A i \in connections[t] :
        LET r == remote[t][i]
        IN  \/ recipient[t][i] = r /\ i \in connections[r] /\ remote[r][i] = t
            \/ recipient[r][i] = t /\ dial[r][i] # "created"

\* A connection is set up once: no later request or response with its ID, late
\* or repeated, gives it another peer, restarts its nonces or rewinds its queue.
SetUpOnce ==
    [][\A t \in Node : \A i \in connections[t] :
          /\ i \in connections'[t]
          /\ remote'[t][i] = remote[t][i]
          /\ message_nonce'[t][i] >= message_nonce[t][i]
          /\ message_queues'[t][i].next_expected_nonce
                >= message_queues[t][i].next_expected_nonce]_vars

\* As long as a Connection's channel is alive, the head of its queue is greater
\* than the next expected nonce (queue.rs:22-24), which is the one after the last
\* message handed over: a message is never left behind in the queue, where the
\* drain loops would not find it any more.  (Once an InboundSendError has cut a
\* loop short the head may equal the expected nonce; nobody reads then.)
NothingPoppableIsLeft ==
    \A t \in Node, i \in ConnectionId : ChannelAlive(t, i) =>
        /\ \A m \in message_queues[t][i].queue :
              m.nonce > message_queues[t][i].next_expected_nonce
        /\ message_queues[t][i].next_expected_nonce = Len(inbound[t][i]) + 1

\* The comment on NymTransport.pending_dials (transport.rs:56), "outbound pending
\* dials": a dial in the map has not timed out or been dropped.
PendingDialsArePending ==
    \A t \in Node : \A i \in pending_dials[t] : dial[t][i] \in {"created", "waiting"}

(***************************************************************************)
(* The inductive invariant: why the properties above hold.                 *)
(***************************************************************************)

\* An ID has one dialer, whose dial is pending until the connection exists; an
\* answered dial holds its Connection.
DialInv ==
    \A t \in Node, i \in ConnectionId :
        /\ recipient[t][i] \in Node <=> dial[t][i] # "none"
        /\ \A u \in Node : dial[t][i] # "none" /\ dial[u][i] # "none" => t = u
        /\ dial[t][i] # "none" => i \in pending_dials[t] \cup connections[t]
        /\ dial[t][i] = "answered" => conn[t][i] = "ready"

\* Everything about a connection is untouched until the connection message.
FreshInv ==
    \A t \in Node, i \in ConnectionId :
        IF i \in connections[t]
          THEN conn[t][i] # "none" /\ remote[t][i] \in Node /\ message_nonce[t][i] >= 1
          ELSE /\ conn[t][i] = "none" /\ remote[t][i] = NoNode
               /\ message_nonce[t][i] = 0 /\ reserved[t][i] = {}
               /\ inbound[t][i] = <<>> /\ message_queues[t][i].next_expected_nonce = 0

\* A request under way was sent by the node that dialed; a response, by the node
\* that was dialed and has the connection; a TransportMessage was posted.
MixnetInv ==
    \A m \in mixnet :
        /\ m.type = "ConnectionRequest" =>
              recipient[m.recipient][m.id] = m.to /\ dial[m.recipient][m.id] # "created"
        /\ m.type = "ConnectionResponse" =>
              /\ recipient[m.to][m.id] \in Node
              /\ m.id \in connections[recipient[m.to][m.id]]
              /\ remote[recipient[m.to][m.id]][m.id] = m.to
        /\ m.type = "TransportMessage" => Inner(m) \in posted[m.to][m.id]

\* A message was posted by the other end, under a nonce that end has used up.
PostedInv ==
    \A t \in Node, i \in ConnectionId :
        /\ \A n \in reserved[t][i] : 1 <= n /\ n < message_nonce[t][i]
        /\ \A m \in posted[t][i] : \E u \in Node :
              /\ remote[u][i] = t
              /\ 1 <= m.nonce /\ m.nonce < message_nonce[u][i] /\ m.nonce \notin reserved[u][i]

\* A queue holds messages that were posted, and its counter stays below the wrap.
QueueInv ==
    \A t \in Node, i \in ConnectionId :
        /\ message_queues[t][i].queue \subseteq posted[t][i]
        /\ message_queues[t][i].next_expected_nonce <= MaxNonce + 1

\* The invariant that every step of the transports and the mixnet preserves.
IndInv ==
    /\ TypeOK /\ DialInv /\ FreshInv /\ Agreement /\ MixnetInv /\ PostedInv /\ QueueInv
    /\ NothingPoppableIsLeft /\ InOrder /\ NoAlarms

(***************************************************************************)
(* Liveness, under FairSpec.                                               *)
(***************************************************************************)

\* If all the messages up to nonce n are sent, the Connection is handed all of
\* them, unless the application has let go of it.
Delivery ==
    \A t \in Node, i \in ConnectionId : \A n \in 1 .. MaxNonce :
        (1 .. n \subseteq {m.nonce : m \in posted[t][i]})
            ~> (Len(inbound[t][i]) >= n \/ conn[t][i] \in {"dropped", "lost"})

\* A dial that waits for another node is answered, times out or is dropped; no
\* order of messages loses the answer.
DialEnds ==
    \A t \in Node, i \in ConnectionId :
        (dial[t][i] = "waiting" /\ recipient[t][i] # t) ~> dial[t][i] # "waiting"

(***************************************************************************)
(* The transports implement an ordered link per connection.                *)
(***************************************************************************)
OrderedLink == INSTANCE OrderedLink WITH Place <- Node, Link <- ConnectionId

\* Towards the Connections, the whole of dialing, queueing and the mixnet is an
\* ordered, exactly-once link.
ImplementsOrderedLink == OrderedLink!Spec
=============================================================================
