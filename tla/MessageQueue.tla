---------------------------- MODULE MessageQueue ----------------------------
(***************************************************************************)
(* The reordering queue of one connection (src/src/queue.rs).              *)
(*                                                                         *)
(* Nym delivers messages in any order, so every TransportMessage carries a *)
(* nonce and the receiver keeps the ones that came too early until the     *)
(* nonce before them has come.  A queue is a value, a record with the      *)
(* fields of struct MessageQueue; each method is an operator from queues   *)
(* to queues.  A method that also returns a message has a second operator  *)
(* for the returned value.                                                 *)
(*                                                                         *)
(* The payload of a TransportMessage is opaque here, and its connection ID *)
(* is left out: a queue only ever sees the messages of one connection.     *)
(***************************************************************************)
EXTENDS Integers, Sequences

CONSTANTS
    Payload,      \* the SubstreamMessages a TransportMessage may carry
    NonceSpace    \* number of values of the nonce type: 2^64 for u64

ASSUME NonceSpaceAssumption == NonceSpace \in Nat /\ NonceSpace > 2

Nonce == 0 .. NonceSpace - 1

\* struct TransportMessage, compared and ordered by nonce alone.
TransportMessage == [nonce : Nonce, message : Payload]

\* struct MessageQueue.
Queue == [next_expected_nonce : Nonce, queue : SUBSET TransportMessage]

\* u64::wrapping_add(1), and AtomicU64::fetch_add(1) on the sending side.
WrappingAdd1(n) == IF n + 1 = NonceSpace THEN 0 ELSE n + 1

\* MessageQueue::new
New == [next_expected_nonce |-> 0, queue |-> {}]

\* set_connection_message_received panics unless this holds.
AwaitsConnectionMessage(q) == q.next_expected_nonce = 0

\* set_connection_message_received: the next nonce becomes 1.
SetConnectionMessageReceived(q) ==
    [q EXCEPT !.next_expected_nonce = WrappingAdd1(@)]

\* The nonces present in the BTreeSet.  Insertion compares nonces only, so
\* each occurs once.
QueuedNonces(q) == {m.nonce : m \in q.queue}

\* The message that BTreeSet stores under nonce n.
QueuedAt(q, n) == CHOOSE m \in q.queue : m.nonce = n

\* try_push that returns any message whose nonce has not passed yet.
TryPushReturns_SkipsAhead(q, msg) == msg.nonce >= q.next_expected_nonce

\* try_push returns its argument, to be processed now, exactly when this holds.
TryPushReturns(q, msg) == msg.nonce = q.next_expected_nonce

\* try_push that forgets to look for an equal nonce in the queue.
TryPush_KeepsDuplicate(q, msg) ==
    CASE msg.nonce = q.next_expected_nonce ->
            [q EXCEPT !.next_expected_nonce = WrappingAdd1(@)]
      [] msg.nonce < q.next_expected_nonce -> q
      [] OTHER -> [q EXCEPT !.queue = @ \cup {msg}]

\* try_push: the expected nonce advances the queue; a nonce that is too low
\* or already queued is dropped with a warning; any other one is stored.
TryPush(q, msg) ==
    CASE msg.nonce = q.next_expected_nonce ->
            [q EXCEPT !.next_expected_nonce = WrappingAdd1(@)]
      [] \/ msg.nonce < q.next_expected_nonce
         \/ msg.nonce > q.next_expected_nonce /\ msg.nonce \in QueuedNonces(q) -> q
      [] OTHER -> [q EXCEPT !.queue = @ \cup {msg}]

\* pop returns a message exactly when the least queued nonce is the expected one.
CanPop(q) ==
    /\ q.next_expected_nonce \in QueuedNonces(q)
    /\ \A n \in QueuedNonces(q) : q.next_expected_nonce <= n

\* pop that looks at the head without removing it.
Pop_KeepsHead(q) ==
    IF CanPop(q) THEN [q EXCEPT !.next_expected_nonce = WrappingAdd1(@)] ELSE q

\* pop: the head leaves the queue and the expected nonce advances.
Pop(q) ==
    IF CanPop(q)
      THEN [next_expected_nonce |-> WrappingAdd1(q.next_expected_nonce),
            queue |-> {m \in q.queue : m.nonce # q.next_expected_nonce}]
      ELSE q

(***************************************************************************)
(* The callers run  while let Some(msg) = queue.pop()  in one go.  The     *)
(* loop pops the nonces from the expected one up to the first that is      *)
(* missing, so it ends with that one expected.  DrainEnd(q) holds that     *)
(* nonce and nothing else, as long as no nonce wraps around.  This closed  *)
(* form, which proofs can use, is compared with the loop itself in         *)
(* QueueLoop and shown to solve the loop's equations in                    *)
(* MessageQueueProofs.                                                     *)
(***************************************************************************)
DrainEnd(q) ==
    {n \in q.next_expected_nonce .. NonceSpace - 1 :
        /\ \A k \in q.next_expected_nonce .. n - 1 : k \in QueuedNonces(q)
        /\ IF CanPop(q) THEN n \notin QueuedNonces(q)
                        ELSE n = q.next_expected_nonce}

\* The queue after the loop, when it ends at nonce n.
DrainedTo(q, n) ==
    [next_expected_nonce |-> n,
     queue |-> {m \in q.queue : ~ (m.nonce \in q.next_expected_nonce .. n - 1)}]

\* What has been sent on the inbound channel after the loop, given what was before.
DrainOnto(sofar, q, n) ==
    [k \in 1 .. Len(sofar) + (n - q.next_expected_nonce) |->
        IF k <= Len(sofar) THEN sofar[k]
        ELSE QueuedAt(q, q.next_expected_nonce + (k - Len(sofar) - 1)).message]
=============================================================================
