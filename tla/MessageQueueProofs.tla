------------------------- MODULE MessageQueueProofs -------------------------
(***************************************************************************)
(* Facts about the operations of the reordering queue, for every payload   *)
(* and every size of nonce.                                                *)
(***************************************************************************)
EXTENDS MessageQueue, SequenceTheorems, TLAPS

\* The message that the BTreeSet stores under a nonce is one of its messages.
LEMMA QueuedAtProperties ==
    ASSUME NEW q \in Queue, NEW n \in QueuedNonces(q)
    PROVE  /\ QueuedAt(q, n) \in q.queue
           /\ QueuedAt(q, n) \in TransportMessage
           /\ QueuedAt(q, n) = [nonce |-> n, message |-> QueuedAt(q, n).message]
           /\ QueuedAt(q, n).message \in Payload
<1>1. PICK m \in q.queue : m.nonce = n
  BY DEF QueuedNonces
<1>2. QueuedAt(q, n) \in q.queue /\ QueuedAt(q, n).nonce = n
  BY <1>1 DEF QueuedAt
<1>3. QueuedAt(q, n) \in TransportMessage
  BY <1>2 DEF Queue
<1> QED
  BY <1>2, <1>3 DEF TransportMessage

\* A nonce after the one just passed: as long as the counter does not wrap.
LEMMA WrappingAdd1Type ==
    ASSUME NEW n \in Nonce
    PROVE  WrappingAdd1(n) \in Nonce /\ (n + 1 < NonceSpace => WrappingAdd1(n) = n + 1)
BY NonceSpaceAssumption DEF Nonce, WrappingAdd1

\* MessageQueue::new makes a queue.
LEMMA NewType == New \in Queue
BY NonceSpaceAssumption DEF New, Queue, Nonce

\* set_connection_message_received makes a queue of a queue and keeps its messages.
LEMMA SetConnectionMessageReceivedProperties ==
    ASSUME NEW q \in Queue
    PROVE  LET r == SetConnectionMessageReceived(q)
           IN  /\ r \in Queue
               /\ r.next_expected_nonce = WrappingAdd1(q.next_expected_nonce)
               /\ r.queue = q.queue
<1>1. q.next_expected_nonce \in Nonce /\ q.queue \in SUBSET TransportMessage
  BY DEF Queue
<1>2. WrappingAdd1(q.next_expected_nonce) \in Nonce
  BY <1>1, WrappingAdd1Type
<1> QED
  BY <1>1, <1>2 DEF SetConnectionMessageReceived, Queue

\* try_push makes a queue of a queue.  It returns its argument, advances and stores
\* nothing, or it stays where it is and stores at most its argument, if that is
\* still to come.
LEMMA TryPushProperties ==
    ASSUME NEW q \in Queue, NEW m \in TransportMessage
    PROVE  LET r == TryPush(q, m)
           IN  /\ r \in Queue
               /\ TryPushReturns(q, m) =>
                     /\ r.next_expected_nonce = WrappingAdd1(q.next_expected_nonce)
                     /\ r.queue = q.queue
               /\ ~ TryPushReturns(q, m) =>
                     /\ r.next_expected_nonce = q.next_expected_nonce
                     /\ \/ r.queue = q.queue
                        \/ r.queue = q.queue \cup {m} /\ m.nonce > q.next_expected_nonce
<1>1. q.next_expected_nonce \in Nonce /\ q.queue \in SUBSET TransportMessage
  BY DEF Queue
<1>2. m.nonce \in Nonce
  BY DEF TransportMessage
<1>3. WrappingAdd1(q.next_expected_nonce) \in Nonce
  BY <1>1, WrappingAdd1Type
<1>4. CASE TryPushReturns(q, m)
  <2>1. TryPush(q, m) = [q EXCEPT !.next_expected_nonce = WrappingAdd1(@)]
    BY <1>1, <1>2, <1>4, NonceSpaceAssumption DEF TryPush, TryPushReturns, Nonce
  <2> QED
    BY <1>1, <1>3, <1>4, <2>1 DEF Queue
<1>5. CASE ~ TryPushReturns(q, m)
  <2>1. \/ TryPush(q, m) = q
        \/ m.nonce > q.next_expected_nonce /\ TryPush(q, m) = [q EXCEPT !.queue = @ \cup {m}]
    BY <1>1, <1>2, <1>5, NonceSpaceAssumption DEF TryPush, TryPushReturns, Nonce
  <2> QED
    BY <1>1, <1>5, <2>1 DEF Queue
<1> QED
  BY <1>4, <1>5

\* What the drain loop does: from a queue whose messages are all still to come, it
\* ends at a nonce that is not queued, it hands over the queued messages from the
\* expected nonce up to that one in order, and keeps the later ones.
LEMMA DrainProperties ==
    ASSUME NEW q \in Queue, NEW n \in DrainEnd(q), NEW sofar \in Seq(Payload),
           \A m \in q.queue : m.nonce >= q.next_expected_nonce
    PROVE  /\ n \in Nonce
           /\ n >= q.next_expected_nonce
           /\ DrainedTo(q, n) \in Queue
           /\ DrainedTo(q, n).next_expected_nonce = n
           /\ DrainedTo(q, n).queue \subseteq q.queue
           /\ \A m \in DrainedTo(q, n).queue : m.nonce > n
           /\ DrainOnto(sofar, q, n) \in Seq(Payload)
           /\ Len(DrainOnto(sofar, q, n)) = Len(sofar) + (n - q.next_expected_nonce)
           /\ \A k \in 1 .. Len(sofar) : DrainOnto(sofar, q, n)[k] = sofar[k]
           /\ \A k \in Len(sofar) + 1 .. Len(sofar) + (n - q.next_expected_nonce) :
                 [nonce |-> q.next_expected_nonce + (k - Len(sofar) - 1),
                  message |-> DrainOnto(sofar, q, n)[k]] \in q.queue
<1> DEFINE e == q.next_expected_nonce
           len == Len(sofar) + (n - e)
           at(k) == QueuedAt(q, e + (k - Len(sofar) - 1))
<1>1. e \in Nat /\ e < NonceSpace /\ NonceSpace \in Nat /\ q.queue \subseteq TransportMessage
  BY NonceSpaceAssumption DEF Queue, Nonce
<1>2. /\ n \in e .. NonceSpace - 1
      /\ \A k \in e .. n - 1 : k \in QueuedNonces(q)
      /\ CanPop(q) => n \notin QueuedNonces(q)
      /\ ~ CanPop(q) => n = e
  BY DEF DrainEnd
<1>3. n \in Nat /\ n \in Nonce /\ n >= e
  BY <1>1, <1>2 DEF Nonce
<1>4. \A m \in q.queue : m.nonce \in Nat
  BY <1>1 DEF TransportMessage, Nonce
<1>5. n \notin QueuedNonces(q)
  <2>1. CASE CanPop(q)
    BY <1>2, <2>1
  <2>2. CASE ~ CanPop(q)
    BY <1>2, <2>2 DEF CanPop, QueuedNonces
  <2> QED
    BY <2>1, <2>2
<1>6. /\ DrainedTo(q, n) \in Queue
      /\ DrainedTo(q, n).next_expected_nonce = n
      /\ DrainedTo(q, n).queue = {m \in q.queue : ~ (m.nonce \in e .. n - 1)}
  BY <1>1, <1>3 DEF DrainedTo, Queue
<1>7. ASSUME NEW m \in DrainedTo(q, n).queue PROVE m.nonce > n
  <2>1. m \in q.queue /\ ~ (m.nonce \in e .. n - 1) /\ m.nonce >= e /\ m.nonce \in Nat
    BY <1>4, <1>6
  <2>2. m.nonce # n
    BY <1>5, <2>1 DEF QueuedNonces
  <2> QED
    BY <1>1, <1>3, <2>1, <2>2
<1>8. Len(sofar) \in Nat /\ len \in Nat /\ sofar \in [1 .. Len(sofar) -> Payload]
  BY <1>1, <1>3, LenProperties
<1>9. ASSUME NEW k \in Len(sofar) + 1 .. len
      PROVE  /\ at(k) = [nonce |-> e + (k - Len(sofar) - 1), message |-> at(k).message]
             /\ at(k) \in q.queue
             /\ at(k).message \in Payload
  <2>1. e + (k - Len(sofar) - 1) \in e .. n - 1
    BY <1>1, <1>3, <1>8, SMTT(30)
  <2>2. e + (k - Len(sofar) - 1) \in QueuedNonces(q)
    BY <1>2, <2>1
  <2> QED
    BY <2>2, QueuedAtProperties
<1> HIDE DEF at
<1>10. DrainOnto(sofar, q, n) =
          [k \in 1 .. len |-> IF k <= Len(sofar) THEN sofar[k] ELSE at(k).message]
  BY DEF DrainOnto, at
<1>11. ASSUME NEW k \in 1 .. len
       PROVE  (IF k <= Len(sofar) THEN sofar[k] ELSE at(k).message) \in Payload
  <2>1. CASE k <= Len(sofar)
    BY <1>8, <2>1
  <2>2. CASE ~ (k <= Len(sofar))
    BY <1>8, <1>9, <2>2
  <2> QED
    BY <2>1, <2>2
<1>12. DrainOnto(sofar, q, n) \in [1 .. len -> Payload]
  BY <1>10, <1>11
<1> HIDE DEF len
<1>13. DrainOnto(sofar, q, n) \in Seq(Payload) /\ Len(DrainOnto(sofar, q, n)) = len
  BY <1>8, <1>12, IsASeq, LenProperties
<1> USE DEF len
<1>14. \A k \in 1 .. Len(sofar) : DrainOnto(sofar, q, n)[k] = sofar[k]
  BY <1>1, <1>3, <1>8, <1>10
<1>15. ASSUME NEW k \in Len(sofar) + 1 .. len
       PROVE  [nonce |-> e + (k - Len(sofar) - 1), message |-> DrainOnto(sofar, q, n)[k]] \in q.queue
  <2>1. DrainOnto(sofar, q, n)[k] = at(k).message
    BY <1>8, <1>10
  <2> QED
    BY <1>9, <2>1
<1> QED
  BY <1>3, <1>6, <1>7, <1>13, <1>14, <1>15 DEF at

-----------------------------------------------------------------------------
(***************************************************************************)
(* The closed form is a solution of the loop's own two equations: what the *)
(* loop does when pop returns nothing, and what it does after one pop.  So *)
(* a loop that ends, after however many pops, ends with its result.        *)
(***************************************************************************)

\* When pop returns nothing the loop ends at once and changes nothing.
THEOREM LoopStops ==
    ASSUME NEW q \in Queue, NEW sofar \in Seq(Payload), ~CanPop(q)
    PROVE  /\ DrainEnd(q) = {q.next_expected_nonce}
           /\ DrainedTo(q, q.next_expected_nonce) = q
           /\ DrainOnto(sofar, q, q.next_expected_nonce) = sofar
<1> DEFINE e == q.next_expected_nonce
<1>1. /\ e \in Nat /\ e <= NonceSpace - 1 /\ NonceSpace \in Nat
      /\ q = [next_expected_nonce |-> e, queue |-> q.queue]
    BY NonceSpaceAssumption DEF Queue, Nonce
<1>2. e .. e - 1 = {}
    BY <1>1
<1>3. DrainEnd(q) = {e}
    BY <1>1, <1>2 DEF DrainEnd
<1>4. DrainedTo(q, e) = q
    <2>1. {m \in q.queue : ~(m.nonce \in e .. e - 1)} = q.queue
        BY <1>2
    <2> QED  BY <2>1, <1>1 DEF DrainedTo
<1>5. DrainOnto(sofar, q, e) = sofar
    <2>1. Len(sofar) \in Nat /\ Len(sofar) + (e - e) = Len(sofar)
        BY <1>1, LenProperties
    <2>2. sofar = [k \in 1 .. Len(sofar) |-> sofar[k]]
        BY LenProperties
    <2> QED  BY <2>1, <2>2 DEF DrainOnto
<1> QED  BY <1>3, <1>4, <1>5

\* When pop returns a message, the loop sends it and goes on with the queue that pop leaves.
THEOREM LoopGoesOn ==
    ASSUME NEW q \in Queue, NEW sofar \in Seq(Payload), CanPop(q),
           q.next_expected_nonce + 1 < NonceSpace
    PROVE  /\ DrainEnd(q) = DrainEnd(Pop(q))
           /\ \A n \in DrainEnd(q) :
                /\ DrainedTo(q, n) = DrainedTo(Pop(q), n)
                /\ DrainOnto(sofar, q, n) =
                      DrainOnto(Append(sofar, QueuedAt(q, q.next_expected_nonce).message), Pop(q), n)
<1> DEFINE e == q.next_expected_nonce
           r == Pop(q)
           head == QueuedAt(q, e).message
           more == Append(sofar, head)
           l == Len(sofar)
<1>1. e \in Nat /\ NonceSpace \in Nat /\ e + 1 <= NonceSpace - 1
    BY NonceSpaceAssumption DEF Queue, Nonce
<1>2. \A m \in q.queue : m.nonce \in Nat
    BY DEF Queue, TransportMessage, Nonce
<1>3. r = [next_expected_nonce |-> e + 1, queue |-> {m \in q.queue : m.nonce # e}]
    <2>1. WrappingAdd1(e) = e + 1
        BY <1>1 DEF WrappingAdd1
    <2> QED  BY <2>1 DEF Pop
<1>4. r.next_expected_nonce = e + 1 /\ r.queue = {m \in q.queue : m.nonce # e}
    BY <1>3
<1>5. /\ e \in QueuedNonces(q) /\ \A n \in QueuedNonces(q) : e <= n /\ n \in Nat
      /\ QueuedNonces(r) = QueuedNonces(q) \ {e}
    BY <1>2, <1>4 DEF CanPop, QueuedNonces
<1>6. CanPop(r) <=> e + 1 \in QueuedNonces(q)
    BY <1>1, <1>4, <1>5 DEF CanPop
<1> DEFINE N == QueuedNonces(q)
<1>7. DrainEnd(q) = {n \in e .. NonceSpace - 1 : (\A k \in e .. n - 1 : k \in N) /\ n \notin N}
    BY DEF DrainEnd
<1>8. DrainEnd(r) = {n \in e + 1 .. NonceSpace - 1 :
                        /\ \A k \in e + 1 .. n - 1 : k \in N \ {e}
                        /\ IF e + 1 \in N THEN n \notin N \ {e} ELSE n = e + 1}
    BY <1>4, <1>5, <1>6 DEF DrainEnd
<1> HIDE DEF r, e
<1>9. DrainEnd(q) = DrainEnd(r)
    <2> HIDE DEF N
    <2>1. ASSUME NEW n \in DrainEnd(q) PROVE n \in DrainEnd(r)
        <3>1. /\ n \in e .. NonceSpace - 1 /\ n \notin N
              /\ \A k \in e .. n - 1 : k \in N
            BY <1>7, <2>1
        <3>2. n \in e + 1 .. NonceSpace - 1
            BY <3>1, <1>1, <1>5 DEF N
        <3>3. \A k \in e + 1 .. n - 1 : k \in N \ {e}
            BY <3>1, <1>1
        <3>4. e + 1 \notin N => n = e + 1
            BY <3>1, <3>2, <1>1
        <3> QED  BY <3>1, <3>2, <3>3, <3>4, <1>8
    <2>2. ASSUME NEW n \in DrainEnd(r) PROVE n \in DrainEnd(q)
        <3>1. /\ n \in e + 1 .. NonceSpace - 1
              /\ \A k \in e + 1 .. n - 1 : k \in N
              /\ IF e + 1 \in N THEN n \notin N \ {e} ELSE n = e + 1
            BY <1>8, <2>2
        <3>2. n \in e .. NonceSpace - 1 /\ n # e
            BY <3>1, <1>1
        <3>3. \A k \in e .. n - 1 : k \in N
            BY <3>1, <1>1, <1>5 DEF N
        <3>4. n \notin N
            BY <3>1, <3>2
        <3> QED  BY <3>2, <3>3, <3>4, <1>7
    <2> QED  BY <2>1, <2>2
<1>10. ASSUME NEW n \in DrainEnd(q)
       PROVE  /\ DrainedTo(q, n) = DrainedTo(r, n)
              /\ DrainOnto(sofar, q, n) = DrainOnto(more, r, n)
    <2>1. n \in Nat /\ n >= e + 1
        BY <1>1, <1>8, <1>9
    <2>2. DrainedTo(q, n) = DrainedTo(r, n)
        <3>1. {m \in q.queue : ~(m.nonce \in e .. n - 1)} =
                  {m \in r.queue : ~(m.nonce \in e + 1 .. n - 1)}
            BY <2>1, <1>1, <1>2, <1>4
        <3> QED  BY <3>1, <1>4 DEF DrainedTo, e
    <2>3. l \in Nat /\ Len(more) = l + 1 /\ (\A k \in 1 .. l : more[k] = sofar[k]) /\ more[l + 1] = head
        <3>1. head \in Payload
            BY <1>5, QueuedAtProperties DEF e
        <3> HIDE DEF head
        <3> QED  BY <3>1, AppendProperties, LenProperties
    <2>4. \A j : j # e => QueuedAt(r, j) = QueuedAt(q, j)
        BY <1>4 DEF QueuedAt
    <2> HIDE DEF more, head, l
    <2>5. DrainOnto(sofar, q, n) =
              [k \in 1 .. l + (n - e) |->
                  IF k <= l THEN sofar[k] ELSE QueuedAt(q, e + (k - l - 1)).message]
        BY DEF DrainOnto, l, e
    <2>6. DrainOnto(more, r, n) =
              [k \in 1 .. (l + 1) + (n - (e + 1)) |->
                  IF k <= l + 1 THEN more[k] ELSE QueuedAt(r, (e + 1) + (k - (l + 1) - 1)).message]
        BY <2>3, <1>4 DEF DrainOnto
    <2>7. (l + 1) + (n - (e + 1)) = l + (n - e)
        BY <2>1, <2>3, <1>1
    <2>8. ASSUME NEW k \in 1 .. l + (n - e)
          PROVE  (IF k <= l THEN sofar[k] ELSE QueuedAt(q, e + (k - l - 1)).message)
               = (IF k <= l + 1 THEN more[k] ELSE QueuedAt(r, (e + 1) + (k - (l + 1) - 1)).message)
        <3>1. CASE k <= l
            <4>1. k \in 1 .. l /\ k <= l + 1
                BY <3>1, <2>3
            <4> QED  BY <3>1, <4>1, <2>3
        <3>2. CASE k = l + 1
            <4>1. ~(k <= l) /\ k <= l + 1 /\ e + (k - l - 1) = e
                BY <3>2, <2>3, <1>1
            <4> QED  BY <3>2, <4>1, <2>3 DEF head
        <3>3. CASE k > l + 1
            <4>1. /\ ~(k <= l) /\ ~(k <= l + 1)
                  /\ (e + 1) + (k - (l + 1) - 1) = e + (k - l - 1)
                  /\ e + (k - l - 1) # e
                BY <3>3, <2>1, <2>3, <1>1
            <4> QED  BY <4>1, <2>4
        <3> QED  BY <3>1, <3>2, <3>3, <2>1, <2>3, <1>1
    <2>9. DrainOnto(sofar, q, n) = DrainOnto(more, r, n)
        BY <2>5, <2>6, <2>7, <2>8
    <2> QED  BY <2>2, <2>9
<1> QED  BY <1>9, <1>10 DEF r, e
=============================================================================
