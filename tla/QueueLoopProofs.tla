-------------------------- MODULE QueueLoopProofs ---------------------------
(***************************************************************************)
(* The queue and the loop over pop under any peer whose nonces begin at 1, *)
(* for every number of nonces and every set of payloads.                   *)
(***************************************************************************)
EXTENDS QueueLoop, MessageQueueProofs

(***************************************************************************)
(* The inductive invariant.                                                *)
(***************************************************************************)
Expected == q.next_expected_nonce

\* The queue holds first arrivals.  Those that are to come, it holds all.
StoredInv ==
    /\ Expected <= MaxSent + 1 /\ Len(handed) <= MaxSent
    /\ \A m \in q.queue : m.nonce \in 1 .. MaxSent /\ first[m.nonce] = m.message
    /\ \A n \in 1 .. MaxSent : n >= Expected /\ first[n] # None => n \in QueuedNonces(q)

\* A Connection that is not dropped has got all that is passed, and the queue holds
\* only what is to come; outside the loop not even the next message.
AliveInv ==
    alive =>
        /\ Len(handed) = IF Expected = 0 THEN 0 ELSE Expected - 1
        /\ \A n \in QueuedNonces(q) : n >= Expected
        /\ ~looping => Expected \notin QueuedNonces(q)

\* What is left of the loop ends where the whole loop does.
LoopInv ==
    looping =>
        /\ DrainEnd(q) = DrainEnd(before.queue)
        /\ \A n \in DrainEnd(q) :
              /\ DrainedTo(q, n) = DrainedTo(before.queue, n)
              /\ DrainOnto(handed, q, n) = DrainOnto(before.handed, before.queue, n)

\* try_push, pop and the loop keep the queue, the channel and what came first in step,
\* whatever nonces from 1 on the peer sends and whenever the Connection is dropped.
IndInv == TypeOK /\ StoredInv /\ AliveInv /\ LoopInv /\ FirstArrivalWins

-----------------------------------------------------------------------------
(***************************************************************************)
(* The steps.                                                              *)
(***************************************************************************)

LEMMA InitInv == Init => IndInv
<1> SUFFICES ASSUME Init PROVE IndInv
    OBVIOUS
<1>1. q \in Queue /\ q.next_expected_nonce = 0 /\ q.queue = {}
    BY NewType DEF Init, New
<1>2. QueuedNonces(q) = {}
    BY <1>1 DEF QueuedNonces
<1>3. <<>> \in Seq(Payload) /\ Len(<<>>) = 0
    OBVIOUS
<1>4. MaxSent \in Nat
    BY QueueLoopAssumption
<1>5. TypeOK
    BY <1>1, <1>3, NewType DEF Init, TypeOK
<1>6. StoredInv
    BY <1>1, <1>3, <1>4 DEF Init, StoredInv, Expected
<1>7. AliveInv
    BY <1>1, <1>2, <1>3 DEF Init, AliveInv, Expected
<1>8. LoopInv /\ FirstArrivalWins
    BY <1>3 DEF Init, LoopInv, FirstArrivalWins
<1> QED  BY <1>5, <1>6, <1>7, <1>8 DEF IndInv

\* What the types say of the nonces.
LEMMA NonceFacts ==
    ASSUME TypeOK
    PROVE  /\ Expected \in Nat /\ Expected < NonceSpace
           /\ q.queue \subseteq TransportMessage
           /\ \A n \in QueuedNonces(q) : n \in Nat
           /\ MaxSent \in Nat /\ NonceSpace \in Nat /\ MaxSent + 1 < NonceSpace
BY QueueLoopAssumption, NonceSpaceAssumption
   DEF TypeOK, Queue, Nonce, TransportMessage, QueuedNonces, Expected

\* A loop that has just started has done nothing.
LEMMA LoopStarts ==
    ASSUME NEW queue, NEW sent, StartLoop(queue, sent)
    PROVE  LoopInv'
BY DEF StartLoop, LoopInv

LEMMA ConnectionMessageStep ==
    ASSUME IndInv, ConnectionMessage
    PROVE  IndInv'
<1>1. TypeOK /\ StoredInv /\ AliveInv /\ FirstArrivalWins
    BY DEF IndInv
<1>2. /\ ~looping /\ Expected = 0
      /\ StartLoop(SetConnectionMessageReceived(q), handed)
      /\ UNCHANGED <<given, alive, first>>
    BY DEF ConnectionMessage, AwaitsConnectionMessage, Expected
<1>3. /\ q' = SetConnectionMessageReceived(q) /\ handed' = handed /\ looping' = TRUE
      /\ before' = [queue |-> q', handed |-> handed']
    BY <1>2 DEF StartLoop
<1>4. q' \in Queue /\ Expected' = 1 /\ q'.queue = q.queue
    <2>1. /\ q' \in Queue /\ q'.next_expected_nonce = WrappingAdd1(q.next_expected_nonce)
          /\ q'.queue = q.queue
        BY <1>1, <1>3, SetConnectionMessageReceivedProperties DEF TypeOK
    <2>2. WrappingAdd1(q.next_expected_nonce) = 1
        BY <1>2, NonceSpaceAssumption DEF WrappingAdd1, Expected
    <2> QED  BY <2>1, <2>2 DEF Expected
<1>5. QueuedNonces(q)' = QueuedNonces(q)
    BY <1>4 DEF QueuedNonces
<1>6. MaxSent \in Nat /\ \A n \in QueuedNonces(q) : n \in 1 .. MaxSent
    BY <1>1, QueueLoopAssumption DEF StoredInv, QueuedNonces
<1>7. TypeOK'
    BY <1>1, <1>2, <1>3, <1>4 DEF TypeOK
<1>8. StoredInv'
    <2>1. Expected' <= MaxSent + 1
        BY <1>4, <1>6
    <2>2. \A n \in 1 .. MaxSent : first[n] # None => n \in QueuedNonces(q)
        BY <1>1, <1>2, <1>6 DEF StoredInv
    <2> QED  BY <2>1, <2>2, <1>1, <1>2, <1>3, <1>4, <1>5 DEF StoredInv
<1>9. AliveInv'
    <2>1. alive => Len(handed) = 0
        BY <1>1, <1>2 DEF AliveInv
    <2>2. \A n \in QueuedNonces(q) : n >= 1
        BY <1>6
    <2> QED  BY <2>1, <2>2, <1>2, <1>3, <1>4, <1>5 DEF AliveInv
<1>10. LoopInv'
    BY <1>2, LoopStarts
<1>11. FirstArrivalWins'
    BY <1>1, <1>2, <1>3 DEF FirstArrivalWins
<1> QED  BY <1>7, <1>8, <1>9, <1>10, <1>11 DEF IndInv

LEMMA EndLoopStep ==
    ASSUME IndInv, EndLoop
    PROVE  IndInv'
<1>1. /\ looping /\ ~CanPop(q) /\ looping' = FALSE /\ given' = TRUE
      /\ UNCHANGED <<q, alive, handed, first, before>>
    BY DEF EndLoop
<1>2. (TypeOK /\ StoredInv /\ FirstArrivalWins)'
    BY <1>1 DEF IndInv, TypeOK, StoredInv, FirstArrivalWins, Expected, QueuedNonces
<1>3. AliveInv'
    <2>1. alive => Expected \notin QueuedNonces(q)
        BY <1>1 DEF IndInv, AliveInv, CanPop, Expected
    <2> QED  BY <2>1, <1>1 DEF IndInv, AliveInv, Expected, QueuedNonces
<1>4. LoopInv'
    BY <1>1 DEF LoopInv
<1> QED  BY <1>2, <1>3, <1>4 DEF IndInv

LEMMA DropConnectionStep ==
    ASSUME IndInv, DropConnection
    PROVE  IndInv'
<1>1. alive' = FALSE /\ UNCHANGED <<q, given, looping, handed, first, before>>
    BY DEF DropConnection
<1>2. TypeOK' /\ StoredInv' /\ AliveInv'
    BY <1>1 DEF IndInv, TypeOK, StoredInv, AliveInv, Expected, QueuedNonces
<1>3. LoopInv' /\ FirstArrivalWins'
    BY <1>1 DEF IndInv, LoopInv, FirstArrivalWins, DrainEnd, CanPop, QueuedNonces
<1> QED  BY <1>2, <1>3 DEF IndInv

\* A message more in the channel: it must be the first with the next nonce.
LEMMA HandOver ==
    ASSUME NEW sofar \in Seq(Payload), NEW p \in Payload,
           NEW f, \A k \in 1 .. Len(sofar) : sofar[k] = f[k],
           p = f[Len(sofar) + 1]
    PROVE  /\ Append(sofar, p) \in Seq(Payload)
           /\ Len(Append(sofar, p)) = Len(sofar) + 1
           /\ \A k \in 1 .. Len(sofar) + 1 : Append(sofar, p)[k] = f[k]
<1>1. /\ Append(sofar, p) \in Seq(Payload)
      /\ Len(Append(sofar, p)) = Len(sofar) + 1 /\ Len(sofar) \in Nat
      /\ \A k \in 1 .. Len(sofar) : Append(sofar, p)[k] = sofar[k]
      /\ Append(sofar, p)[Len(sofar) + 1] = p
    BY AppendProperties, LenProperties
<1>2. \A k \in 1 .. Len(sofar) + 1 : k \in 1 .. Len(sofar) \/ k = Len(sofar) + 1
    BY <1>1
<1> QED  BY <1>1, <1>2, Zenon

LEMMA PopNextStep ==
    ASSUME IndInv, PopNext
    PROVE  IndInv'
<1> DEFINE e == q.next_expected_nonce
           p == QueuedAt(q, e).message
<1>1. TypeOK /\ StoredInv /\ AliveInv /\ LoopInv /\ FirstArrivalWins
    BY DEF IndInv
<1>2. /\ looping /\ CanPop(q) /\ q' = Pop(q) /\ looping' = alive
      /\ handed' = IF alive THEN Append(handed, p) ELSE handed
      /\ UNCHANGED <<given, alive, first, before>>
    BY DEF PopNext
<1>3. /\ e \in Nat /\ q \in Queue /\ MaxSent \in Nat /\ NonceSpace \in Nat
      /\ MaxSent + 1 < NonceSpace /\ \A n \in QueuedNonces(q) : n \in Nat
    BY <1>1, NonceFacts DEF TypeOK, Expected
<1>4. /\ e \in QueuedNonces(q) /\ \A n \in QueuedNonces(q) : n >= e
      /\ \A n \in QueuedNonces(q) : n \in 1 .. MaxSent
    BY <1>1, <1>2, <1>3 DEF CanPop, StoredInv, QueuedNonces
<1>5. e >= 1 /\ e <= MaxSent /\ e + 1 < NonceSpace
    BY <1>3, <1>4
<1>6. q' = [next_expected_nonce |-> e + 1, queue |-> {m \in q.queue : m.nonce # e}]
    <2>1. WrappingAdd1(e) = e + 1
        BY <1>3, <1>5 DEF WrappingAdd1
    <2> QED  BY <2>1, <1>2 DEF Pop
<1>7. Expected' = e + 1 /\ q'.queue = {m \in q.queue : m.nonce # e}
    BY <1>6 DEF Expected
<1>8. QueuedNonces(q)' = QueuedNonces(q) \ {e}
    BY <1>7 DEF QueuedNonces
<1>9. p \in Payload /\ p = first[e]
    <2>1. QueuedAt(q, e) \in q.queue /\ p \in Payload /\ QueuedAt(q, e).nonce = e
        BY <1>3, <1>4, QueuedAtProperties
    <2> QED  BY <2>1, <1>1 DEF StoredInv
<1> HIDE DEF p, e
<1>10. alive => Len(handed) + 1 = e
    <2>1. alive => Len(handed) = e - 1
        BY <1>1, <1>5, <1>3 DEF AliveInv, Expected, e
    <2> QED  BY <2>1, <1>3
<1>11. /\ handed' \in Seq(Payload) /\ FirstArrivalWins'
       /\ alive => Len(handed') = e
    <2>1. CASE alive
        <3>1. handed \in Seq(Payload) /\ \A k \in 1 .. Len(handed) : handed[k] = first[k]
            BY <1>1 DEF TypeOK, FirstArrivalWins
        <3>2. Len(handed) + 1 = e /\ p = first[Len(handed) + 1] /\ handed' = Append(handed, p)
            BY <2>1, <1>2, <1>9, <1>10
        <3>3. /\ handed' \in Seq(Payload) /\ Len(handed') = Len(handed) + 1
              /\ \A k \in 1 .. Len(handed) + 1 : handed'[k] = first[k]
            BY <3>1, <3>2, <1>9, HandOver, Zenon
        <3> QED  BY <3>2, <3>3, <1>2 DEF FirstArrivalWins
    <2>2. CASE ~alive
        BY <2>2, <1>1, <1>2 DEF TypeOK, FirstArrivalWins
    <2> QED  BY <2>1, <2>2
<1>12. TypeOK'
    <2>1. q' \in Queue
        BY <1>3, <1>5, <1>6 DEF Queue, Nonce
    <2> QED  BY <2>1, <1>1, <1>2, <1>11 DEF TypeOK
<1>13. StoredInv'
    <2>1. Expected' <= MaxSent + 1 /\ Len(handed') <= MaxSent
        BY <1>1, <1>2, <1>3, <1>5, <1>7, <1>11 DEF StoredInv
    <2>2. \A m \in q'.queue : m.nonce \in 1 .. MaxSent /\ first[m.nonce] = m.message
        BY <1>1, <1>7 DEF StoredInv
    <2>3. ASSUME NEW n \in 1 .. MaxSent, n >= e + 1, first[n] # None
          PROVE  n \in QueuedNonces(q) \ {e}
        <3>1. n >= e /\ n # e
            BY <2>3, <1>3
        <3> QED  BY <3>1, <2>3, <1>1 DEF StoredInv, Expected, e
    <2> QED  BY <2>1, <2>2, <2>3, <1>2, <1>7, <1>8 DEF StoredInv
<1>14. AliveInv'
    <2>1. \A n \in QueuedNonces(q) \ {e} : n >= e + 1
        BY <1>3, <1>4
    <2>2. alive => Len(handed') = (e + 1) - 1 /\ e + 1 # 0
        BY <1>3, <1>11
    <2> QED  BY <2>1, <2>2, <1>2, <1>7, <1>8 DEF AliveInv
<1>15. LoopInv'
    <2> SUFFICES ASSUME alive PROVE LoopInv'
        BY <1>2 DEF LoopInv
    <2>1. handed' = Append(handed, p) /\ handed \in Seq(Payload)
        BY <1>1, <1>2 DEF TypeOK
    <2>2. /\ DrainEnd(q) = DrainEnd(q')
          /\ \A n \in DrainEnd(q) :
               /\ DrainedTo(q, n) = DrainedTo(q', n)
               /\ DrainOnto(handed, q, n) = DrainOnto(handed', q', n)
        BY <1>2, <1>3, <1>5, <2>1, LoopGoesOn DEF p, e
    <2>3. DrainEnd(q)' = DrainEnd(q') /\ \A n : DrainedTo(q, n)' = DrainedTo(q', n)
                                     /\ DrainOnto(handed, q, n)' = DrainOnto(handed', q', n)
        BY DEF DrainEnd, DrainedTo, DrainOnto, CanPop, QueuedNonces, QueuedAt
    <2> QED  BY <2>2, <2>3, <1>1, <1>2 DEF LoopInv
<1> QED  BY <1>11, <1>12, <1>13, <1>14, <1>15 DEF IndInv

\* first changes only where nothing had come.
LEMMA FirstAfter ==
    ASSUME TypeOK, NEW n \in 1 .. MaxSent, NEW p \in Payload,
           first' = [first EXCEPT ![n] = IF @ = None THEN p ELSE @]
    PROVE  /\ first' \in [1 .. MaxSent -> Payload \cup {None}]
           /\ \A k \in 1 .. MaxSent : k # n \/ first[k] # None => first'[k] = first[k]
           /\ first[n] = None => first'[n] = p
<1>1. first \in [1 .. MaxSent -> Payload \cup {None}]
    BY DEF TypeOK
<1> QED  BY <1>1

LEMMA ReceiveStep ==
    ASSUME IndInv, NEW n \in 1 .. MaxSent, NEW p \in Payload,
           Receive([nonce |-> n, message |-> p])
    PROVE  IndInv'
<1> DEFINE m == [nonce |-> n, message |-> p]
           e == q.next_expected_nonce
<1>1. TypeOK /\ StoredInv /\ AliveInv /\ LoopInv /\ FirstArrivalWins
    BY DEF IndInv
<1>2. /\ ~looping /\ UNCHANGED <<given, alive>>
      /\ first' = [first EXCEPT ![n] = IF @ = None THEN p ELSE @]
      /\ IF TryPushReturns(q, m) /\ alive
           THEN StartLoop(TryPush(q, m), Append(handed, p))
           ELSE q' = TryPush(q, m) /\ UNCHANGED <<handed, looping, before>>
    BY DEF Receive
<1>3. q' = TryPush(q, m)
    BY <1>2 DEF StartLoop
<1>4. /\ e \in Nat /\ q \in Queue /\ MaxSent \in Nat /\ NonceSpace \in Nat
      /\ MaxSent + 1 < NonceSpace /\ n \in Nat /\ n >= 1 /\ n <= MaxSent
      /\ \A k \in QueuedNonces(q) : k \in 1 .. MaxSent
    BY <1>1, NonceFacts DEF TypeOK, Expected, StoredInv, QueuedNonces
<1>5. m \in TransportMessage /\ m.nonce = n /\ m.message = p
    BY <1>4 DEF TransportMessage, Nonce
<1>6. /\ first' \in [1 .. MaxSent -> Payload \cup {None}]
      /\ \A k \in 1 .. MaxSent : k # n \/ first[k] # None => first'[k] = first[k]
      /\ first[n] = None => first'[n] = p
    BY <1>1, <1>2, FirstAfter
<1>7. /\ q' \in Queue
      /\ n = e => Expected' = e + 1 /\ q'.queue = q.queue
      /\ n < e => q' = q
      /\ n > e /\ n \in QueuedNonces(q) => q' = q
      /\ n > e /\ n \notin QueuedNonces(q) => Expected' = e /\ q'.queue = q.queue \cup {m}
    <2>1. q' \in Queue
        BY <1>3, <1>4, <1>5, TryPushProperties
    <2>2. n = e => TryPush(q, m) = [q EXCEPT !.next_expected_nonce = e + 1]
        BY <1>4, <1>5 DEF TryPush, WrappingAdd1
    <2>3. n < e \/ (n > e /\ n \in QueuedNonces(q)) => TryPush(q, m) = q
        BY <1>4, <1>5 DEF TryPush
    <2>4. n > e /\ n \notin QueuedNonces(q) => TryPush(q, m) = [q EXCEPT !.queue = @ \cup {m}]
        BY <1>4, <1>5 DEF TryPush
    <2> HIDE DEF m
    <2>5. n = e => Expected' = e + 1 /\ q'.queue = q.queue
        BY <2>2, <1>3, <1>4 DEF Queue, Expected
    <2>6. n > e /\ n \notin QueuedNonces(q) => Expected' = e /\ q'.queue = q.queue \cup {m}
        BY <2>4, <1>3, <1>4 DEF Queue, Expected
    <2>7. n < e \/ (n > e /\ n \in QueuedNonces(q)) => q' = q
        BY <2>3, <1>3
    <2> HIDE DEF e
    <2> QED  BY <2>1, <2>5, <2>6, <2>7
<1> HIDE DEF m
<1>8. TryPushReturns(q, m) <=> n = e
    BY <1>5 DEF TryPushReturns
<1>9. \A k \in 1 .. MaxSent : first[k] = None => ~(k \in QueuedNonces(q))
    <2>1. \A x \in q.queue : x.message \in Payload
        BY <1>4 DEF Queue, TransportMessage
    <2> QED  BY <2>1, <1>1, QueueLoopAssumption DEF StoredInv, QueuedNonces
\* What was handed over stays what came first.
<1>10. \A k \in 1 .. Len(handed) : handed[k] = first'[k]
    <2>1. \A k \in 1 .. Len(handed) : handed[k] \in Payload
        BY <1>1, ElementOfSeq DEF TypeOK
    <2>2. \A k \in 1 .. Len(handed) : k \in 1 .. MaxSent
        <3>1. Len(handed) \in Nat /\ Len(handed) <= MaxSent
            BY <1>1, LenProperties DEF TypeOK, StoredInv
        <3> QED  BY <3>1, <1>4
    <2> QED  BY <2>1, <2>2, <1>1, <1>6, QueueLoopAssumption DEF FirstArrivalWins
\* The message that is handed over at once is the first with its nonce.
<1>11. ASSUME n = e, alive PROVE first[n] = None /\ Len(handed) + 1 = n
    <2>1. Expected \notin QueuedNonces(q) /\ Len(handed) = e - 1
        BY <1>1, <1>2, <1>4, <1>11 DEF AliveInv, Expected
    <2>2. n >= Expected /\ n \notin QueuedNonces(q)
        BY <2>1, <1>4, <1>11 DEF Expected
    <2>3. first[n] = None
        BY <2>2, <1>1 DEF StoredInv
    <2> QED  BY <2>1, <2>3, <1>4, <1>11
<1>12. /\ handed' \in Seq(Payload) /\ FirstArrivalWins'
       /\ Len(handed') = IF n = e /\ alive THEN Len(handed) + 1 ELSE Len(handed)
    <2>1. CASE n = e /\ alive
        <3>1. handed' = Append(handed, p) /\ handed \in Seq(Payload)
            BY <2>1, <1>1, <1>2, <1>8 DEF StartLoop, TypeOK
        <3>2. p = first'[Len(handed) + 1]
            BY <2>1, <1>6, <1>11
        <3>3. PICK f : f = first'
            OBVIOUS
        <3>4. p = f[Len(handed) + 1] /\ \A k \in 1 .. Len(handed) : handed[k] = f[k]
            BY <3>2, <3>3, <1>10
        <3>5. /\ handed' \in Seq(Payload) /\ Len(handed') = Len(handed) + 1
              /\ \A k \in 1 .. Len(handed) + 1 : handed'[k] = f[k]
            BY <3>1, <3>4, HandOver
        <3> QED  BY <2>1, <3>3, <3>5 DEF FirstArrivalWins
    <2>2. CASE ~(n = e /\ alive)
        BY <2>2, <1>1, <1>2, <1>8, <1>10 DEF TypeOK, FirstArrivalWins
    <2> QED  BY <2>1, <2>2
<1>13. TypeOK' /\ LoopInv'
    <2>1. CASE n = e /\ alive
        <3>1. StartLoop(q', handed')
            BY <2>1, <1>2, <1>8 DEF StartLoop
        <3>2. /\ looping' = TRUE /\ before' = [queue |-> q', handed |-> handed']
            BY <3>1 DEF StartLoop
        <3>3. LoopInv'
            BY <3>2 DEF LoopInv
        <3> QED  BY <3>2, <3>3, <1>1, <1>2, <1>6, <1>7, <1>12 DEF TypeOK
    <2>2. CASE ~(n = e /\ alive)
        <3>1. UNCHANGED <<handed, looping, before>>
            BY <2>2, <1>2, <1>8
        <3> QED  BY <3>1, <1>1, <1>2, <1>6, <1>7, <1>12 DEF TypeOK, LoopInv
    <2> QED  BY <2>1, <2>2
<1>14. QueuedNonces(q)' = {x.nonce : x \in q'.queue}
    BY DEF QueuedNonces
<1>15. QueuedNonces(q)' = IF n > e THEN QueuedNonces(q) \cup {n} ELSE QueuedNonces(q)
    <2>1. CASE n > e /\ n \notin QueuedNonces(q)
        BY <2>1, <1>5, <1>7, <1>14 DEF QueuedNonces
    <2>2. CASE ~(n > e /\ n \notin QueuedNonces(q))
        <3>1. q'.queue = q.queue
            BY <2>2, <1>4, <1>7
        <3> QED  BY <2>2, <3>1, <1>14 DEF QueuedNonces
    <2> QED  BY <2>1, <2>2
<1>16. StoredInv'
    <2>1. Expected' <= MaxSent + 1 /\ Expected' \in Nat /\ Expected' >= e
        BY <1>1, <1>4, <1>7 DEF StoredInv, Expected
    <2>4. Len(handed') <= MaxSent
        BY <1>1, <1>4, <1>11, <1>12 DEF StoredInv
    <2>2. ASSUME NEW x \in q'.queue
          PROVE  x.nonce \in 1 .. MaxSent /\ first'[x.nonce] = x.message
        <3>1. CASE x \in q.queue
            <4>1. x.message \in Payload /\ x.nonce \in 1 .. MaxSent /\ first[x.nonce] = x.message
                BY <3>1, <1>1, <1>4 DEF StoredInv, Queue, TransportMessage
            <4> QED  BY <4>1, <1>6, QueueLoopAssumption
        <3>2. CASE x \notin q.queue
            <4>1. x = m /\ n > e /\ n \notin QueuedNonces(q)
                BY <2>2, <3>2, <1>4, <1>7
            <4>2. first[n] = None
                BY <4>1, <1>1, <1>4 DEF StoredInv, Expected
            <4> QED  BY <4>1, <4>2, <1>5, <1>6
        <3> QED  BY <3>1, <3>2
    <2>3. ASSUME NEW k \in 1 .. MaxSent, k >= Expected', first'[k] # None
          PROVE  k \in QueuedNonces(q)'
        <3>1. k >= e
            BY <2>1, <2>3, <1>4
        <3>2. CASE k = n
            <4>1. n # e
                BY <2>3, <3>2, <1>4, <1>7
            <4>2. n > e
                BY <3>1, <3>2, <4>1, <1>4
            <4> QED  BY <3>2, <4>2, <1>15
        <3>3. CASE k # n
            <4>1. first[k] # None
                BY <2>3, <3>3, <1>6
            <4>2. k \in QueuedNonces(q)
                BY <3>1, <4>1, <1>1 DEF StoredInv, Expected
            <4> QED  BY <4>2, <1>15
        <3> QED  BY <3>2, <3>3
    <2> QED  BY <2>1, <2>2, <2>3, <2>4 DEF StoredInv
<1>17. AliveInv'
    <2> SUFFICES ASSUME alive PROVE AliveInv'
        BY <1>2 DEF AliveInv
    <2>1. /\ Len(handed) = IF e = 0 THEN 0 ELSE e - 1
          /\ \A k \in QueuedNonces(q) : k >= e
          /\ e \notin QueuedNonces(q)
        BY <1>1, <1>2 DEF AliveInv, Expected
    <2>2. CASE n = e
        <3>1. Expected' = e + 1 /\ looping' = TRUE /\ QueuedNonces(q)' = QueuedNonces(q)
            BY <2>2, <1>2, <1>4, <1>7, <1>8, <1>15 DEF StartLoop
        <3>2. Len(handed') = n /\ e + 1 # 0 /\ (e + 1) - 1 = n
            BY <2>2, <1>4, <1>11, <1>12
        <3>3. \A k \in QueuedNonces(q) : k >= e + 1
            BY <2>1, <1>4
        <3> QED  BY <3>1, <3>2, <3>3 DEF AliveInv
    <2>3. CASE n # e
        <3>1. Expected' = e /\ handed' = handed /\ looping' = looping
            BY <2>3, <1>2, <1>4, <1>7, <1>8 DEF Expected
        <3>2. \A k \in QueuedNonces(q)' : k >= e /\ k # e
            BY <2>1, <2>3, <1>4, <1>15
        <3> QED  BY <2>1, <3>1, <3>2 DEF AliveInv
    <2> QED  BY <2>2, <2>3
<1> QED  BY <1>12, <1>13, <1>16, <1>17 DEF IndInv

-----------------------------------------------------------------------------
(***************************************************************************)
(* The theorems.                                                           *)
(***************************************************************************)

\* The invariant holds whatever nonces from 1 on the peer sends, in which order and how
\* often, and whenever the Connection is dropped.
THEOREM IndInvariant == Spec => []IndInv
<1>1. IndInv /\ [Next]_vars => IndInv'
    <2> SUFFICES ASSUME IndInv, [Next]_vars PROVE IndInv'
        OBVIOUS
    <2>1. CASE UNCHANGED vars
        <3>1. UNCHANGED <<q, given, alive, looping, handed, first, before>>
            BY <2>1 DEF vars
        <3>2. TypeOK'
            BY <3>1 DEF IndInv, TypeOK
        <3>3. StoredInv' /\ AliveInv' /\ FirstArrivalWins'
            BY <3>1 DEF IndInv, StoredInv, AliveInv, FirstArrivalWins, Expected, QueuedNonces
        <3>4. LoopInv'
            BY <3>1, Zenon DEF IndInv, LoopInv
        <3> QED  BY <3>2, <3>3, <3>4 DEF IndInv
    <2>2. CASE Next
        BY <2>2, ConnectionMessageStep, PopNextStep, EndLoopStep, DropConnectionStep,
           ReceiveStep DEF Next
    <2> QED  BY <2>1, <2>2
<1> QED  BY <1>1, InitInv, PTL DEF Spec

\* The fields of the queue and of the loop keep their types.
THEOREM TypeCorrect == Spec => []TypeOK
<1>1. IndInv => TypeOK
    BY DEF IndInv
<1> QED  BY <1>1, IndInvariant, PTL

\* The closed form of the loop over pop is what the loop does, for every queue that a
\* peer can bring about.
THEOREM DrainIsPopLoopTheorem == Spec => []DrainIsPopLoop
<1>1. IndInv => DrainIsPopLoop
    <2> SUFFICES ASSUME IndInv, looping, ~CanPop(q) PROVE DrainIsPopLoop
        BY DEF DrainIsPopLoop
    <2> DEFINE e == q.next_expected_nonce
    <2>1. q \in Queue /\ handed \in Seq(Payload) /\ e \in Nonce
        BY DEF IndInv, TypeOK, Queue
    <2>2. DrainEnd(q) = {e} /\ DrainedTo(q, e) = q /\ DrainOnto(handed, q, e) = handed
        BY <2>1, LoopStops
    <2>3. /\ DrainEnd(before.queue) = {e}
          /\ q = DrainedTo(before.queue, e)
          /\ handed = DrainOnto(before.handed, before.queue, e)
        BY <2>2 DEF IndInv, LoopInv
    <2> QED  BY <2>1, <2>3 DEF DrainIsPopLoop
<1> QED  BY <1>1, IndInvariant, PTL

\* The Connection gets, in the order of the nonces, the first message that came with each,
\* also from a peer that repeats nonces, skips them or sends other payloads with them.
THEOREM FirstArrivalWinsTheorem == Spec => []FirstArrivalWins
<1>1. IndInv => FirstArrivalWins
    BY DEF IndInv
<1> QED  BY <1>1, IndInvariant, PTL
=============================================================================
