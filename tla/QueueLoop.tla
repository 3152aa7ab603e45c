----------------------------- MODULE QueueLoop ------------------------------
(***************************************************************************)
(* One MessageQueue used the way the transport uses it, by a peer that     *)
(* keeps to no protocol, except that its nonces begin at 1, as every       *)
(* message_nonce does: it may send them in any order, leave some out, and  *)
(* send a nonce again with another payload.  The transport's loop over pop *)
(* takes one step per iteration, so that the application, which may run in *)
(* another thread, can drop the Connection between two of them.            *)
(***************************************************************************)
EXTENDS MessageQueue

CONSTANTS
    None,       \* no payload
    MaxSent     \* bound: the nonces sent are 1 .. MaxSent

ASSUME QueueLoopAssumption ==
    /\ MaxSent \in Nat /\ MaxSent + 1 < NonceSpace
    /\ None \notin Payload

VARIABLES
    q,          \* the queue
    given,      \* the application has the Connection
    alive,      \* the Connection's end of the inbound channel exists
    looping,    \* the transport is in its loop over pop
    handed,     \* the payloads sent on the inbound channel
    first,      \* history: first[n] is the payload that came first with nonce n
    before      \* history: queue and handed when the loop last started

vars == <<q, given, alive, looping, handed, first, before>>

TypeOK ==
    /\ q \in Queue
    /\ given \in BOOLEAN /\ alive \in BOOLEAN /\ looping \in BOOLEAN
    /\ handed \in Seq(Payload)
    /\ first \in [1 .. MaxSent -> Payload \cup {None}]
    /\ before \in [queue : Queue, handed : Seq(Payload)]

Init ==
    /\ q = New
    /\ given = FALSE /\ alive = TRUE /\ looping = FALSE
    /\ handed = <<>>
    /\ first = [n \in 1 .. MaxSent |-> None]
    /\ before = [queue |-> New, handed |-> <<>>]

StartLoop(queue, sent) ==
    /\ q' = queue /\ handed' = sent
    /\ looping' = TRUE
    /\ before' = [queue |-> queue, handed |-> sent]

\* The connection message arrives and the Connection is made.
ConnectionMessage ==
    /\ ~looping /\ AwaitsConnectionMessage(q)
    /\ StartLoop(SetConnectionMessageReceived(q), handed)
    /\ UNCHANGED <<given, alive, first>>

\* The message that try_push returns is sent first.  If that fails there is no loop.
Receive(m) ==
    /\ ~looping
    /\ first' = [first EXCEPT ![m.nonce] = IF @ = None THEN m.message ELSE @]
    /\ IF TryPushReturns(q, m) /\ alive
         THEN StartLoop(TryPush(q, m), Append(handed, m.message))
         ELSE q' = TryPush(q, m) /\ UNCHANGED <<handed, looping, before>>
    /\ UNCHANGED <<given, alive>>

\* An iteration.  If the Connection is gone the popped message is lost and the loop ends.
PopNext ==
    /\ looping /\ CanPop(q)
    /\ q' = Pop(q)
    /\ looping' = alive
    /\ handed' = IF alive THEN Append(handed, QueuedAt(q, q.next_expected_nonce).message)
                          ELSE handed
    /\ UNCHANGED <<given, alive, first, before>>

\* The Connection whose making this loop was part of is handed to the application.
EndLoop ==
    /\ looping /\ ~CanPop(q)
    /\ looping' = FALSE
    /\ given' = TRUE
    /\ UNCHANGED <<q, alive, handed, first, before>>

\* The application drops the Connection.
DropConnection ==
    /\ given /\ alive
    /\ alive' = FALSE
    /\ UNCHANGED <<q, given, looping, handed, first, before>>

Next ==
    \/ ConnectionMessage \/ PopNext \/ EndLoop \/ DropConnection
    \/ \E n \in 1 .. MaxSent, p \in Payload : Receive([nonce |-> n, message |-> p])

Spec == Init /\ [][Next]_vars
-----------------------------------------------------------------------------
\* The closed form that Transport uses is what the loop over pop does: a loop that is
\* not cut short by an InboundSendError ends with the same queue and the same messages
\* sent, whatever the queue held when it started.
DrainIsPopLoop ==
    looping /\ ~CanPop(q) =>
        \E n \in Nonce : /\ DrainEnd(before.queue) = {n}
                         /\ q = DrainedTo(before.queue, n)
                         /\ handed = DrainOnto(before.handed, before.queue, n)

\* try_push and pop never let a later message with a nonce replace an earlier one,
\* nor pass a nonce over or hand one out twice: the k-th message handed to the
\* Connection is the first one that came with nonce k.
FirstArrivalWins == \A k \in 1 .. Len(handed) : handed[k] = first[k]
=============================================================================
