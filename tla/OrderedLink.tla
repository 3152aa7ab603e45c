---------------------------- MODULE OrderedLink ----------------------------
(***************************************************************************)
(* What the transport promises to the two ends of a connection: whatever   *)
(* the mixnet does, an end is handed the messages addressed to it in nonce *)
(* order, starting at nonce 1, each exactly once and none skipped.         *)
(*                                                                         *)
(* Transport implements this specification; Connection assumes no more     *)
(* than it.                                                                *)
(***************************************************************************)
EXTENDS Integers, Sequences

CONSTANTS
    Place,      \* the sides that may own an end of a connection
    Link,       \* the connections
    Payload,    \* what a message carries
    MaxNonce    \* bound on the nonces of one end

VARIABLES
    posted,     \* posted[p][l]: the messages sent towards p over l, with their nonces
    inbound     \* inbound[p][l]: the payloads handed over at p, in order

linkVars == <<posted, inbound>>

NoncesPosted(p, l) == {m.nonce : m \in posted[p][l]}

\* The payload posted towards p under nonce n.
PayloadAt(p, l, n) == (CHOOSE m \in posted[p][l] : m.nonce = n).message

Init ==
    /\ posted = [p \in Place |-> [l \in Link |-> {}]]
    /\ inbound = [p \in Place |-> [l \in Link |-> <<>>]]

\* A message is sent under a nonce that no other message towards p has.
Post(p, l) ==
    /\ \E n \in (1 .. MaxNonce) \ NoncesPosted(p, l), x \in Payload :
          posted' = [posted EXCEPT ![p][l] = @ \cup {[nonce |-> n, message |-> x]}]
    /\ UNCHANGED inbound

\* The messages up to some nonce, all of them sent already, have been handed over.
Deliver(p, l) ==
    /\ \E n \in NoncesPosted(p, l) :
          /\ n > Len(inbound[p][l])
          /\ 1 .. n \subseteq NoncesPosted(p, l)
          /\ inbound' = [inbound EXCEPT ![p][l] = [k \in 1 .. n |-> PayloadAt(p, l, k)]]
    /\ UNCHANGED posted

Next == \E p \in Place, l \in Link : Post(p, l) \/ Deliver(p, l)

Spec == Init /\ [][Next]_linkVars
=============================================================================
