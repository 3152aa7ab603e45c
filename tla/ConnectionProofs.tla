-------------------------- MODULE ConnectionProofs --------------------------
(***************************************************************************)
(* The safety properties of Connection, for any substreams, any number of  *)
(* writes and any number of wasted nonces.                                 *)
(***************************************************************************)
EXTENDS Connection, SequenceTheorems, TLAPS

(***************************************************************************)
(* The inductive invariant.                                                *)
(***************************************************************************)
OpenOf(s) == [type |-> "OpenRequest", id |-> s]
DataAt(s, k) == [type |-> "Data", id |-> s, data |-> k]

\* The nonces that e has used, and whether its n-th message is about the substream s.
Nonces(e) == 1 .. Len(sent[e])
About(e, n, s) == sent[e][n] # Hole /\ sent[e][n].id = s

\* A Connection has taken no more than was sent.
HandledInv == \A e \in End : handled[e] <= Len(sent[Other(e)])

\* An end that does not know a substream has said nothing about it; an end that
\* knows it alone has opened it.
KnownInv ==
    \A e \in End, s \in SubstreamId :
        /\ substream[e][s] = "none" => \A n \in Nonces(e) : ~ About(e, n, s)
        /\ substream[e][s] # "none" /\ substream[Other(e)][s] = "none" =>
              \E n \in Nonces(e) : sent[e][n] = OpenOf(s)

\* An OpenRequest is the first that an end says about a substream, and the other
\* end knows the substream exactly when it has taken the OpenRequest.
OpenInv ==
    \A e \in End, s \in SubstreamId : \A n \in Nonces(e) :
        sent[e][n] = OpenOf(s) =>
            /\ \A m \in Nonces(e) : m < n => ~ About(e, m, s)
            /\ substream[Other(e)][s] = "none" <=> handled[Other(e)] < n

\* The substreams that wait for poll_inbound are different ones that nobody holds.
QueuedInv ==
    \A e \in End : \A k \in 1 .. Len(inbound_open[e]) :
        /\ substream[e][inbound_open[e][k]] = "queued"
        /\ \A j \in 1 .. k - 1 : inbound_open[e][j] # inbound_open[e][k]

\* An end that sent a Close has closed its substream and says no more about it.
ClosedInv ==
    \A e \in End, s \in SubstreamId : \A n \in Nonces(e) :
        sent[e][n] = CloseOf(s) =>
            /\ closed[e][s]
            /\ \A m \in Nonces(e) : n < m => ~ About(e, m, s)

\* A Connection keeps the channels of the substreams that it knows and whose Close it
\* has not taken.
Live(e, s) ==
    /\ substream[e][s] # "none"
    /\ \A n \in Nonces(Other(e)) : n <= handled[e] => sent[Other(e)][n] # CloseOf(s)
ChannelInv ==
    \A e \in End, s \in SubstreamId : muxer[e] = "open" =>
        /\ s \in substream_inbound_txs[e] <=> Live(e, s)
        /\ s \in substream_close_txs[e] <=> Live(e, s)

\* The writes on a substream are sent as 1, 2, 3, ...
WriteInv ==
    \A e \in End, s \in SubstreamId :
        /\ \A k \in 1 .. written[e][s] : \E n \in Nonces(e) : sent[e][n] = DataAt(s, k)
        /\ \A n \in Nonces(e), k \in 1 .. MaxData : sent[e][n] = DataAt(s, k) =>
              /\ k <= written[e][s]
              /\ \A m \in Nonces(e), j \in 1 .. MaxData :
                    m < n /\ sent[e][m] = DataAt(s, j) => j < k

\* What an end has taken of the writes on a substream is what was read or waits in the
\* channel, unless the substream was dropped.
Received(e, s) == read[e][s] + Len(inbound_rx[e][s])
DataInv ==
    \A e \in End, s \in SubstreamId : substream[e][s] # "dropped" =>
        \A n \in Nonces(Other(e)), k \in 1 .. MaxData :
            sent[Other(e)][n] = DataAt(s, k) => (n <= handled[e] <=> k <= Received(e, s))

\* What every step of the two ends preserves, however they open, write, close and drop at
\* the same time: the channels of a substream fit what is under way to it.
IndInv ==
    /\ TypeOK /\ HandledInv /\ KnownInv /\ OpenInv /\ QueuedInv /\ ClosedInv /\ ChannelInv
    /\ WriteInv /\ DataInv /\ ReadInOrder /\ NoAlarms
-----------------------------------------------------------------------------
(***************************************************************************)
(* The messages.                                                           *)
(***************************************************************************)

\* There are two ends.
LEMMA Ends ==
    ASSUME NEW e \in End
    PROVE  /\ Other(e) \in End /\ Other(e) # e /\ Other(Other(e)) = e
           /\ \A f \in End : f # e => f = Other(e)
BY DEF End, Other

\* Messages of different types, or about different substreams, are different.
LEMMA Forms ==
    ASSUME NEW s, NEW k
    PROVE  /\ OpenOf(s) # Hole /\ OpenOf(s).id = s /\ OpenOf(s).type = "OpenRequest"
           /\ CloseOf(s) # Hole /\ CloseOf(s).id = s /\ CloseOf(s).type = "Close"
           /\ DataAt(s, k) # Hole /\ DataAt(s, k).id = s /\ DataAt(s, k).type = "Data"
           /\ DataAt(s, k).data = k
           /\ Hole.type = "none"
<1>1. OpenOf(s).type = "OpenRequest" /\ CloseOf(s).type = "Close" /\ DataAt(s, k).type = "Data"
  BY DEF OpenOf, CloseOf, DataAt
<1>2. Hole.type = "none"
  BY DEF Hole
<1>3. OpenOf(s).id = s /\ CloseOf(s).id = s /\ DataAt(s, k).id = s /\ DataAt(s, k).data = k
  BY DEF OpenOf, CloseOf, DataAt
<1>4. OpenOf(s) # Hole /\ CloseOf(s) # Hole /\ DataAt(s, k) # Hole
  BY <1>1, <1>2
<1> QED
  BY <1>1, <1>2, <1>3, <1>4

\* What its type says of a message.
LEMMA MessageForms ==
    ASSUME NEW msg \in Message
    PROVE  /\ msg.id \in SubstreamId
           /\ msg.type = "OpenRequest" => msg = OpenOf(msg.id)
           /\ msg.type = "Close" => msg = CloseOf(msg.id)
           /\ msg.type = "Data" => msg.data \in 1 .. MaxData /\ msg = DataAt(msg.id, msg.data)
           /\ msg.type \in {"OpenRequest", "OpenResponse", "Close", "Data"}
           /\ msg # Hole
<1>1. CASE msg \in [type : {"OpenRequest", "OpenResponse", "Close"}, id : SubstreamId]
  <2>1. msg = [type |-> msg.type, id |-> msg.id]
    BY <1>1
  <2> QED
    BY <1>1, <2>1 DEF OpenOf, CloseOf, Hole
<1>2. CASE msg \in [type : {"Data"}, id : SubstreamId, data : 1 .. MaxData]
  <2>1. msg = [type |-> msg.type, id |-> msg.id, data |-> msg.data]
    BY <1>2
  <2> QED
    BY <1>2, <2>1 DEF DataAt, Hole
<1> QED
  BY <1>1, <1>2 DEF Message

\* The messages that the ends send.
LEMMA MessageTypes ==
    ASSUME NEW s \in SubstreamId
    PROVE  /\ OpenOf(s) \in Message /\ CloseOf(s) \in Message
           /\ [type |-> "OpenResponse", id |-> s] \in Message
           /\ \A k \in 1 .. MaxData : DataAt(s, k) \in Message
BY DEF OpenOf, CloseOf, DataAt, Message

\* In this step e sends msg under the nonce last.
Says(e, last, msg) ==
    /\ last \in Nat /\ handled[Other(e)] < last
    /\ Nonces(e)' = Nonces(e) \cup {last}
    /\ \A n \in Nonces(e) : n < last /\ sent'[e][n] = sent[e][n]
    /\ sent'[e][last] = msg
    /\ \A f \in End : f # e => Nonces(f)' = Nonces(f) /\ sent'[f] = sent[f]

\* Nonces are numbers from 1.
LEMMA NoncesType ==
    ASSUME TypeOK, NEW e \in End
    PROVE  /\ Nonces(e) \subseteq Nat \ {0} /\ Len(sent[e]) \in Nat
           /\ \A n \in Nonces(e) : sent[e][n] \in Message \cup {Hole}
<1>1. sent[e] \in Seq(Message \cup {Hole})
  BY DEF TypeOK
<1> QED
  BY <1>1, LenProperties, ElementOfSeq DEF Nonces

\* A send.
LEMMA SendEffect ==
    ASSUME TypeOK, HandledInv, NEW e \in End, NEW msg \in Message \cup {Hole}, Send(e, msg)
    PROVE  /\ \E last : Says(e, last, msg)
           /\ sent' \in [End -> Seq(Message \cup {Hole})]
           /\ \A f \in End : handled[f] <= Len(sent'[Other(f)])
<1>1. sent \in [End -> Seq(Message \cup {Hole})] /\ sent[e] \in Seq(Message \cup {Hole})
  BY DEF TypeOK
<1>2. sent' = [sent EXCEPT ![e] = Append(sent[e], msg)]
  BY DEF Send
<1>3. /\ Append(sent[e], msg) \in Seq(Message \cup {Hole})
      /\ Len(Append(sent[e], msg)) = Len(sent[e]) + 1
      /\ \A n \in 1 .. Len(sent[e]) : Append(sent[e], msg)[n] = sent[e][n]
      /\ Append(sent[e], msg)[Len(sent[e]) + 1] = msg
  BY <1>1, AppendProperties
<1>4. \A f \in End : Len(sent[f]) \in Nat /\ handled[f] \in Nat
  BY NoncesType DEF TypeOK
<1>5. sent'[e] = Append(sent[e], msg) /\ \A f \in End : f # e => sent'[f] = sent[f]
  BY <1>1, <1>2
<1>6. sent' \in [End -> Seq(Message \cup {Hole})]
  BY <1>1, <1>2, <1>3
<1>7. \A f \in End : handled[f] <= Len(sent[Other(f)])
  BY DEF HandledInv
<1>8. ASSUME NEW f \in End
      PROVE  handled[f] <= Len(sent'[Other(f)])
  <2>1. CASE Other(f) = e
    BY <2>1, <1>3, <1>4, <1>5, <1>7, Ends
  <2>2. CASE Other(f) # e
    BY <2>2, <1>5, <1>7, Ends
  <2> QED
    BY <2>1, <2>2
<1>9. Says(e, Len(sent[e]) + 1, msg)
  <2>1. handled[Other(e)] <= Len(sent[e]) /\ handled[Other(e)] \in Nat /\ Len(sent[e]) \in Nat
    BY <1>4, <1>7, Ends
  <2>2. 1 .. Len(sent'[e]) = (1 .. Len(sent[e])) \cup {Len(sent[e]) + 1}
    BY <2>1, <1>3, <1>5
  <2> QED
    BY <2>1, <2>2, <1>3, <1>5 DEF Says, Nonces
<1> QED
  BY <1>6, <1>8, <1>9

-----------------------------------------------------------------------------
(***************************************************************************)
(* What a step in which an end sends msg preserves.                        *)
(***************************************************************************)

\* What was sent before the step, or is sent in it.
LEMMA SaidBefore ==
    ASSUME NEW e \in End, NEW msg, NEW last, Says(e, last, msg),
           NEW f \in End, NEW n \in Nonces(f)'
    PROVE  \/ n \in Nonces(f) /\ sent'[f][n] = sent[f][n]
           \/ f = e /\ n = last /\ sent'[f][n] = msg
BY DEF Says

\* KnownInv, if only e may learn of a substream, namely of the one it speaks about.
LEMMA KnownSays ==
    ASSUME TypeOK, KnownInv, NEW e \in End, NEW msg, NEW last, Says(e, last, msg),
           \A f \in End, t \in SubstreamId :
              substream[f][t] # "none" => substream'[f][t] # "none",
           \A f \in End, t \in SubstreamId :
              substream[f][t] = "none" /\ substream'[f][t] # "none" /\ substream'[Other(f)][t] = "none"
                  => f = e /\ msg = OpenOf(t),
           \A t \in SubstreamId : msg # Hole /\ msg.id = t => substream'[e][t] # "none"
    PROVE  KnownInv'
<1> SUFFICES ASSUME NEW f \in End, NEW t \in SubstreamId
             PROVE  /\ substream'[f][t] = "none" => \A n \in Nonces(f)' : ~ About(f, n, t)'
                    /\ substream'[f][t] # "none" /\ substream'[Other(f)][t] = "none" =>
                          \E n \in Nonces(f)' : sent'[f][n] = OpenOf(t)
  BY DEF KnownInv
<1>1. ASSUME substream'[f][t] = "none", NEW n \in Nonces(f)'
      PROVE  ~ About(f, n, t)'
  <2>1. CASE n \in Nonces(f) /\ sent'[f][n] = sent[f][n]
    <3>1. substream[f][t] = "none"
      BY <1>1
    <3>2. ~ About(f, n, t)
      BY <2>1, <3>1 DEF KnownInv
    <3> QED
      BY <2>1, <3>2 DEF About
  <2>2. CASE f = e /\ sent'[f][n] = msg
    BY <1>1, <2>2 DEF About
  <2> QED
    BY <1>1, <2>1, <2>2, SaidBefore
<1>2. ASSUME substream'[f][t] # "none", substream'[Other(f)][t] = "none"
      PROVE  \E n \in Nonces(f)' : sent'[f][n] = OpenOf(t)
  <2>1. CASE substream[f][t] # "none"
    <3>1. substream[Other(f)][t] = "none"
      BY <1>2, Ends
    <3>2. PICK n \in Nonces(f) : sent[f][n] = OpenOf(t)
      BY <2>1, <3>1 DEF KnownInv
    <3>3. n \in Nonces(f)' /\ sent'[f][n] = sent[f][n]
      BY <3>2 DEF Says
    <3> QED
      BY <3>2, <3>3
  <2>2. CASE substream[f][t] = "none"
    <3>1. f = e /\ msg = OpenOf(t)
      BY <1>2, <2>2
    <3>2. last \in Nonces(e)' /\ sent'[e][last] = msg
      BY DEF Says
    <3> QED
      BY <3>1, <3>2
  <2> QED
    BY <2>1, <2>2
<1> QED
  BY <1>1, <1>2

\* OpenInv, if an OpenRequest is the first that e says of a substream.
LEMMA OpenSays ==
    ASSUME TypeOK, OpenInv, NEW e \in End, NEW msg, NEW last, Says(e, last, msg),
           \A t \in SubstreamId : msg = OpenOf(t) =>
              /\ \A n \in Nonces(e) : ~ About(e, n, t)
              /\ substream'[Other(e)][t] = "none" /\ handled'[Other(e)] < last,
           \A f \in End, t \in SubstreamId : \A n \in Nonces(f) : sent[f][n] = OpenOf(t) =>
              (substream'[Other(f)][t] = "none" <=> handled'[Other(f)] < n)
    PROVE  OpenInv'
<1> SUFFICES ASSUME NEW f \in End, NEW t \in SubstreamId, NEW n \in Nonces(f)',
                    sent'[f][n] = OpenOf(t)
             PROVE  /\ \A m \in Nonces(f)' : m < n => ~ About(f, m, t)'
                    /\ substream'[Other(f)][t] = "none" <=> handled'[Other(f)] < n
  BY DEF OpenInv
<1>1. Nonces(f) \subseteq Nat /\ last \in Nat
  BY NoncesType DEF Says
<1>2. \A m \in Nonces(f) : f = e => m < last
  BY DEF Says
<1>3. CASE n \in Nonces(f) /\ sent'[f][n] = sent[f][n]
  <2>1. ASSUME NEW m \in Nonces(f)', m < n
        PROVE  ~ About(f, m, t)'
    <3>1. m \in Nonces(f) /\ sent'[f][m] = sent[f][m]
      BY <1>1, <1>2, <1>3, <2>1, SaidBefore
    <3>2. ~ About(f, m, t)
      BY <1>3, <2>1, <3>1 DEF OpenInv
    <3> QED
      BY <3>1, <3>2 DEF About
  <2> QED
    BY <1>3, <2>1
<1>4. CASE f = e /\ n = last /\ sent'[f][n] = msg
  <2>1. ASSUME NEW m \in Nonces(f)', m < n
        PROVE  ~ About(f, m, t)'
    <3>1. m \in Nonces(f) /\ sent'[f][m] = sent[f][m]
      BY <1>1, <1>4, <2>1, SaidBefore
    <3>2. ~ About(f, m, t)
      BY <1>4, <3>1
    <3> QED
      BY <3>1, <3>2 DEF About
  <2> QED
    BY <1>4, <2>1
<1> QED
  BY <1>3, <1>4, SaidBefore

\* ClosedInv, if e says nothing more about a substream that it has closed.
LEMMA ClosedSays ==
    ASSUME TypeOK, ClosedInv, NEW e \in End, NEW msg, NEW last, Says(e, last, msg),
           \A f \in End, t \in SubstreamId : closed[f][t] => closed'[f][t],
           \A t \in SubstreamId : msg = CloseOf(t) => closed'[e][t],
           \A t \in SubstreamId : msg # Hole /\ msg.id = t =>
              \A n \in Nonces(e) : sent[e][n] # CloseOf(t)
    PROVE  ClosedInv'
<1> SUFFICES ASSUME NEW f \in End, NEW t \in SubstreamId, NEW n \in Nonces(f)',
                    sent'[f][n] = CloseOf(t)
             PROVE  /\ closed'[f][t]
                    /\ \A m \in Nonces(f)' : n < m => ~ About(f, m, t)'
  BY DEF ClosedInv
<1>1. Nonces(f) \subseteq Nat /\ last \in Nat
  BY NoncesType DEF Says
<1>2. \A m \in Nonces(f) : f = e => m < last
  BY DEF Says
<1>3. CASE n \in Nonces(f) /\ sent'[f][n] = sent[f][n]
  <2>1. closed[f][t] /\ \A m \in Nonces(f) : n < m => ~ About(f, m, t)
    BY <1>3 DEF ClosedInv
  <2>2. ASSUME NEW m \in Nonces(f)', n < m
        PROVE  ~ About(f, m, t)'
    <3>1. CASE m \in Nonces(f) /\ sent'[f][m] = sent[f][m]
      <4>1. ~ About(f, m, t)
        BY <2>1, <2>2, <3>1
      <4> QED
        BY <3>1, <4>1 DEF About
    <3>2. CASE f = e /\ sent'[f][m] = msg
      BY <1>3, <3>2 DEF About
    <3> QED
      BY <3>1, <3>2, SaidBefore
  <2> QED
    BY <2>1, <2>2
<1>4. CASE f = e /\ n = last /\ sent'[f][n] = msg
  <2>1. ASSUME NEW m \in Nonces(f)', n < m
        PROVE  FALSE
    BY <1>1, <1>2, <1>4, <2>1, SaidBefore
  <2> QED
    BY <1>4, <2>1
<1> QED
  BY <1>3, <1>4, SaidBefore

\* WriteInv, if the message is not data.
LEMMA WriteSays ==
    ASSUME TypeOK, WriteInv, NEW e \in End, NEW msg, NEW last, Says(e, last, msg),
           \A t \in SubstreamId, k \in 1 .. MaxData : msg # DataAt(t, k),
           written' = written
    PROVE  WriteInv'
<1> SUFFICES ASSUME NEW f \in End, NEW t \in SubstreamId
             PROVE  /\ \A k \in 1 .. written[f][t] : \E n \in Nonces(f)' : sent'[f][n] = DataAt(t, k)
                    /\ \A n \in Nonces(f)', k \in 1 .. MaxData : sent'[f][n] = DataAt(t, k) =>
                          /\ k <= written[f][t]
                          /\ \A m \in Nonces(f)', j \in 1 .. MaxData :
                                m < n /\ sent'[f][m] = DataAt(t, j) => j < k
  BY DEF WriteInv
<1>1. ASSUME NEW k \in 1 .. written[f][t]
      PROVE  \E n \in Nonces(f)' : sent'[f][n] = DataAt(t, k)
  <2>1. PICK n \in Nonces(f) : sent[f][n] = DataAt(t, k)
    BY DEF WriteInv
  <2>2. n \in Nonces(f)' /\ sent'[f][n] = sent[f][n]
    BY DEF Says
  <2> QED
    BY <2>1, <2>2
<1>2. \A n \in Nonces(f)', k \in 1 .. MaxData : sent'[f][n] = DataAt(t, k) =>
         n \in Nonces(f) /\ sent[f][n] = DataAt(t, k)
  BY SaidBefore
<1>3. \A n \in Nonces(f), k \in 1 .. MaxData : sent[f][n] = DataAt(t, k) =>
         /\ k <= written[f][t]
         /\ \A m \in Nonces(f), j \in 1 .. MaxData :
               m < n /\ sent[f][m] = DataAt(t, j) => j < k
  BY DEF WriteInv
<1> QED
  BY <1>1, <1>2, <1>3

\* DataInv, if the other end takes nothing and e takes no data.
LEMMA DataSays ==
    ASSUME TypeOK, DataInv, NEW e \in End, NEW msg, NEW last, Says(e, last, msg),
           \A f \in End, t \in SubstreamId :
              /\ Received(f, t)' = Received(f, t)
              /\ substream'[f][t] # "dropped" => substream[f][t] # "dropped",
           \A t \in SubstreamId, k \in 1 .. MaxData :
              msg = DataAt(t, k) => ~ (k <= Received(Other(e), t)),
           handled'[Other(e)] = handled[Other(e)],
           \A t \in SubstreamId, k \in 1 .. MaxData : \A n \in Nonces(Other(e)) :
              sent[Other(e)][n] = DataAt(t, k) => (n <= handled'[e] <=> n <= handled[e])
    PROVE  DataInv'
<1> SUFFICES ASSUME NEW f \in End, NEW t \in SubstreamId, substream'[f][t] # "dropped",
                    NEW n \in Nonces(Other(f))', NEW k \in 1 .. MaxData,
                    sent'[Other(f)][n] = DataAt(t, k)
             PROVE  n <= handled'[f] <=> k <= Received(f, t)
  BY DEF DataInv
<1>1. Other(f) \in End /\ handled[Other(e)] \in Nat /\ last \in Nat /\ handled[Other(e)] < last
  BY Ends DEF TypeOK, Says
<1>2. CASE n \in Nonces(Other(f)) /\ sent'[Other(f)][n] = sent[Other(f)][n]
  <2>1. n <= handled[f] <=> k <= Received(f, t)
    BY <1>2 DEF DataInv
  <2>2. n <= handled'[f] <=> n <= handled[f]
    <3>1. CASE f = e
      <4>1. sent[Other(e)][n] = DataAt(t, k) /\ n \in Nonces(Other(e))
        BY <1>2, <3>1
      <4> QED
        BY <3>1, <4>1
    <3>2. CASE f = Other(e)
      BY <3>2
    <3> QED
      BY <3>1, <3>2, Ends
  <2> QED
    BY <2>1, <2>2
<1>3. CASE Other(f) = e /\ n = last /\ sent'[Other(f)][n] = msg
  BY <1>1, <1>3, Ends
<1> QED
  BY <1>1, <1>2, <1>3, SaidBefore

\* A message that was not taken takes no channel away.
LEMMA LiveSays ==
    ASSUME TypeOK, NEW e \in End, NEW msg, NEW last, Says(e, last, msg),
           NEW f \in End, NEW t \in SubstreamId, handled'[f] = handled[f],
           substream[f][t] = "none" <=> substream'[f][t] = "none"
    PROVE  Live(f, t)' <=> Live(f, t)
<1>1. Other(f) \in End /\ handled[f] \in Nat /\ last \in Nat
  BY Ends DEF TypeOK, Says
<1>2. Other(f) = e => handled[f] < last
  BY Ends DEF Says
<1>3. \A n \in Nonces(Other(f)) : n \in Nonces(Other(f))' /\ sent'[Other(f)][n] = sent[Other(f)][n]
  BY <1>1 DEF Says
<1>4. \A n \in Nonces(Other(f))' : n <= handled[f] =>
         n \in Nonces(Other(f)) /\ sent'[Other(f)][n] = sent[Other(f)][n]
  BY <1>1, <1>2, SaidBefore
<1> QED
  BY <1>3, <1>4 DEF Live

(***************************************************************************)
(* What a step in which nothing is sent preserves.                         *)
(***************************************************************************)

\* The link invariants, if nobody learns of a substream and no OpenRequest is taken.
LEMMA Silent ==
    ASSUME KnownInv, OpenInv, ClosedInv, sent' = sent,
           \A f \in End, t \in SubstreamId :
              /\ substream'[f][t] = "none" <=> substream[f][t] = "none"
              /\ closed[f][t] => closed'[f][t],
           \A f \in End, t \in SubstreamId : \A n \in Nonces(Other(f)) :
              sent[Other(f)][n] = OpenOf(t) => (handled'[f] < n <=> handled[f] < n)
    PROVE  KnownInv' /\ OpenInv' /\ ClosedInv'
<1>1. \A f \in End : Nonces(f)' = Nonces(f) /\ Other(f) \in End
  BY Ends DEF Nonces
<1>2. \A f \in End, t \in SubstreamId : \A n \in Nonces(f) : About(f, n, t)' <=> About(f, n, t)
  BY DEF About
<1>3. KnownInv'
  BY <1>1, <1>2 DEF KnownInv
<1>4. OpenInv'
  <2> SUFFICES ASSUME NEW f \in End, NEW t \in SubstreamId, NEW n \in Nonces(f),
                      sent[f][n] = OpenOf(t)
               PROVE  /\ \A m \in Nonces(f) : m < n => ~ About(f, m, t)
                      /\ substream'[Other(f)][t] = "none" <=> handled'[Other(f)] < n
    BY <1>1, <1>2 DEF OpenInv
  <2>1. /\ \A m \in Nonces(f) : m < n => ~ About(f, m, t)
        /\ substream[Other(f)][t] = "none" <=> handled[Other(f)] < n
    BY DEF OpenInv
  <2>2. handled'[Other(f)] < n <=> handled[Other(f)] < n
    BY Ends
  <2> QED
    BY <2>1, <2>2, <1>1
<1>5. ClosedInv'
  BY <1>1, <1>2 DEF ClosedInv
<1> QED
  BY <1>3, <1>4, <1>5

\* Everything about the link and the data, if the step only moves a substream along its life.
LEMMA LifeStep ==
    ASSUME IndInv, TypeOK', UNCHANGED <<sent, handled, written, alarms>>,
           \A f \in End, t \in SubstreamId :
              /\ substream'[f][t] = "none" <=> substream[f][t] = "none"
              /\ closed[f][t] => closed'[f][t]
              /\ substream'[f][t] # "dropped" =>
                    substream[f][t] # "dropped" /\ Received(f, t)' = Received(f, t),
           \A f \in End : muxer'[f] = "open" =>
              /\ muxer[f] = "open"
              /\ substream_inbound_txs'[f] = substream_inbound_txs[f]
              /\ substream_close_txs'[f] = substream_close_txs[f],
           QueuedInv', ReadInOrder'
    PROVE  IndInv'
<1>1. \A f \in End : Nonces(f)' = Nonces(f) /\ Other(f) \in End
  BY Ends DEF Nonces
<1>2. HandledInv' /\ NoAlarms' /\ WriteInv'
  BY <1>1 DEF IndInv, HandledInv, NoAlarms, WriteInv
<1>3. KnownInv' /\ OpenInv' /\ ClosedInv'
  BY Silent DEF IndInv
<1>4. ChannelInv'
  <2>1. \A f \in End, t \in SubstreamId : Live(f, t)' <=> Live(f, t)
    BY <1>1 DEF Live
  <2> QED
    BY <2>1 DEF IndInv, ChannelInv
<1>5. DataInv'
  BY <1>1 DEF IndInv, DataInv
<1> QED
  BY <1>2, <1>3, <1>4, <1>5 DEF IndInv

-----------------------------------------------------------------------------
(***************************************************************************)
(* The initial state, and one lemma per action.                            *)
(***************************************************************************)

\* Both ends begin with nothing.
LEMMA InitIndInv == Init => IndInv
<1> SUFFICES ASSUME Init PROVE IndInv
  OBVIOUS
<1> USE DEF Init
<1>1. TypeOK
  BY ConnectionAssumption, EmptySeq DEF TypeOK
<1>2. \A e \in End : Len(sent[e]) = 0 /\ Nonces(e) = {} /\ handled[e] = 0
  BY EmptySeq DEF Nonces
<1>3. /\ \A e \in End, s \in SubstreamId : Len(inbound_rx[e][s]) = 0
      /\ \A e \in End : Len(inbound_open[e]) = 0
  BY EmptySeq
<1>4. HandledInv /\ KnownInv /\ OpenInv /\ ClosedInv
  BY <1>2, Ends DEF HandledInv, KnownInv, OpenInv, ClosedInv
<1>5. QueuedInv /\ ReadInOrder
  BY <1>3, Ends DEF QueuedInv, ReadInOrder
<1>6. ChannelInv
  BY DEF ChannelInv, Live
<1>7. WriteInv /\ DataInv
  BY <1>2, Ends DEF WriteInv, DataInv
<1> QED
  BY <1>1, <1>4, <1>5, <1>6, <1>7 DEF IndInv, NoAlarms

\* poll_inbound: the head of the queue is held now, and nobody else waits under its ID.
LEMMA PollInboundStep ==
    ASSUME IndInv, NEW e \in End, PollInbound(e)
    PROVE  IndInv'
<1> DEFINE s == Head(inbound_open[e])
<1>1. TypeOK /\ QueuedInv /\ ReadInOrder
  BY DEF IndInv
<1>2. /\ inbound_open[e] \in Seq(SubstreamId) /\ inbound_open[e] # <<>>
      /\ inbound_open'[e] = Tail(inbound_open[e])
      /\ \A f \in End : f # e => inbound_open'[f] = inbound_open[f]
      /\ inbound_open \in [End -> Seq(SubstreamId)]
      /\ inbound_open' = [inbound_open EXCEPT ![e] = Tail(inbound_open[e])]
  BY <1>1 DEF PollInbound, TypeOK
<1>3. /\ s \in SubstreamId /\ s = inbound_open[e][1]
      /\ Tail(inbound_open[e]) \in Seq(SubstreamId)
      /\ Len(inbound_open[e]) \in Nat \ {0}
      /\ Len(Tail(inbound_open[e])) = Len(inbound_open[e]) - 1
      /\ \A k \in 1 .. Len(Tail(inbound_open[e])) : Tail(inbound_open[e])[k] = inbound_open[e][k + 1]
  BY <1>2, HeadTailProperties, EmptySeq, ElementOfSeq
<1>4. /\ substream'[e][s] = "held"
      /\ \A f \in End, t \in SubstreamId : f # e \/ t # s => substream'[f][t] = substream[f][t]
      /\ substream' \in [End -> [SubstreamId -> {"none", "queued", "held", "dropped"}]]
  BY <1>1, <1>3 DEF PollInbound, TypeOK
<1>5. substream[e][s] = "queued"
  BY <1>1, <1>3 DEF QueuedInv
<1>6. UNCHANGED <<muxer, pending_substreams, substream_inbound_txs, substream_close_txs, close_rx,
                  inbound_rx, close_signal, closed, sent, handled, written, read, alarms>>
  BY DEF PollInbound, appVars
<1>7. TypeOK'
  <2>1. inbound_open' \in [End -> Seq(SubstreamId)]
    BY <1>2, <1>3
  <2> QED
    BY <2>1, <1>1, <1>4, <1>6 DEF TypeOK
<1>8. QueuedInv'
  <2> SUFFICES ASSUME NEW f \in End, NEW k \in 1 .. Len(inbound_open'[f])
               PROVE  /\ substream'[f][inbound_open'[f][k]] = "queued"
                      /\ \A j \in 1 .. k - 1 : inbound_open'[f][j] # inbound_open'[f][k]
    BY DEF QueuedInv
  <2>1. CASE f = e
    <3>1. /\ k + 1 \in 1 .. Len(inbound_open[e]) /\ k \in Nat \ {0}
          /\ inbound_open'[e][k] = inbound_open[e][k + 1]
          /\ \A j \in 1 .. k - 1 : inbound_open'[e][j] = inbound_open[e][j + 1] /\ j + 1 \in 1 .. (k + 1) - 1
      BY <1>2, <1>3, <2>1
    <3>2. /\ substream[e][inbound_open[e][k + 1]] = "queued"
          /\ \A j \in 1 .. (k + 1) - 1 : inbound_open[e][j] # inbound_open[e][k + 1]
      BY <1>1, <3>1 DEF QueuedInv
    <3>3. inbound_open[e][k + 1] \in SubstreamId /\ inbound_open[e][k + 1] # s
      BY <1>2, <1>3, <3>1, <3>2, ElementOfSeq
    <3> QED
      BY <1>4, <2>1, <3>1, <3>2, <3>3, SMTT(30)
  <2>2. CASE f # e
    <3>1. inbound_open'[f] = inbound_open[f] /\ inbound_open[f] \in Seq(SubstreamId)
      BY <1>2, <2>2
    <3>2. inbound_open[f][k] \in SubstreamId
      BY <3>1, ElementOfSeq
    <3>3. /\ substream[f][inbound_open[f][k]] = "queued"
          /\ \A j \in 1 .. k - 1 : inbound_open[f][j] # inbound_open[f][k]
      BY <1>1, <3>1 DEF QueuedInv
    <3> QED
      BY <1>4, <2>2, <3>1, <3>2, <3>3
  <2> QED
    BY <2>1, <2>2
<1>9. ReadInOrder'
  BY <1>1, <1>6 DEF ReadInOrder
<1>10. \A f \in End, t \in SubstreamId :
          /\ substream'[f][t] = "none" <=> substream[f][t] = "none"
          /\ substream'[f][t] # "dropped" => substream[f][t] # "dropped"
          /\ Received(f, t)' = Received(f, t)
  BY <1>4, <1>5, <1>6 DEF Received
<1> QED
  BY <1>6, <1>7, <1>8, <1>9, <1>10, LifeStep

\* poll_close of the muxer takes a notice off its queue, and that is all.
LEMMA PollCloseStep ==
    ASSUME IndInv, NEW e \in End, PollClose(e)
    PROVE  IndInv'
<1>1. UNCHANGED <<muxer, pending_substreams, substream_inbound_txs, substream_close_txs,
                  inbound_open, substream, inbound_rx, close_signal, closed, sent, handled,
                  written, read, alarms>>
  BY DEF PollClose, appVars, substreamVars
<1>2. TypeOK'
  <2>1. close_rx[e] \in Seq(SubstreamId) /\ close_rx[e] # <<>>
    BY DEF IndInv, TypeOK, PollClose
  <2>2. Tail(close_rx[e]) \in Seq(SubstreamId)
    BY <2>1, HeadTailProperties
  <2>3. close_rx' \in [End -> Seq(SubstreamId)]
    BY <2>2 DEF IndInv, TypeOK, PollClose
  <2> QED
    BY <2>3, <1>1 DEF IndInv, TypeOK
<1>3. QueuedInv' /\ ReadInOrder'
  BY <1>1 DEF IndInv, QueuedInv, ReadInOrder
<1>4. \A f \in End, t \in SubstreamId : Received(f, t)' = Received(f, t)
  BY <1>1 DEF Received
<1> QED
  BY <1>1, <1>2, <1>3, <1>4, LifeStep

\* A Connection that goes takes the substreams that nobody holds with it.
LEMMA DropConnectionStep ==
    ASSUME IndInv, NEW e \in End, DropConnection(e)
    PROVE  IndInv'
<1>1. TypeOK /\ QueuedInv /\ ReadInOrder
  BY DEF IndInv
<1>2. UNCHANGED <<inbound_rx, close_signal, closed, sent, handled, written, read, alarms>>
  BY DEF DropConnection, appVars
<1>3. /\ substream' \in [End -> [SubstreamId -> {"none", "queued", "held", "dropped"}]]
      /\ \A f \in End, t \in SubstreamId :
            /\ f # e => substream'[f][t] = substream[f][t]
            /\ substream'[f][t] = "none" <=> substream[f][t] = "none"
            /\ substream'[f][t] # "dropped" => substream[f][t] # "dropped"
  BY <1>1 DEF DropConnection, TypeOK
<1>4. /\ inbound_open' \in [End -> Seq(SubstreamId)] /\ inbound_open'[e] = <<>>
      /\ \A f \in End : f # e => inbound_open'[f] = inbound_open[f]
      /\ close_rx' \in [End -> Seq(SubstreamId)]
  BY <1>1, EmptySeq DEF DropConnection, TypeOK
<1>5. /\ muxer' \in [End -> {"open", "failed", "dropped"}] /\ muxer'[e] = "dropped"
      /\ \A f \in End : f # e => muxer'[f] = muxer[f]
      /\ pending_substreams' \in [End -> SUBSET SubstreamId]
      /\ substream_inbound_txs' \in [End -> SUBSET SubstreamId]
      /\ substream_close_txs' \in [End -> SUBSET SubstreamId]
      /\ \A f \in End : f # e =>
            /\ substream_inbound_txs'[f] = substream_inbound_txs[f]
            /\ substream_close_txs'[f] = substream_close_txs[f]
  BY <1>1 DEF DropConnection, TypeOK
<1>6. TypeOK'
  BY <1>1, <1>2, <1>3, <1>4, <1>5 DEF TypeOK
<1>7. QueuedInv'
  <2> SUFFICES ASSUME NEW f \in End, NEW k \in 1 .. Len(inbound_open'[f])
               PROVE  /\ substream'[f][inbound_open'[f][k]] = "queued"
                      /\ \A j \in 1 .. k - 1 : inbound_open'[f][j] # inbound_open'[f][k]
    BY DEF QueuedInv
  <2>1. f # e
    BY <1>4, EmptySeq
  <2>2. inbound_open[f] \in Seq(SubstreamId) /\ inbound_open'[f] = inbound_open[f]
    BY <2>1, <1>1, <1>4 DEF TypeOK
  <2>3. inbound_open[f][k] \in SubstreamId
    BY <2>2, ElementOfSeq
  <2>4. /\ substream[f][inbound_open[f][k]] = "queued"
        /\ \A j \in 1 .. k - 1 : inbound_open[f][j] # inbound_open[f][k]
    BY <1>1, <2>2 DEF QueuedInv
  <2> QED
    BY <2>1, <2>2, <2>3, <2>4, <1>3
<1>8. ReadInOrder'
  BY <1>1, <1>2 DEF ReadInOrder
<1>9. \A f \in End, t \in SubstreamId : Received(f, t)' = Received(f, t)
  BY <1>2 DEF Received
<1> QED
  BY <1>2, <1>3, <1>5, <1>6, <1>7, <1>8, <1>9, LifeStep

\* The queue for poll_inbound, if it and the substreams in it stay as they are.
LEMMA QueuedSame ==
    ASSUME TypeOK, QueuedInv, inbound_open' = inbound_open,
           \A f \in End, t \in SubstreamId :
              substream[f][t] = "queued" => substream'[f][t] = "queued"
    PROVE  QueuedInv'
<1> SUFFICES ASSUME NEW f \in End, NEW k \in 1 .. Len(inbound_open[f])
             PROVE  /\ substream'[f][inbound_open[f][k]] = "queued"
                    /\ \A j \in 1 .. k - 1 : inbound_open[f][j] # inbound_open[f][k]
  BY DEF QueuedInv
<1>1. inbound_open[f][k] \in SubstreamId
  BY ElementOfSeq DEF TypeOK
<1> QED
  BY <1>1 DEF QueuedInv

\* The head and the tail of a queue.
LEMMA HeadAndTail ==
    ASSUME NEW S, NEW q \in Seq(S), q # <<>>
    PROVE  /\ Head(q) \in S /\ Head(q) = q[1] /\ Tail(q) \in Seq(S)
           /\ Len(q) \in Nat \ {0} /\ Len(Tail(q)) = Len(q) - 1
           /\ \A k \in 1 .. Len(Tail(q)) : Tail(q)[k] = q[k + 1]
BY HeadTailProperties, EmptySeq, ElementOfSeq

\* A queue that something joins.
LEMMA Appended ==
    ASSUME NEW S, NEW q \in Seq(S), NEW x \in S
    PROVE  /\ Append(q, x) \in Seq(S) /\ Len(Append(q, x)) = Len(q) + 1 /\ Len(q) \in Nat
           /\ \A i \in 1 .. Len(q) : Append(q, x)[i] = q[i]
           /\ Append(q, x)[Len(q) + 1] = x
BY AppendProperties, LenProperties

\* What each end keeps for each substream.
LEMMA PerSubstream ==
    ASSUME NEW S, NEW f \in [End -> [SubstreamId -> S]], NEW e \in End, NEW s \in SubstreamId
    PROVE  f[e][s] \in S
OBVIOUS

\* The data of a substream, and its counters.
LEMMA DataTypes ==
    ASSUME TypeOK, NEW e \in End, NEW s \in SubstreamId
    PROVE  /\ inbound_rx[e][s] \in Seq(1 .. MaxData) /\ Len(inbound_rx[e][s]) \in Nat
           /\ read[e][s] \in Nat /\ written[e][s] \in Nat /\ written[Other(e)][s] \in Nat
           /\ Received(e, s) \in Nat
<1>1. inbound_rx[e][s] \in Seq(1 .. MaxData)
  <2>1. inbound_rx \in [End -> [SubstreamId -> Seq(1 .. MaxData)]]
    BY DEF TypeOK
  <2> QED
    BY <2>1, PerSubstream, Zenon
<1>2. Len(inbound_rx[e][s]) \in Nat
  BY <1>1, LenProperties, Zenon
<1>3. read[e][s] \in Nat /\ written[e][s] \in Nat /\ written[Other(e)][s] \in Nat
  <2>1. /\ read \in [End -> [SubstreamId -> 0 .. MaxData]]
        /\ written \in [End -> [SubstreamId -> 0 .. MaxData]]
    BY DEF TypeOK
  <2>2. /\ read[e][s] \in 0 .. MaxData /\ written[e][s] \in 0 .. MaxData
        /\ written[Other(e)][s] \in 0 .. MaxData
    BY <2>1, Ends, PerSubstream, Zenon
  <2> QED
    BY <2>2
<1> QED
  BY <1>1, <1>2, <1>3 DEF Received

\* check_closed takes the signal.
LEMMA LearnClosedStep ==
    ASSUME IndInv, NEW e \in End, NEW s \in SubstreamId, LearnClosed(e, s)
    PROVE  IndInv'
<1>1. UNCHANGED <<muxer, pending_substreams, substream_inbound_txs, substream_close_txs,
                  inbound_open, close_rx, substream, inbound_rx, sent, handled, written, read,
                  alarms>>
  BY DEF LearnClosed, muxerVars, appVars
<1>2. /\ close_signal' \in [End -> [SubstreamId -> BOOLEAN]]
      /\ closed' \in [End -> [SubstreamId -> BOOLEAN]]
  BY DEF LearnClosed, IndInv, TypeOK
<1>3. TypeOK'
  BY <1>1, <1>2 DEF IndInv, TypeOK
<1>4. \A f \in End, t \in SubstreamId : closed[f][t] => closed'[f][t]
  BY DEF LearnClosed, IndInv, TypeOK
<1>5. QueuedInv' /\ ReadInOrder'
  BY <1>1, QueuedSame DEF IndInv, ReadInOrder
<1>6. \A f \in End, t \in SubstreamId : Received(f, t)' = Received(f, t)
  BY <1>1 DEF Received
<1> QED
  BY <1>1, <1>3, <1>4, <1>5, <1>6, LifeStep

\* A read moves the next data from the channel to the reader.
LEMMA PollReadStep ==
    ASSUME IndInv, NEW e \in End, NEW s \in SubstreamId, PollRead(e, s)
    PROVE  IndInv'
<1>1. TypeOK /\ ReadInOrder
  BY DEF IndInv
<1>2. UNCHANGED <<muxer, pending_substreams, substream_inbound_txs, substream_close_txs,
                  inbound_open, close_rx, substream, close_signal, closed, sent, handled, written,
                  alarms>>
  BY DEF PollRead, muxerVars
<1>3. PICK q \in Seq(1 .. MaxData) : q = inbound_rx[e][s] /\ q # <<>>
  BY <1>1, DataTypes, Zenon DEF PollRead
<1>4. /\ Head(q) \in 1 .. MaxData /\ Head(q) = q[1] /\ Tail(q) \in Seq(1 .. MaxData)
      /\ Len(q) \in Nat \ {0} /\ Len(Tail(q)) = Len(q) - 1
      /\ \A k \in 1 .. Len(Tail(q)) : Tail(q)[k] = q[k + 1]
  BY <1>3, HeadAndTail, Zenon
<1>5. /\ inbound_rx'[e][s] = Tail(q) /\ read'[e][s] = Head(q)
      /\ \A f \in End, t \in SubstreamId : f # e \/ t # s =>
            inbound_rx'[f][t] = inbound_rx[f][t] /\ read'[f][t] = read[f][t]
  BY <1>1, <1>3 DEF PollRead, TypeOK
<1>6. /\ inbound_rx' \in [End -> [SubstreamId -> Seq(1 .. MaxData)]]
      /\ read' \in [End -> [SubstreamId -> 0 .. MaxData]]
  <2>1. Head(q) \in 0 .. MaxData
    BY <1>4, ConnectionAssumption
  <2> QED
    BY <1>1, <1>3, <1>4, <2>1 DEF PollRead, TypeOK
<1>7. TypeOK'
  BY <1>1, <1>2, <1>6 DEF TypeOK
<1>8. /\ read[e][s] \in Nat /\ written[Other(e)][s] \in Nat
      /\ \A k \in 1 .. Len(q) : q[k] = read[e][s] + k
      /\ read[e][s] + Len(q) <= written[Other(e)][s]
  <2>1. read[e][s] \in Nat /\ written[Other(e)][s] \in Nat
    BY <1>1, DataTypes
  <2> QED
    BY <2>1, <1>1, <1>3, Zenon DEF ReadInOrder
<1>9. Head(q) = read[e][s] + 1
  BY <1>4, <1>8
<1>10. ReadInOrder'
  <2> SUFFICES ASSUME NEW f \in End, NEW t \in SubstreamId
               PROVE  /\ \A k \in 1 .. Len(inbound_rx'[f][t]) :
                            inbound_rx'[f][t][k] = read'[f][t] + k
                      /\ read'[f][t] + Len(inbound_rx'[f][t]) <= written[Other(f)][t]
    BY <1>2 DEF ReadInOrder
  <2>1. CASE f = e /\ t = s
    <3>1. ASSUME NEW k \in 1 .. Len(Tail(q))
          PROVE  Tail(q)[k] = Head(q) + k
      <4>1. k + 1 \in 1 .. Len(q) /\ Tail(q)[k] = q[k + 1]
        BY <1>4
      <4>2. q[k + 1] = read[e][s] + (k + 1)
        BY <1>8, <4>1
      <4>3. read[e][s] + (k + 1) = Head(q) + k
        BY <1>4, <1>8, <1>9, SMTT(30)
      <4> QED
        BY <4>1, <4>2, <4>3, Zenon
    <3>2. Head(q) + Len(Tail(q)) <= written[Other(e)][s]
      BY <1>4, <1>8, <1>9
    <3> QED
      BY <2>1, <3>1, <3>2, <1>5, Zenon
  <2>2. CASE f # e \/ t # s
    BY <2>2, <1>1, <1>5 DEF ReadInOrder
  <2> QED
    BY <2>1, <2>2
<1>11. \A f \in End, t \in SubstreamId : Received(f, t)' = Received(f, t)
  <2>1. Received(e, s)' = Received(e, s)
    <3>1. Head(q) + Len(Tail(q)) = read[e][s] + Len(q)
      BY <1>4, <1>8, <1>9
    <3> QED
      BY <3>1, <1>3, <1>5, Zenon DEF Received
  <2> QED
    BY <2>1, <1>5 DEF Received
<1>12. QueuedInv'
  BY <1>2, QueuedSame DEF IndInv
<1> QED
  BY <1>2, <1>7, <1>10, <1>11, <1>12, LifeStep

\* A substream that is dropped throws its data away.
LEMMA DropSubstreamStep ==
    ASSUME IndInv, NEW e \in End, NEW s \in SubstreamId, DropSubstream(e, s)
    PROVE  IndInv'
<1>1. TypeOK /\ ReadInOrder
  BY DEF IndInv
<1>2. UNCHANGED <<muxer, pending_substreams, substream_inbound_txs, substream_close_txs,
                  inbound_open, close_rx, closed, sent, handled, written, read, alarms>>
  BY DEF DropSubstream, muxerVars, appVars
<1>3. /\ substream[e][s] = "held" /\ substream'[e][s] = "dropped"
      /\ \A f \in End, t \in SubstreamId : f # e \/ t # s => substream'[f][t] = substream[f][t]
      /\ substream' \in [End -> [SubstreamId -> {"none", "queued", "held", "dropped"}]]
  BY <1>1 DEF DropSubstream, TypeOK
<1>4. /\ inbound_rx'[e][s] = <<>>
      /\ \A f \in End, t \in SubstreamId : f # e \/ t # s => inbound_rx'[f][t] = inbound_rx[f][t]
      /\ inbound_rx' \in [End -> [SubstreamId -> Seq(1 .. MaxData)]]
  BY <1>1, EmptySeq DEF DropSubstream, TypeOK
<1>5. close_signal' \in [End -> [SubstreamId -> BOOLEAN]]
  BY <1>1 DEF DropSubstream, TypeOK
<1>6. TypeOK'
  BY <1>1, <1>2, <1>3, <1>4, <1>5 DEF TypeOK
<1>7. ReadInOrder'
  <2> SUFFICES ASSUME NEW f \in End, NEW t \in SubstreamId
               PROVE  /\ \A k \in 1 .. Len(inbound_rx'[f][t]) :
                            inbound_rx'[f][t][k] = read[f][t] + k
                      /\ read[f][t] + Len(inbound_rx'[f][t]) <= written[Other(f)][t]
    BY <1>2 DEF ReadInOrder
  <2>1. CASE f = e /\ t = s
    <3>1. /\ read[e][s] \in Nat /\ written[Other(e)][s] \in Nat
          /\ Len(inbound_rx[e][s]) \in Nat
      BY <1>1, DataTypes
    <3>2. read[e][s] + Len(inbound_rx[e][s]) <= written[Other(e)][s]
      BY <1>1 DEF ReadInOrder
    <3>3. Len(inbound_rx'[e][s]) = 0
      BY <1>4, EmptySeq
    <3>4. /\ \A k \in 1 .. Len(inbound_rx'[e][s]) : inbound_rx'[e][s][k] = read[e][s] + k
          /\ read[e][s] + Len(inbound_rx'[e][s]) <= written[Other(e)][s]
      BY <3>1, <3>2, <3>3
    <3> QED
      BY <2>1, <3>4
  <2>2. CASE f # e \/ t # s
    <3>1. inbound_rx'[f][t] = inbound_rx[f][t]
      BY <2>2, <1>4
    <3>2. /\ \A k \in 1 .. Len(inbound_rx[f][t]) : inbound_rx[f][t][k] = read[f][t] + k
          /\ read[f][t] + Len(inbound_rx[f][t]) <= written[Other(f)][t]
      BY <1>1 DEF ReadInOrder
    <3> QED
      BY <3>1, <3>2, Zenon
  <2> QED
    BY <2>1, <2>2
<1>8. \A f \in End, t \in SubstreamId : substream'[f][t] # "dropped" =>
         substream[f][t] # "dropped" /\ Received(f, t)' = Received(f, t)
  BY <1>2, <1>3, <1>4 DEF Received
<1>9. QueuedInv'
  BY <1>2, <1>3, QueuedSame DEF IndInv
<1>10. \A f \in End, t \in SubstreamId : substream'[f][t] = "none" <=> substream[f][t] = "none"
  BY <1>3
<1> QED
  BY <1>2, <1>6, <1>7, <1>8, <1>9, <1>10, LifeStep

\* poll_outbound: nobody knows the new ID, and its OpenRequest is new.
LEMMA PollOutboundStep ==
    ASSUME IndInv, NEW e \in End, NEW s \in SubstreamId, PollOutbound(e, s)
    PROVE  IndInv'
<1>1. TypeOK /\ HandledInv /\ Other(e) \in End
  BY Ends DEF IndInv
<1>2. /\ substream[e][s] = "none" /\ substream[Other(e)][s] = "none"
      /\ Send(e, OpenOf(s)) /\ OpenOf(s) \in Message
  BY Ends, MessageTypes DEF PollOutbound, OpenOf
<1>3. PICK last : Says(e, last, OpenOf(s))
  BY <1>1, <1>2, SendEffect
<1>4. /\ substream'[e][s] = "held"
      /\ \A f \in End, t \in SubstreamId : f # e \/ t # s => substream'[f][t] = substream[f][t]
      /\ substream' \in [End -> [SubstreamId -> {"none", "queued", "held", "dropped"}]]
  BY <1>1 DEF PollOutbound, NewSubstream, TypeOK
<1>5. UNCHANGED <<muxer, inbound_open, close_rx, inbound_rx, close_signal, closed, handled,
                  written, read, alarms>>
  BY DEF PollOutbound, appVars
<1>6. TypeOK' /\ HandledInv'
  <2>1. /\ pending_substreams' \in [End -> SUBSET SubstreamId]
        /\ substream_inbound_txs' \in [End -> SUBSET SubstreamId]
        /\ substream_close_txs' \in [End -> SUBSET SubstreamId]
    BY <1>1 DEF TypeOK, PollOutbound, NewSubstream
  <2>2. /\ sent' \in [End -> Seq(Message \cup {Hole})]
        /\ \A f \in End : handled[f] <= Len(sent'[Other(f)])
    BY <1>1, <1>2, SendEffect
  <2>3. TypeOK'
    BY <2>1, <2>2, <1>1, <1>4, <1>5 DEF TypeOK
  <2> QED
    BY <2>2, <2>3, <1>5 DEF HandledInv
<1>7. /\ \A n \in Nonces(e) : ~ About(e, n, s)
      /\ \A n \in Nonces(Other(e)) : ~ About(Other(e), n, s)
  BY <1>1, <1>2 DEF IndInv, KnownInv
<1>8. OpenOf(s).id = s /\ OpenOf(s) # Hole /\ OpenOf(s).type = "OpenRequest"
  BY Forms
<1>9. KnownInv'
  <2>1. \A t \in SubstreamId : OpenOf(s).id = t => substream'[e][t] # "none"
    BY <1>4, <1>8
  <2>2. \A f \in End, t \in SubstreamId :
           /\ substream[f][t] # "none" => substream'[f][t] # "none"
           /\ substream[f][t] = "none" /\ substream'[f][t] # "none" => f = e /\ OpenOf(s) = OpenOf(t)
    BY <1>2, <1>4
  <2> QED
    BY <1>1, <1>3, <2>1, <2>2, KnownSays DEF IndInv
<1>10. OpenInv'
  <2>1. ASSUME NEW t \in SubstreamId, OpenOf(s) = OpenOf(t)
        PROVE  /\ \A n \in Nonces(e) : ~ About(e, n, t)
               /\ substream'[Other(e)][t] = "none" /\ handled'[Other(e)] < last
    <3>1. t = s
      BY <1>8, <2>1, Forms
    <3>2. handled'[Other(e)] < last
      BY <1>3, <1>5 DEF Says
    <3>3. substream'[Other(e)][s] = "none"
      BY <1>1, <1>2, <1>4, Ends
    <3> QED
      BY <1>7, <3>1, <3>2, <3>3
  <2>2. ASSUME NEW f \in End, NEW t \in SubstreamId, NEW n \in Nonces(f), sent[f][n] = OpenOf(t)
        PROVE  substream'[Other(f)][t] = "none" <=> handled'[Other(f)] < n
    <3>1. About(f, n, t)
      BY <2>2, Forms DEF About
    <3>2. t # s
      BY <3>1, <1>7, Ends
    <3>3. substream'[Other(f)][t] = substream[Other(f)][t]
      BY <3>2, <1>4, Ends
    <3> QED
      BY <2>2, <3>3, <1>5 DEF IndInv, OpenInv
  <2> QED
    BY <1>1, <1>3, <2>1, <2>2, OpenSays DEF IndInv
<1>11. ClosedInv'
  <2>1. \A t \in SubstreamId : OpenOf(s) # CloseOf(t)
    BY <1>8, Forms
  <2>2. \A n \in Nonces(e) : sent[e][n] # CloseOf(s)
    BY <1>7, Forms DEF About
  <2>3. \A t \in SubstreamId : OpenOf(s).id = t => \A n \in Nonces(e) : sent[e][n] # CloseOf(t)
    BY <1>8, <2>2
  <2> QED
    BY <1>1, <1>3, <1>5, <2>1, <2>3, ClosedSays DEF IndInv
<1>12. ChannelInv'
  <2> SUFFICES ASSUME NEW f \in End, NEW t \in SubstreamId, muxer'[f] = "open"
               PROVE  /\ t \in substream_inbound_txs'[f] <=> Live(f, t)'
                      /\ t \in substream_close_txs'[f] <=> Live(f, t)'
    BY DEF ChannelInv
  <2>1. CASE f = e /\ t = s
    <3>1. s \in substream_inbound_txs'[e] /\ s \in substream_close_txs'[e]
      BY <1>1 DEF PollOutbound, NewSubstream, TypeOK
    <3>2. \A n \in Nonces(Other(e))' : sent'[Other(e)][n] # CloseOf(s)
      <4>1. \A n \in Nonces(Other(e)) : sent[Other(e)][n] # CloseOf(s)
        BY <1>7, Forms DEF About
      <4>2. Nonces(Other(e))' = Nonces(Other(e)) /\ sent'[Other(e)] = sent[Other(e)]
        BY <1>1, <1>3, Ends DEF Says
      <4> QED
        BY <4>1, <4>2
    <3>3. Live(e, s)'
      BY <3>2, <1>4 DEF Live
    <3> QED
      BY <2>1, <3>1, <3>3
  <2>2. CASE f # e \/ t # s
    <3>1. /\ t \in substream_inbound_txs'[f] <=> t \in substream_inbound_txs[f]
          /\ t \in substream_close_txs'[f] <=> t \in substream_close_txs[f]
      BY <2>2, <1>1 DEF PollOutbound, NewSubstream, TypeOK
    <3>2. Live(f, t)' <=> Live(f, t)
      BY <2>2, <1>1, <1>3, <1>4, <1>5, LiveSays
    <3> QED
      BY <3>1, <3>2, <1>5 DEF IndInv, ChannelInv
  <2> QED
    BY <2>1, <2>2
<1>13. \A t \in SubstreamId, k \in 1 .. MaxData : OpenOf(s) # DataAt(t, k)
  BY <1>8, Forms
<1>14. WriteInv'
  BY <1>1, <1>3, <1>5, <1>13, WriteSays DEF IndInv
<1>15. DataInv'
  <2>1. \A f \in End, t \in SubstreamId :
           /\ Received(f, t)' = Received(f, t)
           /\ substream'[f][t] # "dropped" => substream[f][t] # "dropped"
    BY <1>2, <1>4, <1>5 DEF Received
  <2> QED
    BY <1>1, <1>3, <1>5, <1>13, <2>1, DataSays DEF IndInv
<1>16. QueuedInv' /\ ReadInOrder' /\ NoAlarms'
  BY <1>1, <1>2, <1>4, <1>5, QueuedSame DEF IndInv, ReadInOrder, NoAlarms
<1> QED
  BY <1>6, <1>9, <1>10, <1>11, <1>12, <1>14, <1>15, <1>16 DEF IndInv

\* An end that says something of a substream that it has opened and not closed, or
\* wastes a nonce.
LEMMA SayStep ==
    ASSUME IndInv, TypeOK', HandledInv', WriteInv', ReadInOrder',
           NEW e \in End, NEW msg, NEW last, Says(e, last, msg),
           UNCHANGED <<muxer, substream_inbound_txs, substream_close_txs, inbound_open, substream,
                       inbound_rx, handled, read, alarms>>,
           \A t \in SubstreamId :
              /\ msg # OpenOf(t)
              /\ msg = CloseOf(t) => closed'[e][t]
              /\ msg # Hole /\ msg.id = t => substream[e][t] # "none" /\ ~ closed[e][t],
           \A t \in SubstreamId, k \in 1 .. MaxData :
              msg = DataAt(t, k) => ~ (k <= Received(Other(e), t)),
           \A f \in End, t \in SubstreamId : closed[f][t] => closed'[f][t]
    PROVE  IndInv'
<1>1. TypeOK /\ KnownInv /\ OpenInv /\ ClosedInv /\ ChannelInv /\ DataInv /\ QueuedInv /\ NoAlarms
  BY DEF IndInv
<1>2. KnownInv'
  BY <1>1, KnownSays
<1>3. OpenInv'
  <2>1. \A f \in End, t \in SubstreamId : \A n \in Nonces(f) : sent[f][n] = OpenOf(t) =>
           (substream'[Other(f)][t] = "none" <=> handled'[Other(f)] < n)
    BY <1>1 DEF OpenInv
  <2> QED
    BY <1>1, <2>1, OpenSays
<1>4. ClosedInv'
  <2>1. \A t \in SubstreamId : msg # Hole /\ msg.id = t =>
           \A n \in Nonces(e) : sent[e][n] # CloseOf(t)
    BY <1>1 DEF ClosedInv
  <2> QED
    BY <1>1, <2>1, ClosedSays
<1>5. ChannelInv'
  <2>1. \A f \in End, t \in SubstreamId : Live(f, t)' <=> Live(f, t)
    BY <1>1, LiveSays
  <2> QED
    BY <1>1, <2>1 DEF ChannelInv
<1>6. DataInv'
  <2>1. \A f \in End, t \in SubstreamId : Received(f, t)' = Received(f, t)
    BY DEF Received
  <2> QED
    BY <1>1, <2>1, DataSays
<1>7. QueuedInv' /\ NoAlarms'
  BY <1>1, QueuedSame DEF NoAlarms
<1> QED
  BY <1>2, <1>3, <1>4, <1>5, <1>6, <1>7 DEF IndInv

\* A write is numbered, and sent, after all earlier ones on its substream.
LEMMA PollWriteStep ==
    ASSUME IndInv, NEW e \in End, NEW s \in SubstreamId, PollWrite(e, s)
    PROVE  IndInv'
<1> DEFINE w == written[e][s]
<1>1. TypeOK /\ HandledInv /\ WriteInv /\ ReadInOrder /\ Other(e) \in End
  BY Ends DEF IndInv
<1>2. w \in Nat /\ w < MaxData /\ w + 1 \in 1 .. MaxData /\ MaxData \in Nat
  BY <1>1, DataTypes, ConnectionAssumption DEF PollWrite
<1>3. Send(e, DataAt(s, w + 1)) /\ DataAt(s, w + 1) \in Message
  BY <1>2, MessageTypes DEF PollWrite, DataOf, DataAt
<1>4. PICK last : Says(e, last, DataAt(s, w + 1))
  BY <1>1, <1>3, SendEffect
<1>5. UNCHANGED <<muxer, pending_substreams, substream_inbound_txs, substream_close_txs,
                  inbound_open, close_rx, substream, inbound_rx, close_signal, closed, handled,
                  read, alarms>>
  BY DEF PollWrite, muxerVars, substreamVars
<1>6. /\ written'[e][s] = w + 1
      /\ \A f \in End, t \in SubstreamId : f # e \/ t # s => written'[f][t] = written[f][t]
      /\ written' \in [End -> [SubstreamId -> 0 .. MaxData]]
  <2>1. written \in [End -> [SubstreamId -> 0 .. MaxData]]
    BY <1>1 DEF TypeOK
  <2>2. written' = [written EXCEPT ![e][s] = w + 1]
    BY DEF PollWrite
  <2>3. w + 1 \in 0 .. MaxData
    BY <1>2
  <2> HIDE DEF w
  <2> QED
    BY <2>1, <2>2, <2>3
<1>7. TypeOK' /\ HandledInv'
  <2>1. /\ sent' \in [End -> Seq(Message \cup {Hole})]
        /\ \A f \in End : handled[f] <= Len(sent'[Other(f)])
    BY <1>1, <1>3, SendEffect
  <2>2. TypeOK'
    BY <2>1, <1>1, <1>5, <1>6 DEF TypeOK
  <2> QED
    BY <2>1, <2>2, <1>5 DEF HandledInv
<1>8. /\ DataAt(s, w + 1) # Hole /\ DataAt(s, w + 1).id = s
      /\ DataAt(s, w + 1).type = "Data" /\ DataAt(s, w + 1).data = w + 1
  BY Forms
<1>9. \A t \in SubstreamId, k \in 1 .. MaxData : DataAt(s, w + 1) = DataAt(t, k) => t = s /\ k = w + 1
  BY <1>8, Forms
<1>10. WriteInv'
  <2> SUFFICES ASSUME NEW f \in End, NEW t \in SubstreamId
               PROVE  /\ \A k \in 1 .. written'[f][t] :
                            \E n \in Nonces(f)' : sent'[f][n] = DataAt(t, k)
                      /\ \A n \in Nonces(f)', k \in 1 .. MaxData : sent'[f][n] = DataAt(t, k) =>
                            /\ k <= written'[f][t]
                            /\ \A m \in Nonces(f)', j \in 1 .. MaxData :
                                  m < n /\ sent'[f][m] = DataAt(t, j) => j < k
    BY DEF WriteInv
  <2>1. /\ \A k \in 1 .. written[f][t] : \E n \in Nonces(f) : sent[f][n] = DataAt(t, k)
        /\ \A n \in Nonces(f), k \in 1 .. MaxData : sent[f][n] = DataAt(t, k) =>
              /\ k <= written[f][t]
              /\ \A m \in Nonces(f), j \in 1 .. MaxData :
                    m < n /\ sent[f][m] = DataAt(t, j) => j < k
    BY <1>1 DEF WriteInv
  <2>2. \A n \in Nonces(f) : n \in Nonces(f)' /\ sent'[f][n] = sent[f][n]
    BY <1>4 DEF Says
  <2>3. CASE f # e \/ t # s
    <3>1. \A n \in Nonces(f)', k \in 1 .. MaxData : sent'[f][n] = DataAt(t, k) =>
             n \in Nonces(f) /\ sent[f][n] = DataAt(t, k)
      BY <1>4, <1>9, <2>3, SaidBefore
    <3>2. written'[f][t] = written[f][t]
      BY <1>6, <2>3
    <3> QED
      BY <2>1, <2>2, <3>1, <3>2
  <2>4. CASE f = e /\ t = s
    <3>1. last \in Nat /\ last \in Nonces(e)' /\ sent'[e][last] = DataAt(s, w + 1)
      BY <1>4 DEF Says
    <3>2. \A n \in Nonces(e) : n \in Nat /\ n < last
      BY <1>1, <1>4, NoncesType DEF Says
    <3>3. ASSUME NEW k \in 1 .. w + 1
          PROVE  \E n \in Nonces(e)' : sent'[e][n] = DataAt(s, k)
      <4>1. CASE k = w + 1
        BY <3>1, <4>1
      <4>2. CASE k \in 1 .. w
        BY <2>1, <2>2, <2>4, <4>2
      <4> QED
        BY <1>2, <4>1, <4>2
    <3>4. \A n \in Nonces(e)', k \in 1 .. MaxData : sent'[e][n] = DataAt(s, k) =>
             \/ n \in Nonces(e) /\ sent[e][n] = DataAt(s, k)
             \/ n = last /\ k = w + 1
      BY <1>4, <1>9, SaidBefore
    <3>5. ASSUME NEW n \in Nonces(e)', NEW k \in 1 .. MaxData, sent'[e][n] = DataAt(s, k)
          PROVE  /\ k <= w + 1
                 /\ \A m \in Nonces(e)', j \in 1 .. MaxData :
                       m < n /\ sent'[e][m] = DataAt(s, j) => j < k
      <4>1. CASE n \in Nonces(e) /\ sent[e][n] = DataAt(s, k)
        <5>1. k <= w
          BY <2>1, <2>4, <4>1
        <5>2. ASSUME NEW m \in Nonces(e)', NEW j \in 1 .. MaxData, m < n, sent'[e][m] = DataAt(s, j)
              PROVE  j < k
          <6>1. m # last
            BY <3>1, <3>2, <4>1, <5>2
          <6>2. m \in Nonces(e) /\ sent[e][m] = DataAt(s, j)
            BY <3>4, <5>2, <6>1
          <6> QED
            BY <2>1, <2>4, <4>1, <5>2, <6>2
        <5> QED
          BY <1>2, <5>1, <5>2
      <4>2. CASE n = last /\ k = w + 1
        <5>1. ASSUME NEW m \in Nonces(e)', NEW j \in 1 .. MaxData, m < n, sent'[e][m] = DataAt(s, j)
              PROVE  j < k
          <6>1. m # last
            BY <3>1, <4>2, <5>1
          <6>2. m \in Nonces(e) /\ sent[e][m] = DataAt(s, j)
            BY <3>4, <5>1, <6>1
          <6>3. j <= w
            BY <2>1, <2>4, <6>2
          <6> QED
            BY <1>2, <4>2, <6>3
        <5> QED
          BY <1>2, <4>2, <5>1
      <4> QED
        BY <3>4, <3>5, <4>1, <4>2
    <3> QED
      BY <1>6, <2>4, <3>3, <3>5
  <2> QED
    BY <2>3, <2>4
<1>11. ReadInOrder'
  <2> SUFFICES ASSUME NEW f \in End, NEW t \in SubstreamId
               PROVE  /\ \A k \in 1 .. Len(inbound_rx[f][t]) : inbound_rx[f][t][k] = read[f][t] + k
                      /\ read[f][t] + Len(inbound_rx[f][t]) <= written'[Other(f)][t]
    BY <1>5 DEF ReadInOrder
  <2>1. /\ \A k \in 1 .. Len(inbound_rx[f][t]) : inbound_rx[f][t][k] = read[f][t] + k
        /\ read[f][t] + Len(inbound_rx[f][t]) <= written[Other(f)][t]
    BY <1>1 DEF ReadInOrder
  <2>2. /\ read[f][t] \in Nat /\ Len(inbound_rx[f][t]) \in Nat /\ written[Other(f)][t] \in Nat
        /\ Other(f) \in End
    BY <1>1, DataTypes, Ends
  <2>3. written'[Other(f)][t] = written[Other(f)][t] \/ written'[Other(f)][t] = written[Other(f)][t] + 1
    BY <1>6, <2>2
  <2>4. read[f][t] + Len(inbound_rx[f][t]) <= written'[Other(f)][t]
    BY <2>1, <2>2, <2>3
  <2> QED
    BY <2>1, <2>4
<1>12. ~ (w + 1 <= Received(Other(e), s))
  <2>1. Received(Other(e), s) <= w
    BY <1>1, Ends DEF ReadInOrder, Received
  <2>2. Received(Other(e), s) \in Nat
    BY <1>1, DataTypes
  <2> QED
    BY <1>2, <2>1, <2>2
<1>13. /\ \A t \in SubstreamId : DataAt(s, w + 1) # OpenOf(t) /\ DataAt(s, w + 1) # CloseOf(t)
       /\ substream[e][s] # "none" /\ ~ closed[e][s]
  BY <1>8, Forms DEF PollWrite, MayGoOn
<1>14. \A t \in SubstreamId, k \in 1 .. MaxData :
          DataAt(s, w + 1) = DataAt(t, k) => ~ (k <= Received(Other(e), t))
  BY <1>9, <1>12
<1> QED
  BY <1>4, <1>5, <1>7, <1>8, <1>10, <1>11, <1>13, <1>14, SayStep

\* A close says Close once; later ones waste a nonce.
LEMMA PollCloseSubstreamStep ==
    ASSUME IndInv, NEW e \in End, NEW s \in SubstreamId, PollCloseSubstream(e, s)
    PROVE  IndInv'
<1>1. TypeOK /\ HandledInv /\ WriteInv /\ ReadInOrder
  BY DEF IndInv
<1>2. UNCHANGED <<muxer, pending_substreams, substream_inbound_txs, substream_close_txs,
                  inbound_open, close_rx, substream, inbound_rx, close_signal, handled, written,
                  read, alarms>>
  BY DEF PollCloseSubstream, muxerVars, appVars
<1>3. PICK msg \in Message \cup {Hole} :
         /\ Send(e, msg)
         /\ msg = Hole \/ (msg = CloseOf(s) /\ ~ closed[e][s] /\ closed'[e][s])
  <2>1. CASE /\ ~ closed[e][s] /\ closed' = [closed EXCEPT ![e][s] = TRUE]
             /\ Send(e, CloseOf(s))
    <3>1. closed'[e][s]
      BY <2>1, <1>1 DEF TypeOK
    <3> QED
      BY <2>1, <3>1, MessageTypes
  <2>2. CASE Send(e, Hole)
    BY <2>2
  <2> QED
    BY <2>1, <2>2 DEF PollCloseSubstream, CloseOf
<1>4. PICK last : Says(e, last, msg)
  BY <1>1, <1>3, SendEffect
<1>5. /\ closed' \in [End -> [SubstreamId -> BOOLEAN]]
      /\ \A f \in End, t \in SubstreamId : closed[f][t] => closed'[f][t]
  <2>1. closed \in [End -> [SubstreamId -> BOOLEAN]]
    BY <1>1 DEF TypeOK
  <2>2. CASE closed' = closed
    BY <2>1, <2>2
  <2>3. CASE closed' = [closed EXCEPT ![e][s] = TRUE]
    BY <2>1, <2>3
  <2> QED
    BY <2>2, <2>3 DEF PollCloseSubstream
<1>6. TypeOK' /\ HandledInv'
  <2>1. /\ sent' \in [End -> Seq(Message \cup {Hole})]
        /\ \A f \in End : handled[f] <= Len(sent'[Other(f)])
    BY <1>1, <1>3, SendEffect
  <2>2. TypeOK'
    BY <2>1, <1>1, <1>2, <1>5 DEF TypeOK
  <2> QED
    BY <2>1, <2>2, <1>2 DEF HandledInv
<1>7. /\ CloseOf(s) # Hole /\ CloseOf(s).id = s /\ CloseOf(s).type = "Close" /\ Hole.type = "none"
      /\ \A t, k : /\ OpenOf(t).type = "OpenRequest" /\ DataAt(t, k).type = "Data"
                   /\ CloseOf(t).id = t /\ CloseOf(t).type = "Close"
  BY Forms
<1>8. \A t, k : msg # OpenOf(t) /\ msg # DataAt(t, k)
  BY <1>3, <1>7
<1>9. \A t \in SubstreamId :
         /\ msg = CloseOf(t) => closed'[e][t]
         /\ msg # Hole /\ msg.id = t => substream[e][t] # "none" /\ ~ closed[e][t]
  BY <1>3, <1>7 DEF PollCloseSubstream
<1>10. WriteInv'
  BY <1>1, <1>2, <1>4, <1>8, WriteSays
<1>11. ReadInOrder'
  BY <1>1, <1>2 DEF ReadInOrder
<1> QED
  <2>1. \A t \in SubstreamId, k \in 1 .. MaxData :
           msg = DataAt(t, k) => ~ (k <= Received(Other(e), t))
    BY <1>8
  <2>2. \A t \in SubstreamId :
              /\ msg # OpenOf(t)
              /\ msg = CloseOf(t) => closed'[e][t]
              /\ msg # Hole /\ msg.id = t => substream[e][t] # "none" /\ ~ closed[e][t]
    BY <1>8, <1>9
  <2> QED
    BY <1>2, <1>4, <1>5, <1>6, <1>10, <1>11, <2>1, <2>2, SayStep

(***************************************************************************)
(* Connection::poll.  In all that follows, n is the nonce of the message   *)
(* that e takes.                                                           *)
(***************************************************************************)
Takes(e, n) ==
    /\ HasInbound(e)
    /\ n = handled[e] + 1
    /\ handled' = [handled EXCEPT ![e] = n]

\* The message that is taken was sent, and nothing of the other end's was taken in its place.
LEMMA TakesTypes ==
    ASSUME TypeOK, HandledInv, NEW e \in End, NEW n, Takes(e, n)
    PROVE  /\ n \in Nat /\ n \in Nonces(Other(e)) /\ handled[e] \in Nat /\ n = handled[e] + 1
           /\ sent[Other(e)][n] \in Message
           /\ handled' \in [End -> Nat] /\ handled'[e] = n
           /\ \A f \in End : f # e => handled'[f] = handled[f]
           /\ \A f \in End : handled'[f] <= Len(sent[Other(f)])
           /\ muxer[e] = "open"
<1>1. handled \in [End -> Nat] /\ handled[e] \in Nat /\ Other(e) \in End
  BY Ends DEF TypeOK
<1>2. n = handled[e] + 1 /\ handled' = [handled EXCEPT ![e] = n] /\ n \in Nat
  BY <1>1 DEF Takes
<1>3. /\ handled[e] < Len(sent[Other(e)]) /\ sent[Other(e)][n] # Hole /\ muxer[e] = "open"
  BY <1>2 DEF Takes, HasInbound
<1>4. Len(sent[Other(e)]) \in Nat
  BY <1>1, NoncesType
<1>5. n \in Nonces(Other(e)) /\ n <= Len(sent[Other(e)])
  BY <1>1, <1>2, <1>3, <1>4 DEF Nonces
<1>6. sent[Other(e)][n] \in Message
  BY <1>1, <1>3, <1>5, NoncesType
<1>7. /\ handled' \in [End -> Nat] /\ handled'[e] = n
      /\ \A f \in End : f # e => handled'[f] = handled[f]
  BY <1>1, <1>2
<1>8. \A f \in End : handled'[f] <= Len(sent[Other(f)])
  BY <1>5, <1>7 DEF HandledInv
<1> QED
  BY <1>1, <1>2, <1>3, <1>5, <1>6, <1>7, <1>8

\* The first message about a substream is its OpenRequest, and the Close is the last: for
\* any other message the Connection has the channels.
LEMMA TakesKnown ==
    ASSUME IndInv, NEW e \in End, NEW n, Takes(e, n), NEW s \in SubstreamId,
           sent[Other(e)][n].id = s
    PROVE  /\ sent[Other(e)][n] # OpenOf(s) => substream[e][s] # "none"
           /\ sent[Other(e)][n] # OpenOf(s) => s \in substream_inbound_txs[e]
           /\ sent[Other(e)][n] = OpenOf(s) =>
                 substream[e][s] = "none" /\ s \notin substream_inbound_txs[e]
           /\ substream[Other(e)][s] # "none"
           /\ About(Other(e), n, s)
<1>1. TypeOK /\ HandledInv /\ KnownInv /\ OpenInv /\ ClosedInv /\ ChannelInv
  BY DEF IndInv
<1>2. /\ n \in Nat /\ n \in Nonces(Other(e)) /\ handled[e] \in Nat /\ n = handled[e] + 1
      /\ sent[Other(e)][n] \in Message /\ muxer[e] = "open"
      /\ Other(e) \in End /\ Other(Other(e)) = e
      /\ Nonces(Other(e)) \subseteq Nat
  BY <1>1, TakesTypes, Ends, NoncesType
<1>3. About(Other(e), n, s)
  BY <1>2, MessageForms DEF About
<1>4. substream[Other(e)][s] # "none"
  BY <1>1, <1>2, <1>3 DEF KnownInv
<1>5. ASSUME sent[Other(e)][n] # OpenOf(s), substream[e][s] = "none"
      PROVE  FALSE
  <2>1. PICK m \in Nonces(Other(e)) : sent[Other(e)][m] = OpenOf(s)
    BY <1>1, <1>2, <1>4, <1>5 DEF KnownInv
  <2>2. /\ \A k \in Nonces(Other(e)) : k < m => ~ About(Other(e), k, s)
        /\ handled[e] < m
    BY <1>1, <1>2, <1>5, <2>1 DEF OpenInv
  <2>3. m = n \/ n < m
    BY <1>2, <2>2
  <2> QED
    BY <1>2, <1>3, <1>5, <2>1, <2>2, <2>3
<1>6. ASSUME sent[Other(e)][n] # OpenOf(s)
      PROVE  Live(e, s)
  <2>1. ASSUME NEW m \in Nonces(Other(e)), m <= handled[e], sent[Other(e)][m] = CloseOf(s)
        PROVE  FALSE
    <3>1. m < n
      BY <1>2, <2>1
    <3> QED
      BY <1>1, <1>2, <1>3, <2>1, <3>1 DEF ClosedInv
  <2> QED
    BY <1>5, <1>6, <2>1 DEF Live
<1>7. ASSUME sent[Other(e)][n] = OpenOf(s)
      PROVE  substream[e][s] = "none"
  <2>1. handled[e] < n
    BY <1>2
  <2> QED
    BY <1>1, <1>2, <1>7, <2>1 DEF OpenInv
<1>8. s \in substream_inbound_txs[e] <=> Live(e, s)
  BY <1>1, <1>2 DEF ChannelInv
<1>9. substream[e][s] = "none" => ~ Live(e, s)
  BY DEF Live
<1> QED
  BY <1>3, <1>4, <1>5, <1>6, <1>7, <1>8, <1>9

\* Taking a message other than an OpenRequest: what remains to show.
LEMMA TakeStep ==
    ASSUME IndInv, TypeOK', NEW e \in End, NEW n, Takes(e, n),
           sent[Other(e)][n].type # "OpenRequest",
           UNCHANGED <<sent, substream, closed, inbound_open, written, alarms>>,
           ChannelInv', DataInv', ReadInOrder'
    PROVE  IndInv'
<1>1. TypeOK /\ HandledInv /\ KnownInv /\ OpenInv /\ ClosedInv /\ WriteInv /\ QueuedInv /\ NoAlarms
  BY DEF IndInv
<1>2. /\ n \in Nat /\ handled[e] \in Nat /\ n = handled[e] + 1 /\ handled'[e] = n
      /\ \A f \in End : f # e => handled'[f] = handled[f]
      /\ \A f \in End : handled'[f] <= Len(sent[Other(f)])
      /\ Other(e) \in End /\ Nonces(Other(e)) \subseteq Nat
  BY <1>1, TakesTypes, Ends, NoncesType
<1>3. HandledInv'
  BY <1>2 DEF HandledInv
<1>4. KnownInv' /\ OpenInv' /\ ClosedInv'
  <2>1. ASSUME NEW f \in End, NEW t \in SubstreamId, NEW m \in Nonces(Other(f)),
               sent[Other(f)][m] = OpenOf(t)
        PROVE  handled'[f] < m <=> handled[f] < m
    <3>1. CASE f = e
      <4>1. m # n
        BY <2>1, <3>1, Forms
      <4>2. m \in Nat
        BY <1>2, <3>1
      <4> QED
        BY <1>2, <3>1, <4>1, <4>2
    <3>2. CASE f # e
      BY <1>2, <3>2
    <3> QED
      BY <3>1, <3>2
  <2> QED
    BY <1>1, <2>1, Silent
<1>5. QueuedInv' /\ NoAlarms' /\ WriteInv'
  BY <1>1 DEF QueuedInv, NoAlarms, WriteInv, Nonces
<1> QED
  BY <1>3, <1>4, <1>5 DEF IndInv

\* The channels to keep after a message is taken.
LEMMA LiveTakes ==
    ASSUME TypeOK, HandledInv, NEW e \in End, NEW n, Takes(e, n), sent' = sent,
           substream' = substream, NEW f \in End, NEW t \in SubstreamId
    PROVE  Live(f, t)' <=> Live(f, t) /\ ~ (f = e /\ sent[Other(e)][n] = CloseOf(t))
<1>1. /\ n \in Nat /\ handled[e] \in Nat /\ n = handled[e] + 1 /\ handled'[e] = n
      /\ f # e => handled'[f] = handled[f]
      /\ n \in Nonces(Other(e)) /\ Other(e) \in End /\ Nonces(Other(e)) \subseteq Nat
      /\ Nonces(Other(f))' = Nonces(Other(f))
  BY TakesTypes, Ends, NoncesType DEF Nonces
<1>2. CASE f # e
  BY <1>1, <1>2 DEF Live
<1>3. CASE f = e
  <2>1. \A m \in Nonces(Other(e)) : m <= n <=> (m <= handled[e] \/ m = n)
    BY <1>1
  <2> QED
    BY <1>1, <1>3, <2>1 DEF Live
<1> QED
  BY <1>2, <1>3

\* Data counts as received exactly when it was taken, if the message is not data.
LEMMA DataTakes ==
    ASSUME TypeOK, HandledInv, DataInv, NEW e \in End, NEW n, Takes(e, n),
           sent[Other(e)][n].type # "Data",
           UNCHANGED <<sent, substream, inbound_rx, read>>
    PROVE  DataInv'
<1> SUFFICES ASSUME NEW f \in End, NEW t \in SubstreamId, substream[f][t] # "dropped",
                    NEW m \in Nonces(Other(f)), NEW k \in 1 .. MaxData,
                    sent[Other(f)][m] = DataAt(t, k)
             PROVE  m <= handled'[f] <=> k <= Received(f, t)
  BY DEF DataInv, Received, Nonces
<1>1. m <= handled[f] <=> k <= Received(f, t)
  BY DEF DataInv
<1>2. /\ n \in Nat /\ handled[e] \in Nat /\ n = handled[e] + 1 /\ handled'[e] = n
      /\ f # e => handled'[f] = handled[f]
      /\ Other(f) \in End /\ Nonces(Other(f)) \subseteq Nat
  BY TakesTypes, Ends, NoncesType
<1>3. CASE f = e
  <2>1. m # n
    BY <1>3, Forms
  <2>2. m \in Nat
    BY <1>2
  <2> QED
    BY <1>1, <1>2, <1>3, <2>1, <2>2
<1>4. CASE f # e
  BY <1>1, <1>2, <1>4
<1> QED
  BY <1>3, <1>4

\* OpenResponse: only pending_substreams changes.
LEMMA HandleOpenResponseStep ==
    ASSUME IndInv, NEW e \in End, NEW n, Takes(e, n), UNCHANGED appVars,
           HandleOpenResponse(e, sent[Other(e)][n])
    PROVE  IndInv'
<1>1. TypeOK /\ HandledInv /\ ChannelInv /\ DataInv /\ ReadInOrder
  BY DEF IndInv
<1>2. UNCHANGED <<muxer, substream_inbound_txs, substream_close_txs, inbound_open, close_rx,
                  substream, inbound_rx, close_signal, closed, sent, written, read, alarms>>
  BY DEF HandleOpenResponse, substreamVars, appVars
<1>3. sent[Other(e)][n].type = "OpenResponse"
  BY DEF HandleOpenResponse
<1>4. TypeOK'
  <2>1. handled' \in [End -> Nat]
    BY <1>1, TakesTypes
  <2>2. pending_substreams' \in [End -> SUBSET SubstreamId]
    BY <1>1 DEF HandleOpenResponse, TypeOK
  <2> QED
    BY <2>1, <2>2, <1>1, <1>2 DEF TypeOK
<1>5. ChannelInv'
  <2>1. \A t \in SubstreamId : sent[Other(e)][n] # CloseOf(t)
    BY <1>3, Forms
  <2>2. \A f \in End, t \in SubstreamId : Live(f, t)' <=> Live(f, t)
    BY <1>1, <1>2, <2>1, LiveTakes
  <2> QED
    BY <1>1, <1>2, <2>2 DEF ChannelInv
<1>6. DataInv'
  BY <1>1, <1>2, <1>3, DataTakes
<1>7. ReadInOrder'
  BY <1>1, <1>2 DEF ReadInOrder
<1> QED
  BY <1>2, <1>3, <1>4, <1>5, <1>6, <1>7, TakeStep

\* Close: the substream has its channels, and loses them.
LEMMA HandleCloseStep ==
    ASSUME IndInv, NEW e \in End, NEW n, Takes(e, n), UNCHANGED appVars,
           HandleClose(e, sent[Other(e)][n])
    PROVE  IndInv'
<1>1. TypeOK /\ HandledInv /\ ChannelInv /\ DataInv /\ ReadInOrder
  BY DEF IndInv
<1>2. PICK msg \in Message : msg = sent[Other(e)][n]
  BY <1>1, TakesTypes
<1>3. PICK s \in SubstreamId : s = msg.id
  BY MessageForms
<1>4. msg.type = "Close" /\ msg = CloseOf(s) /\ msg # OpenOf(s)
  BY <1>2, <1>3, MessageForms, Forms DEF HandleClose
<1>5. s \in substream_inbound_txs[e]
  BY <1>2, <1>3, <1>4, TakesKnown
<1>6. /\ HandleClose(e, msg) /\ muxer[e] = "open" /\ handled' \in [End -> Nat]
  BY <1>1, <1>2, TakesTypes
<1>7. /\ substream_inbound_txs' = [substream_inbound_txs EXCEPT ![e] = @ \ {s}]
      /\ substream_close_txs' = [substream_close_txs EXCEPT ![e] = @ \ {s}]
      /\ alarms' = alarms
      /\ UNCHANGED <<pending_substreams, inbound_open, substream, inbound_rx, closed, sent,
                     written, read>>
  BY <1>3, <1>5, <1>6 DEF HandleClose, appVars
<1>8. \/ /\ close_signal' = [close_signal EXCEPT ![e][s] = TRUE]
         /\ close_rx' = [close_rx EXCEPT ![e] = Append(@, s)]
         /\ muxer' = muxer
      \/ /\ muxer' = [muxer EXCEPT ![e] = "failed"]
         /\ UNCHANGED <<close_signal, close_rx>>
  BY <1>3, <1>5, <1>6 DEF HandleClose
<1>9. /\ substream_inbound_txs' \in [End -> SUBSET SubstreamId]
      /\ substream_close_txs' \in [End -> SUBSET SubstreamId]
      /\ \A f \in End, t \in SubstreamId :
            /\ t \in substream_inbound_txs'[f] <=> t \in substream_inbound_txs[f] /\ ~ (f = e /\ t = s)
            /\ t \in substream_close_txs'[f] <=> t \in substream_close_txs[f] /\ ~ (f = e /\ t = s)
  BY <1>1, <1>7 DEF TypeOK
<1>10. /\ muxer' \in [End -> {"open", "failed", "dropped"}]
       /\ \A f \in End : muxer'[f] = "open" => muxer[f] = "open"
  <2>1. muxer \in [End -> {"open", "failed", "dropped"}]
    BY <1>1 DEF TypeOK
  <2>2. CASE muxer' = muxer
    BY <2>1, <2>2
  <2>3. CASE muxer' = [muxer EXCEPT ![e] = "failed"]
    BY <2>1, <2>3
  <2> QED
    BY <1>8, <2>2, <2>3
<1>11. close_signal' \in [End -> [SubstreamId -> BOOLEAN]]
  <2>1. close_signal \in [End -> [SubstreamId -> BOOLEAN]]
    BY <1>1 DEF TypeOK
  <2>2. CASE close_signal' = [close_signal EXCEPT ![e][s] = TRUE]
    BY <2>1, <2>2
  <2> QED
    BY <1>8, <2>1, <2>2
<1>12. close_rx' \in [End -> Seq(SubstreamId)]
  <2>1. close_rx \in [End -> Seq(SubstreamId)] /\ Append(close_rx[e], s) \in Seq(SubstreamId)
    BY <1>1, AppendProperties DEF TypeOK
  <2>2. CASE close_rx' = [close_rx EXCEPT ![e] = Append(@, s)]
    BY <2>1, <2>2
  <2> QED
    BY <1>8, <2>1, <2>2
<1>13. TypeOK'
  BY <1>1, <1>6, <1>7, <1>9, <1>10, <1>11, <1>12 DEF TypeOK
<1>14. ChannelInv'
  <2>1. \A t \in SubstreamId : sent[Other(e)][n] = CloseOf(t) <=> t = s
    BY <1>2, <1>4, Forms
  <2>2. \A f \in End, t \in SubstreamId : Live(f, t)' <=> Live(f, t) /\ ~ (f = e /\ t = s)
    BY <1>1, <1>7, <2>1, LiveTakes
  <2> QED
    BY <1>1, <1>9, <1>10, <2>2 DEF ChannelInv
<1>15. DataInv'
  BY <1>1, <1>2, <1>4, <1>7, DataTakes
<1>16. ReadInOrder'
  BY <1>1, <1>7 DEF ReadInOrder
<1> QED
  BY <1>2, <1>4, <1>7, <1>13, <1>14, <1>15, <1>16, TakeStep

\* Data comes in the order of the writes: what is taken is the next that the substream wants.
LEMMA NextData ==
    ASSUME IndInv, NEW e \in End, NEW n, Takes(e, n), NEW s \in SubstreamId, NEW k \in 1 .. MaxData,
           sent[Other(e)][n] = DataAt(s, k), substream[e][s] # "dropped"
    PROVE  k = Received(e, s) + 1 /\ k <= written[Other(e)][s]
<1>1. TypeOK /\ HandledInv /\ WriteInv /\ DataInv
  BY DEF IndInv
<1>2. /\ n \in Nat /\ n \in Nonces(Other(e)) /\ handled[e] \in Nat /\ n = handled[e] + 1
      /\ Other(e) \in End /\ Nonces(Other(e)) \subseteq Nat
  BY <1>1, TakesTypes, Ends, NoncesType
<1>3. Received(e, s) \in Nat /\ written[Other(e)][s] \in Nat /\ MaxData \in Nat
  BY <1>1, DataTypes, ConnectionAssumption
<1>4. k <= written[Other(e)][s]
  BY <1>1, <1>2 DEF WriteInv
<1>5. ~ (k <= Received(e, s))
  <2>1. ~ (n <= handled[e])
    BY <1>2
  <2> QED
    BY <1>1, <1>2, <2>1 DEF DataInv
<1>6. ASSUME Received(e, s) + 1 < k
      PROVE  FALSE
  <2>1. PICK j \in 1 .. MaxData : j = Received(e, s) + 1 /\ j < k /\ j \in 1 .. written[Other(e)][s]
    BY <1>3, <1>4, <1>6
  <2>2. PICK m \in Nonces(Other(e)) : sent[Other(e)][m] = DataAt(s, j)
    BY <1>1, <1>2, <2>1 DEF WriteInv
  <2>3. ~ (j <= Received(e, s))
    BY <1>3, <2>1
  <2>4. ~ (m <= handled[e])
    BY <1>1, <2>2, <2>3 DEF DataInv
  <2>5. m # n
    <3>1. DataAt(s, j).data = j /\ DataAt(s, k).data = k
      BY Forms
    <3> QED
      BY <2>1, <2>2, <3>1
  <2>6. n < m
    BY <1>2, <2>4, <2>5
  <2>7. k < j
    BY <1>1, <1>2, <2>2, <2>6 DEF WriteInv
  <2> QED
    BY <2>1, <2>7
<1> QED
  BY <1>3, <1>4, <1>5, <1>6

\* Data: the substream has its channel, and the data goes to its end, unless the substream
\* was dropped.
LEMMA HandleDataStep ==
    ASSUME IndInv, NEW e \in End, NEW n, Takes(e, n), UNCHANGED appVars,
           HandleData(e, sent[Other(e)][n])
    PROVE  IndInv'
<1>1. TypeOK /\ HandledInv /\ ChannelInv /\ WriteInv /\ DataInv /\ ReadInOrder
  BY DEF IndInv
<1>2. PICK msg \in Message : msg = sent[Other(e)][n]
  BY <1>1, TakesTypes
<1>3. PICK s \in SubstreamId : s = msg.id
  BY MessageForms
<1>4. PICK k \in 1 .. MaxData : k = msg.data /\ msg = DataAt(s, k)
  BY <1>2, <1>3, MessageForms DEF HandleData
<1>5. msg.type = "Data" /\ msg # OpenOf(s) /\ \A t \in SubstreamId : msg # CloseOf(t)
  BY <1>4, Forms
<1>6. s \in substream_inbound_txs[e]
  BY <1>2, <1>3, <1>5, TakesKnown
<1>7. UNCHANGED <<muxer, alarms, pending_substreams, substream_inbound_txs, substream_close_txs,
                  inbound_open, close_rx, substream, close_signal, closed, sent, written, read>>
  BY <1>2, <1>3, <1>6 DEF HandleData, appVars
<1>8. inbound_rx' = [inbound_rx EXCEPT ![e][s] =
                        IF substream[e][s] # "dropped" THEN Append(@, k) ELSE @]
  BY <1>2, <1>3, <1>4, <1>6 DEF HandleData
<1>9. PICK q \in Seq(1 .. MaxData) : q = inbound_rx[e][s]
  BY <1>1, DataTypes, Zenon
<1>10. /\ Append(q, k) \in Seq(1 .. MaxData) /\ Len(Append(q, k)) = Len(q) + 1 /\ Len(q) \in Nat
       /\ \A i \in 1 .. Len(q) : Append(q, k)[i] = q[i]
       /\ Append(q, k)[Len(q) + 1] = k
  BY Appended, Zenon
<1>11. /\ \A f \in End, t \in SubstreamId : f # e \/ t # s => inbound_rx'[f][t] = inbound_rx[f][t]
       /\ substream[e][s] # "dropped" => inbound_rx'[e][s] = Append(q, k)
       /\ substream[e][s] = "dropped" => inbound_rx'[e][s] = q
       /\ inbound_rx' \in [End -> [SubstreamId -> Seq(1 .. MaxData)]]
  <2>1. PICK r \in Seq(1 .. MaxData) :
           /\ substream[e][s] # "dropped" => r = Append(q, k)
           /\ substream[e][s] = "dropped" => r = q
           /\ inbound_rx' = [inbound_rx EXCEPT ![e][s] = r]
    <3>1. CASE substream[e][s] # "dropped"
      BY <1>8, <1>9, <1>10, <3>1
    <3>2. CASE substream[e][s] = "dropped"
      BY <1>8, <1>9, <3>2
    <3> QED
      BY <3>1, <3>2
  <2>2. inbound_rx \in [End -> [SubstreamId -> Seq(1 .. MaxData)]]
    BY <1>1 DEF TypeOK
  <2> QED
    BY <2>1, <2>2
<1>12. TypeOK'
  <2>1. handled' \in [End -> Nat]
    BY <1>1, TakesTypes
  <2> QED
    BY <2>1, <1>1, <1>7, <1>11 DEF TypeOK
<1>13. ChannelInv'
  <2>1. \A f \in End, t \in SubstreamId : Live(f, t)' <=> Live(f, t)
    BY <1>1, <1>2, <1>5, <1>7, LiveTakes
  <2> QED
    BY <1>1, <1>7, <2>1 DEF ChannelInv
<1>14. substream[e][s] # "dropped" => k = Received(e, s) + 1 /\ k <= written[Other(e)][s]
  BY <1>2, <1>4, NextData
<1>15. Received(e, s) = read[e][s] + Len(q) /\ read[e][s] \in Nat /\ Received(e, s) \in Nat
  BY <1>1, <1>9, DataTypes DEF Received
<1>16. /\ substream[e][s] # "dropped" => Received(e, s)' = k
       /\ \A f \in End, t \in SubstreamId : f # e \/ t # s => Received(f, t)' = Received(f, t)
  <2>1. ASSUME substream[e][s] # "dropped"
        PROVE  Received(e, s)' = k
    <3>1. Received(e, s)' = read[e][s] + Len(Append(q, k))
      BY <2>1, <1>7, <1>11 DEF Received
    <3>2. Len(Append(q, k)) = Len(q) + 1 /\ Len(q) \in Nat
      BY <1>10
    <3>3. read[e][s] + (Len(q) + 1) = k
      BY <2>1, <3>2, <1>14, <1>15
    <3> QED
      BY <3>1, <3>2, <3>3, Zenon
  <2> QED
    BY <2>1, <1>7, <1>11 DEF Received
<1>17. ReadInOrder'
  <2> SUFFICES ASSUME NEW f \in End, NEW t \in SubstreamId
               PROVE  /\ \A i \in 1 .. Len(inbound_rx'[f][t]) : inbound_rx'[f][t][i] = read[f][t] + i
                      /\ read[f][t] + Len(inbound_rx'[f][t]) <= written[Other(f)][t]
    BY <1>7 DEF ReadInOrder
  <2>1. /\ \A i \in 1 .. Len(inbound_rx[f][t]) : inbound_rx[f][t][i] = read[f][t] + i
        /\ read[f][t] + Len(inbound_rx[f][t]) <= written[Other(f)][t]
    BY <1>1 DEF ReadInOrder
  <2>2. CASE f = e /\ t = s /\ substream[e][s] # "dropped"
    <3>1. ASSUME NEW i \in 1 .. Len(Append(q, k))
          PROVE  Append(q, k)[i] = read[e][s] + i
      <4>1. CASE i \in 1 .. Len(q)
        <5>1. Append(q, k)[i] = q[i]
          BY <1>10, <4>1
        <5> QED
          BY <1>9, <2>1, <2>2, <4>1, <5>1
      <4>2. CASE i = Len(q) + 1
        <5>1. k = Received(e, s) + 1
          BY <1>14, <2>2, Zenon
        <5>2. Len(q) \in Nat
          BY <1>10
        <5>3. k = read[e][s] + (Len(q) + 1)
          BY <5>1, <5>2, <1>15
        <5> QED
          BY <1>10, <4>2, <5>3
      <4> QED
        BY <1>10, <4>1, <4>2
    <3>2. read[e][s] + Len(Append(q, k)) <= written[Other(e)][s]
      <4>1. Len(Append(q, k)) = Len(q) + 1 /\ Len(q) \in Nat
        BY <1>10
      <4>2. k = Received(e, s) + 1 /\ k <= written[Other(e)][s]
        BY <2>2, <1>14, Zenon
      <4>3. Received(e, s) = read[e][s] + Len(q) /\ read[e][s] \in Nat
        BY <1>15, Zenon
      <4>4. k = (read[e][s] + Len(q)) + 1
        BY <4>2, <4>3, Zenon
      <4>5. \A x, y \in Nat : (x + y) + 1 = x + (y + 1)
        OBVIOUS
      <4>6. read[e][s] + (Len(q) + 1) = k
        BY <4>1, <4>3, <4>4, <4>5, Zenon
      <4> QED
        BY <4>1, <4>2, <4>6, Zenon
    <3> QED
      BY <1>11, <2>2, <3>1, <3>2, Zenon
  <2>3. CASE ~ (f = e /\ t = s /\ substream[e][s] # "dropped")
    <3>1. inbound_rx'[f][t] = inbound_rx[f][t]
      BY <1>9, <1>11, <2>3
    <3> QED
      BY <2>1, <3>1, Zenon
  <2> QED
    BY <2>2, <2>3
<1>18. DataInv'
  <2> SUFFICES ASSUME NEW f \in End, NEW t \in SubstreamId, substream[f][t] # "dropped",
                      NEW m \in Nonces(Other(f)), NEW i \in 1 .. MaxData,
                      sent[Other(f)][m] = DataAt(t, i)
               PROVE  m <= handled'[f] <=> i <= Received(f, t)'
    BY <1>7 DEF DataInv, Nonces
  <2>1. m <= handled[f] <=> i <= Received(f, t)
    BY <1>1 DEF DataInv
  <2>2. /\ n \in Nat /\ n \in Nonces(Other(e)) /\ handled[e] \in Nat /\ n = handled[e] + 1
        /\ handled'[e] = n /\ \A g \in End : g # e => handled'[g] = handled[g]
        /\ Other(f) \in End /\ Nonces(Other(f)) \subseteq Nat
    BY <1>1, TakesTypes, Ends, NoncesType
  <2>3. CASE f # e
    BY <1>16, <2>1, <2>2, <2>3
  <2>4. CASE f = e /\ t # s
    <3>1. m # n
      <4>1. DataAt(t, i).id = t /\ DataAt(s, k).id = s
        BY Forms
      <4> QED
        BY <1>2, <1>4, <2>4, <4>1
    <3>2. m <= n <=> m <= handled[e]
      BY <2>2, <3>1
    <3> QED
      BY <1>16, <2>1, <2>2, <2>4, <3>2
  <2>5. CASE f = e /\ t = s
    <3>1. Received(e, s)' = k /\ k = Received(e, s) + 1
      BY <1>14, <1>16, <2>5
    <3>2. sent[Other(e)][n] = DataAt(s, k) /\ sent[Other(e)][m] = DataAt(s, i)
      BY <1>2, <1>4, <2>5
    <3>3. CASE m = n
      <4>1. DataAt(s, i).data = i /\ DataAt(s, k).data = k
        BY Forms
      <4>2. i = k
        BY <3>2, <3>3, <4>1
      <4> QED
        BY <2>2, <2>5, <3>1, <3>3, <4>2
    <3>4. CASE m < n
      <4>1. m <= handled[e] /\ m <= n
        BY <2>2, <3>4
      <4>2. i <= Received(e, s)
        BY <2>1, <2>5, <4>1
      <4> QED
        BY <1>15, <2>2, <2>5, <3>1, <4>1, <4>2
    <3>5. CASE n < m
      <4>1. k < i
        BY <1>1, <2>2, <2>5, <3>2, <3>5, Ends DEF WriteInv
      <4> QED
        BY <2>2, <2>5, <3>1, <3>5, <4>1
    <3> QED
      BY <2>2, <2>5, <3>3, <3>4, <3>5
  <2> QED
    BY <2>3, <2>4, <2>5
<1> QED
  BY <1>2, <1>5, <1>7, <1>12, <1>13, <1>17, <1>18, TakeStep

\* OpenRequest: the ID is new here, and so are the substream, its channels and the answer.
LEMMA HandleOpenRequestStep ==
    ASSUME IndInv, NEW e \in End, NEW n, Takes(e, n), UNCHANGED appVars,
           HandleOpenRequest(e, sent[Other(e)][n])
    PROVE  IndInv'
<1>1. TypeOK /\ HandledInv /\ KnownInv /\ OpenInv /\ ClosedInv /\ ChannelInv /\ WriteInv /\ DataInv
      /\ QueuedInv /\ ReadInOrder /\ NoAlarms
  BY DEF IndInv
<1>2. PICK msg \in Message : msg = sent[Other(e)][n]
  BY <1>1, TakesTypes
<1>3. PICK s \in SubstreamId : s = msg.id
  BY MessageForms
<1>4. msg = OpenOf(s) /\ \A t, k : msg # CloseOf(t) /\ msg # DataAt(t, k)
  BY <1>2, <1>3, MessageForms, Forms DEF HandleOpenRequest
<1>5. /\ substream[e][s] = "none" /\ s \notin substream_inbound_txs[e]
      /\ substream[Other(e)][s] # "none" /\ About(Other(e), n, s)
  BY <1>2, <1>3, <1>4, TakesKnown
<1>6. /\ n \in Nat /\ n \in Nonces(Other(e)) /\ handled[e] \in Nat /\ n = handled[e] + 1
      /\ handled' \in [End -> Nat] /\ handled'[e] = n
      /\ \A f \in End : f # e => handled'[f] = handled[f]
      /\ \A f \in End : handled'[f] <= Len(sent[Other(f)])
      /\ Other(e) \in End /\ Other(e) # e /\ Other(Other(e)) = e
      /\ Nonces(Other(e)) \subseteq Nat
  BY <1>1, TakesTypes, Ends, NoncesType
<1>7. PICK answer \in Message :
         /\ answer.id = s /\ answer.type = "OpenResponse"
         /\ Send(e, answer)
         /\ inbound_open' = [inbound_open EXCEPT ![e] = Append(@, s)]
         /\ NewSubstream(e, s, "queued")
         /\ UNCHANGED <<muxer, alarms, pending_substreams, close_rx, inbound_rx, close_signal, closed,
                        written, read>>
  <2>1. [type |-> "OpenResponse", id |-> s] \in Message
    BY MessageTypes
  <2>2. HandleOpenRequest(e, msg)
    BY <1>2
  <2>3. /\ Send(e, [type |-> "OpenResponse", id |-> s])
        /\ inbound_open' = [inbound_open EXCEPT ![e] = Append(@, s)]
        /\ NewSubstream(e, s, "queued")
        /\ UNCHANGED <<muxer, alarms, pending_substreams, close_rx, inbound_rx, close_signal, closed,
                       written, read>>
    BY <1>3, <1>5, <2>2 DEF HandleOpenRequest, appVars
  <2> QED
    BY <2>1, <2>3
<1>8. PICK last : Says(e, last, answer)
  BY <1>1, <1>7, SendEffect
<1>9. /\ answer # Hole
      /\ \A t, k : answer # OpenOf(t) /\ answer # CloseOf(t) /\ answer # DataAt(t, k)
  BY <1>7, Forms
<1>10. /\ substream'[e][s] = "queued"
       /\ \A f \in End, t \in SubstreamId : f # e \/ t # s => substream'[f][t] = substream[f][t]
       /\ substream' \in [End -> [SubstreamId -> {"none", "queued", "held", "dropped"}]]
       /\ substream_inbound_txs' \in [End -> SUBSET SubstreamId]
       /\ substream_close_txs' \in [End -> SUBSET SubstreamId]
       /\ \A f \in End, t \in SubstreamId :
             /\ t \in substream_inbound_txs'[f] <=> t \in substream_inbound_txs[f] \/ (f = e /\ t = s)
             /\ t \in substream_close_txs'[f] <=> t \in substream_close_txs[f] \/ (f = e /\ t = s)
  BY <1>1, <1>7 DEF NewSubstream, TypeOK
<1>11. /\ inbound_open' \in [End -> Seq(SubstreamId)]
       /\ inbound_open'[e] = Append(inbound_open[e], s)
       /\ \A f \in End : f # e => inbound_open'[f] = inbound_open[f]
       /\ \A f \in End : inbound_open[f] \in Seq(SubstreamId)
  <2>1. inbound_open \in [End -> Seq(SubstreamId)] /\ Append(inbound_open[e], s) \in Seq(SubstreamId)
    BY <1>1, AppendProperties DEF TypeOK
  <2> QED
    BY <1>7, <2>1
<1>12. TypeOK' /\ HandledInv'
  <2>1. /\ sent' \in [End -> Seq(Message \cup {Hole})]
        /\ \A f \in End : handled[f] <= Len(sent'[Other(f)])
    BY <1>1, <1>7, SendEffect
  <2>2. TypeOK'
    BY <2>1, <1>1, <1>6, <1>7, <1>10, <1>11 DEF TypeOK
  <2>3. sent'[Other(e)] = sent[Other(e)]
    BY <1>6, <1>8 DEF Says
  <2>4. \A f \in End : handled'[f] <= Len(sent'[Other(f)])
    BY <1>6, <2>1, <2>3
  <2> QED
    BY <2>2, <2>4 DEF HandledInv
<1>13. KnownInv'
  <2>1. \A f \in End, t \in SubstreamId : substream[f][t] # "none" => substream'[f][t] # "none"
    BY <1>10
  <2>2. \A f \in End, t \in SubstreamId :
           substream[f][t] = "none" /\ substream'[f][t] # "none" => substream'[Other(f)][t] # "none"
    BY <1>5, <1>6, <1>10
  <2>3. \A t \in SubstreamId : answer.id = t => substream'[e][t] # "none"
    BY <1>7, <1>10
  <2> QED
    BY <1>1, <1>8, <2>1, <2>2, <2>3, KnownSays
<1>14. OpenInv'
  <2>1. ASSUME NEW f \in End, NEW t \in SubstreamId, NEW m \in Nonces(f), sent[f][m] = OpenOf(t)
        PROVE  substream'[Other(f)][t] = "none" <=> handled'[Other(f)] < m
    <3>1. /\ \A k \in Nonces(f) : k < m => ~ About(f, k, t)
          /\ substream[Other(f)][t] = "none" <=> handled[Other(f)] < m
      BY <1>1, <2>1 DEF OpenInv
    <3>2. CASE f = e
      BY <1>6, <1>10, <3>1, <3>2
    <3>3. CASE f = Other(e) /\ t = s
      <4>1. ~ (n < m)
        BY <1>5, <1>6, <3>1, <3>3
      <4> QED
        BY <1>6, <1>10, <3>3, <4>1
    <3>4. CASE f = Other(e) /\ t # s
      <4>1. m # n
        <5>1. OpenOf(s).id = s /\ OpenOf(t).id = t
          BY Forms
        <5> QED
          BY <1>2, <1>4, <2>1, <3>4, <5>1
      <4>2. m \in Nat
        BY <1>6, <3>4
      <4>3. handled[e] < m <=> n < m
        BY <1>6, <4>1, <4>2
      <4> QED
        BY <1>6, <1>10, <3>1, <3>4, <4>3
    <3> QED
      BY <3>2, <3>3, <3>4, Ends
  <2> QED
    BY <1>1, <1>8, <1>9, <2>1, OpenSays
<1>15. ClosedInv'
  <2>1. \A m \in Nonces(e) : sent[e][m] # CloseOf(s)
    <3>1. \A m \in Nonces(e) : ~ About(e, m, s)
      BY <1>1, <1>5 DEF KnownInv
    <3> QED
      BY <3>1, Forms DEF About
  <2>2. \A t \in SubstreamId : answer.id = t => \A m \in Nonces(e) : sent[e][m] # CloseOf(t)
    BY <1>7, <2>1
  <2> QED
    BY <1>1, <1>7, <1>8, <1>9, <2>2, ClosedSays
<1>16. ChannelInv'
  <2> SUFFICES ASSUME NEW f \in End, NEW t \in SubstreamId, muxer[f] = "open"
               PROVE  /\ t \in substream_inbound_txs'[f] <=> Live(f, t)'
                      /\ t \in substream_close_txs'[f] <=> Live(f, t)'
    BY <1>7 DEF ChannelInv
  <2>1. /\ t \in substream_inbound_txs[f] <=> Live(f, t)
        /\ t \in substream_close_txs[f] <=> Live(f, t)
    BY <1>1 DEF ChannelInv
  <2>2. Nonces(Other(e))' = Nonces(Other(e)) /\ sent'[Other(e)] = sent[Other(e)]
    BY <1>6, <1>8 DEF Says
  <2>3. \A m \in Nonces(Other(e)) : m <= n <=> (m <= handled[e] \/ m = n)
    BY <1>6
  <2>4. sent[Other(e)][n] # CloseOf(t)
    BY <1>2, <1>4
  <2>5. CASE f # e
    <3>1. Live(f, t)' <=> Live(f, t)
      BY <1>1, <1>6, <1>8, <1>10, <2>5, LiveSays
    <3> QED
      BY <1>10, <2>1, <2>5, <3>1
  <2>6. CASE f = e /\ t # s
    <3>1. Live(e, t)' <=> Live(e, t)
      BY <1>6, <1>10, <2>2, <2>3, <2>4, <2>6 DEF Live
    <3> QED
      BY <1>10, <2>1, <2>6, <3>1
  <2>7. CASE f = e /\ t = s
    <3>1. \A m \in Nonces(Other(e)) : m < n => ~ About(Other(e), m, s)
      BY <1>1, <1>2, <1>4, <1>6 DEF OpenInv
    <3>2. \A m \in Nonces(Other(e)) : m <= n => sent[Other(e)][m] # CloseOf(s)
      <4>1. \A m \in Nonces(Other(e)) : m <= n => m < n \/ m = n
        BY <1>6
      <4>2. CloseOf(s).id = s /\ CloseOf(s) # Hole
        BY Forms
      <4> QED
        BY <2>4, <2>7, <3>1, <4>1, <4>2 DEF About
    <3>3. Live(e, s)'
      BY <1>6, <1>10, <2>2, <3>2 DEF Live
    <3> QED
      BY <1>10, <2>7, <3>3
  <2> QED
    BY <2>5, <2>6, <2>7
<1>17. WriteInv'
  BY <1>1, <1>7, <1>8, <1>9, WriteSays
<1>18. DataInv'
  <2>1. \A f \in End, t \in SubstreamId :
           /\ Received(f, t)' = Received(f, t)
           /\ substream'[f][t] # "dropped" => substream[f][t] # "dropped"
    BY <1>5, <1>7, <1>10 DEF Received
  <2>2. ASSUME NEW t \in SubstreamId, NEW k \in 1 .. MaxData, NEW m \in Nonces(Other(e)),
               sent[Other(e)][m] = DataAt(t, k)
        PROVE  m <= handled'[e] <=> m <= handled[e]
    <3>1. m # n
      BY <1>2, <1>4, <2>2
    <3>2. m \in Nat
      BY <1>6
    <3> QED
      BY <1>6, <3>1, <3>2
  <2> QED
    BY <1>1, <1>6, <1>8, <1>9, <2>1, <2>2, DataSays
<1>19. QueuedInv'
  <2> SUFFICES ASSUME NEW f \in End, NEW k \in 1 .. Len(inbound_open'[f])
               PROVE  /\ substream'[f][inbound_open'[f][k]] = "queued"
                      /\ \A j \in 1 .. k - 1 : inbound_open'[f][j] # inbound_open'[f][k]
    BY DEF QueuedInv
  <2>1. \A i \in 1 .. Len(inbound_open[f]) :
           /\ inbound_open[f][i] \in SubstreamId
           /\ substream[f][inbound_open[f][i]] = "queued"
           /\ \A j \in 1 .. i - 1 : inbound_open[f][j] # inbound_open[f][i]
    BY <1>1, <1>11, ElementOfSeq DEF QueuedInv
  <2>2. CASE f # e
    <3>1. inbound_open'[f] = inbound_open[f]
      BY <1>11, <2>2
    <3>2. substream'[f][inbound_open[f][k]] = "queued"
      BY <1>10, <2>1, <2>2, <3>1
    <3> QED
      BY <2>1, <3>1, <3>2, Zenon
  <2>3. CASE f = e
    <3>1. PICK q \in Seq(SubstreamId) : q = inbound_open[e]
      BY <1>11
    <3>2. /\ Len(Append(q, s)) = Len(q) + 1 /\ Len(q) \in Nat
          /\ \A i \in 1 .. Len(q) : Append(q, s)[i] = q[i]
          /\ Append(q, s)[Len(q) + 1] = s
      BY Appended
    <3>3. k \in 1 .. Len(q) + 1
      BY <1>11, <2>3, <3>1, <3>2
    <3>4. \A i \in 1 .. Len(q) : /\ substream'[e][q[i]] = "queued"
                                 /\ q[i] # s
                                 /\ \A j \in 1 .. i - 1 : q[j] # q[i]
      BY <1>5, <1>10, <2>1, <2>3, <3>1
    <3>5. CASE k \in 1 .. Len(q)
      <4>1. Append(q, s)[k] = q[k] /\ \A j \in 1 .. k - 1 : Append(q, s)[j] = q[j]
        BY <3>2, <3>5
      <4>2. inbound_open'[f] = Append(q, s)
        BY <1>11, <2>3, <3>1
      <4>3. substream'[e][q[k]] = "queued" /\ \A j \in 1 .. k - 1 : q[j] # q[k]
        BY <3>4, <3>5
      <4> QED
        BY <2>3, <4>1, <4>2, <4>3, Zenon
    <3>6. CASE k = Len(q) + 1
      <4>1. Append(q, s)[k] = s /\ \A j \in 1 .. k - 1 : j \in 1 .. Len(q) /\ Append(q, s)[j] = q[j]
        BY <3>2, <3>6
      <4>2. inbound_open'[f] = Append(q, s)
        BY <1>11, <2>3, <3>1
      <4> QED
        BY <1>10, <2>3, <3>4, <4>1, <4>2, Zenon
    <3> QED
      BY <3>2, <3>3, <3>5, <3>6
  <2> QED
    BY <2>2, <2>3
<1>20. ReadInOrder' /\ NoAlarms'
  BY <1>1, <1>7 DEF ReadInOrder, NoAlarms
<1> QED
  BY <1>12, <1>13, <1>14, <1>15, <1>16, <1>17, <1>18, <1>19, <1>20 DEF IndInv

\* One turn of the loop in Connection::poll.
LEMMA PollStep ==
    ASSUME IndInv, NEW e \in End, Poll(e)
    PROVE  IndInv'
<1>1. PICK n : n = handled[e] + 1
  OBVIOUS
<1>2. Takes(e, n) /\ UNCHANGED appVars
  BY <1>1 DEF Poll, Takes
<1>3. \/ HandleOpenRequest(e, sent[Other(e)][n]) \/ HandleOpenResponse(e, sent[Other(e)][n])
      \/ HandleClose(e, sent[Other(e)][n]) \/ HandleData(e, sent[Other(e)][n])
  BY <1>1 DEF Poll
<1> QED
  BY <1>2, <1>3, HandleOpenRequestStep, HandleOpenResponseStep, HandleCloseStep, HandleDataStep
-----------------------------------------------------------------------------
(***************************************************************************)
(* The theorems.                                                           *)
(***************************************************************************)

\* The invariant holds in every reachable state, whatever the two ends open, write, close
\* and drop, for any number of substreams.
THEOREM IndInvariant == Spec => []IndInv
<1>1. Init => IndInv
  BY InitIndInv
<1>2. IndInv /\ [Next]_vars => IndInv'
  <2> SUFFICES ASSUME IndInv, [Next]_vars
               PROVE  IndInv'
    OBVIOUS
  <2>1. CASE Next
    BY <2>1, PollInboundStep, PollCloseStep, DropConnectionStep, PollStep, PollOutboundStep,
       LearnClosedStep, PollReadStep, PollWriteStep, PollCloseSubstreamStep, DropSubstreamStep
       DEF Next
  <2>2. CASE UNCHANGED vars
    <3>1. UNCHANGED <<muxer, pending_substreams, substream_inbound_txs, substream_close_txs,
                      inbound_open, close_rx, substream, inbound_rx, close_signal, closed, sent,
                      handled, written, read, alarms>>
      BY <2>2 DEF vars, muxerVars, substreamVars, appVars
    <3>2. TypeOK'
      BY <3>1 DEF IndInv, TypeOK
    <3>3. QueuedInv' /\ ReadInOrder'
      BY <3>1 DEF IndInv, QueuedInv, ReadInOrder
    <3>4. \A f \in End, t \in SubstreamId : Received(f, t)' = Received(f, t)
      BY <3>1 DEF Received
    <3> QED
      BY <3>1, <3>2, <3>3, <3>4, LifeStep
  <2> QED
    BY <2>1, <2>2
<1> QED
  BY <1>1, <1>2, PTL DEF Spec

\* Every field of the two ends keeps its type.
THEOREM TypeCorrect == Spec => []TypeOK
<1>1. IndInv => TypeOK
  BY DEF IndInv
<1> QED
  BY <1>1, IndInvariant, PTL

\* The expect of Connection::poll and the two substream ID errors never strike.
THEOREM NoAlarmsTheorem == Spec => []NoAlarms
<1>1. IndInv => NoAlarms
  BY DEF IndInv
<1> QED
  BY <1>1, IndInvariant, PTL

\* Reads return the remote end's whole writes in their order, none of them left out; the
\* bytes of a write that poll_read's count leaves out are the subject of Substream.
THEOREM ReadInOrderTheorem == Spec => []ReadInOrder
<1>1. IndInv => ReadInOrder
  BY DEF IndInv
<1> QED
  BY <1>1, IndInvariant, PTL

\* An end says nothing more about a substream after its Close.
THEOREM CloseIsLastTheorem == Spec => []CloseIsLast
<1>1. IndInv => CloseIsLast
  <2> SUFFICES ASSUME IndInv, NEW e \in End, NEW m \in Nonces(e), NEW n \in Nonces(e),
                      m < n, sent[e][m].type = "Close", sent[e][n] # Hole,
                      sent[e][n].id = sent[e][m].id
               PROVE  FALSE
    BY DEF CloseIsLast, Nonces
  <2>1. TypeOK /\ ClosedInv
    BY DEF IndInv
  <2>2. sent[e][m] # Hole
    BY Forms
  <2>3. sent[e][m] \in Message
    BY <2>1, <2>2, NoncesType
  <2>4. PICK s \in SubstreamId : s = sent[e][m].id /\ sent[e][m] = CloseOf(s)
    BY <2>3, MessageForms
  <2>5. ~ About(e, n, s)
    BY <2>1, <2>4 DEF ClosedInv
  <2> QED
    BY <2>4, <2>5 DEF About
<1> QED
  BY <1>1, IndInvariant, PTL

\* A Connection keeps both channels of a substream until the remote end's Close and no
\* longer.
THEOREM ChannelsTheorem == Spec => []ChannelsUntilRemoteClose
<1>1. IndInv => ChannelsUntilRemoteClose
  <2> SUFFICES ASSUME IndInv, NEW e \in End, muxer[e] = "open"
               PROVE  LET live == {s \in SubstreamId :
                                      substream[e][s] # "none" /\ CloseOf(s) \notin Taken(e)}
                      IN  substream_inbound_txs[e] = live /\ substream_close_txs[e] = live
    BY DEF ChannelsUntilRemoteClose
  <2>1. TypeOK /\ HandledInv /\ ChannelInv
    BY DEF IndInv
  <2>2. /\ handled[e] \in Nat /\ Other(e) \in End /\ Len(sent[Other(e)]) \in Nat
        /\ handled[e] <= Len(sent[Other(e)])
    BY <2>1, NoncesType, Ends DEF TypeOK, HandledInv
  <2>3. \A m : m \in 1 .. handled[e] <=> m \in Nonces(Other(e)) /\ m <= handled[e]
    BY <2>2 DEF Nonces
  <2>4. \A s \in SubstreamId : Live(e, s) <=> substream[e][s] # "none" /\ CloseOf(s) \notin Taken(e)
    BY <2>3 DEF Live, Taken
  <2>5. \A s \in SubstreamId : /\ s \in substream_inbound_txs[e] <=> Live(e, s)
                               /\ s \in substream_close_txs[e] <=> Live(e, s)
    BY <2>1 DEF ChannelInv
  <2>6. substream_inbound_txs[e] \subseteq SubstreamId /\ substream_close_txs[e] \subseteq SubstreamId
    BY <2>1 DEF TypeOK
  <2> QED
    BY <2>4, <2>5, <2>6
<1> QED
  BY <1>1, IndInvariant, PTL
=============================================================================
