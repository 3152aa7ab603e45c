---------------------------- MODULE MixnetProofs ----------------------------
(***************************************************************************)
(* What the mixnet task passes on, the order in which it writes, what its  *)
(* select! can lose, and why it fails to start, for all sets of messages,  *)
(* any number of messages and of frames, and all lengths of the fields.    *)
(***************************************************************************)
EXTENDS Mixnet, MessageProofs, FiniteSetTheorems

\* A frame waits only for a slot that is taken.
WaitsForSlot == in_hand # <<>> => slot # <<>>

\* The frames that came back and the answer are among the frames.
Accounted == Cardinality(arrived) + (IF Answered THEN 1 ELSE 0) <= Len(frames)

\* The address is known if and only if its frame was read; nothing is passed on before.
StartedInv ==
    /\ phase = "running" <=> \E i \in 1 .. read : frames[i].kind = "SelfAddress"
    /\ phase # "running" => inbound = <<>>

\* InboundMatchesFrames in terms of the decoder: what was passed on is what it returned for
\* the frames at these positions, and it returned an error for the frames between them.
InboundInv ==
    \E at \in [DOMAIN inbound -> Heard] :
        /\ \A j, k \in DOMAIN at : j < k => at[j] < at[k]
        /\ \A k \in DOMAIN at : inbound[k] = ParseMessageData(frames[at[k]].bytes)
        /\ \A j \in Heard :
              ParseMessageData(frames[j].bytes) # Error
                  /\ (listening \/ \E k \in DOMAIN at : j < at[k])
              => \E k \in DOMAIN at : at[k] = j

\* Whatever the select! cancels, a frame waits only for a slot that is taken, and what was
\* written, is in the slot, waits and is in the channel is what was sent, in its order.
IndInv ==
    /\ TypeOK /\ Accounted /\ WaitsForSlot /\ WrittenInOrder /\ StartFailsForCause
    /\ StartedInv /\ InboundInv
-----------------------------------------------------------------------------
(***************************************************************************)
(* Sequences of at most one element, and the encodings of a sequence.      *)
(***************************************************************************)

\* A sequence of at most one element is a sequence.
LEMMA AtMostOneSeq ==
    ASSUME NEW S, NEW s \in AtMostOne(S)
    PROVE  s \in Seq(S) /\ Len(s) = (IF s = <<>> THEN 0 ELSE 1)
<1>1. CASE s = <<>>
    BY <1>1
<1>2. CASE s # <<>>
    <2>1. PICK x \in S : s = <<x>>
        BY <1>2 DEF AtMostOne
    <2> QED  BY <2>1
<1> QED  BY <1>1, <1>2

\* The encodings of the messages in the outbound channel.
Encoded(s) == [k \in DOMAIN s |-> MessageToBytes(s[k])]

\* They are a sequence of the same length.
LEMMA EncodedSeq ==
    ASSUME NEW s \in Seq(Outgoing)
    PROVE  /\ Encoded(s) \in Seq(Encodings)
           /\ Len(Encoded(s)) = Len(s)
           /\ \A k \in 1 .. Len(s) : Encoded(s)[k] = MessageToBytes(s[k])
<1>1. DOMAIN s = 1 .. Len(s) /\ Len(s) \in Nat /\ \A k \in 1 .. Len(s) : s[k] \in Outgoing
    BY LenProperties, ElementOfSeq
<1>2. Encoded(s) = [k \in 1 .. Len(s) |-> MessageToBytes(s[k])]
    BY <1>1 DEF Encoded
<1>3. \A k \in 1 .. Len(s) : MessageToBytes(s[k]) \in Encodings
    BY <1>1 DEF Encodings
<1>4. [k \in 1 .. Len(s) |-> MessageToBytes(s[k])] \in Seq(Encodings)
    BY <1>1, <1>3, IsASeq
<1>5. Len(Encoded(s)) = Len(s)
    BY <1>1, <1>2
<1> QED  BY <1>2, <1>4, <1>5

\* One more message.
LEMMA EncodedAppend ==
    ASSUME NEW s \in Seq(Outgoing), NEW m \in Outgoing
    PROVE  Encoded(Append(s, m)) = Encoded(s) \o <<MessageToBytes(m)>>
<1> DEFINE t == Append(s, m)
           e == Encoded(s)
           x == <<MessageToBytes(m)>>
<1>1. /\ t \in Seq(Outgoing) /\ Len(t) = Len(s) + 1 /\ Len(s) \in Nat
      /\ \A k \in 1 .. Len(s) : t[k] = s[k]
      /\ t[Len(s) + 1] = m
    BY AppendProperties, LenProperties
<1> HIDE DEF t
<1>2. /\ Encoded(t) \in Seq(Encodings) /\ Len(Encoded(t)) = Len(s) + 1
      /\ \A k \in 1 .. Len(s) + 1 : Encoded(t)[k] = MessageToBytes(t[k])
    BY <1>1, EncodedSeq
<1>3. /\ e \in Seq(Encodings) /\ Len(e) = Len(s)
      /\ \A k \in 1 .. Len(s) : e[k] = MessageToBytes(s[k])
    BY EncodedSeq
<1>4. x \in Seq(Encodings) /\ Len(x) = 1 /\ x[1] = MessageToBytes(m)
    BY DEF Encodings
<1> HIDE DEF x, e
<1>5. /\ e \o x \in Seq(Encodings) /\ Len(e \o x) = Len(s) + 1
      /\ \A k \in 1 .. Len(s) + 1 : (e \o x)[k] = IF k <= Len(s) THEN e[k] ELSE x[k - Len(s)]
    <2>1. /\ e \o x \in Seq(Encodings) /\ Len(e \o x) = Len(e) + Len(x)
          /\ \A k \in 1 .. Len(e) + Len(x) :
                (e \o x)[k] = IF k <= Len(e) THEN e[k] ELSE x[k - Len(e)]
        BY <1>3, <1>4, ConcatProperties, ZenonT(40)
    <2>2. Len(e) = Len(s) /\ Len(x) = 1
        BY <1>3, <1>4, Zenon
    <2> QED  BY <2>1, <2>2, Zenon
<1>6. \A k \in 1 .. Len(s) : Encoded(t)[k] = (e \o x)[k]
    BY <1>1, <1>2, <1>3, <1>5
<1>7. Encoded(t)[Len(s) + 1] = (e \o x)[Len(s) + 1]
    <2>1. (e \o x)[Len(s) + 1] = x[1]
        BY <1>1, <1>5
    <2>2. Encoded(t)[Len(s) + 1] = MessageToBytes(t[Len(s) + 1])
        BY <1>1, <1>2
    <2> QED  BY <2>1, <2>2, <1>1, <1>4
<1>8. \A k \in 1 .. Len(s) + 1 : Encoded(t)[k] = (e \o x)[k]
    <2>1. \A k \in 1 .. Len(s) + 1 : k \in 1 .. Len(s) \/ k = Len(s) + 1
        BY <1>1
    <2> QED  BY <2>1, <1>6, <1>7, Zenon
<1>9. Encoded(t) = e \o x
    BY <1>2, <1>5, <1>8, SeqEqual
<1> QED  BY <1>9 DEF t, e, x

\* The first message, and the others.
LEMMA EncodedHeadTail ==
    ASSUME NEW s \in Seq(Outgoing), s # <<>>
    PROVE  /\ Head(s) \in Outgoing /\ Tail(s) \in Seq(Outgoing)
           /\ Encoded(s) = <<MessageToBytes(Head(s))>> \o Encoded(Tail(s))
<1> DEFINE t == Tail(s)
           x == <<MessageToBytes(Head(s))>>
           e == Encoded(t)
           n == Len(t)
<1>1. /\ Head(s) \in Outgoing /\ Head(s) = s[1]
      /\ t \in Seq(Outgoing) /\ n \in Nat /\ Len(s) = n + 1
      /\ \A k \in 1 .. n : t[k] = s[k + 1]
    BY HeadTailProperties, LenProperties, EmptySeq
<1> HIDE DEF t
<1>2. /\ Encoded(s) \in Seq(Encodings) /\ Len(Encoded(s)) = n + 1
      /\ \A k \in 1 .. n + 1 : Encoded(s)[k] = MessageToBytes(s[k])
    BY <1>1, EncodedSeq
<1>3. /\ e \in Seq(Encodings) /\ Len(e) = n
      /\ \A k \in 1 .. n : e[k] = MessageToBytes(t[k])
    BY <1>1, EncodedSeq
<1>4. x \in Seq(Encodings) /\ Len(x) = 1 /\ x[1] = MessageToBytes(s[1])
    BY <1>1 DEF Encodings
<1> HIDE DEF x, e, n
<1>5. /\ x \o e \in Seq(Encodings) /\ Len(x \o e) = n + 1
      /\ \A k \in 1 .. n + 1 : (x \o e)[k] = IF k <= 1 THEN x[k] ELSE e[k - 1]
    <2>1. /\ x \o e \in Seq(Encodings) /\ Len(x \o e) = Len(x) + Len(e)
          /\ \A k \in 1 .. Len(x) + Len(e) :
                (x \o e)[k] = IF k <= Len(x) THEN x[k] ELSE e[k - Len(x)]
        BY <1>3, <1>4, ConcatProperties, Zenon
    <2>2. Len(x) + Len(e) = n + 1
        BY <1>1, <1>3, <1>4
    <2> QED  BY <2>1, <2>2, <1>4
<1>6. ASSUME NEW k \in 1 .. n + 1 PROVE Encoded(s)[k] = (x \o e)[k]
    <2>1. CASE k = 1
        BY <2>1, <1>1, <1>2, <1>4, <1>5
    <2>2. CASE k # 1
        <3>1. k - 1 \in 1 .. n /\ ~(k <= 1) /\ (k - 1) + 1 = k
            BY <2>2, <1>1
        <3>2. (x \o e)[k] = e[k - 1] /\ e[k - 1] = MessageToBytes(t[k - 1]) /\ t[k - 1] = s[k]
            BY <3>1, <1>1, <1>3, <1>5
        <3> QED  BY <3>2, <1>2
    <2> QED  BY <2>1, <2>2
<1>7. Encoded(s) = x \o e
    BY <1>2, <1>5, <1>6, SeqEqual
<1> QED  BY <1>1, <1>7 DEF t, e, x

-----------------------------------------------------------------------------
(***************************************************************************)
(* Frames that are the encodings of some of the messages, in their order.  *)
(***************************************************************************)
Embeds(p, s) ==
    \E at \in [DOMAIN p -> DOMAIN s] :
        /\ \A j, k \in DOMAIN at : j < k => at[j] < at[k]
        /\ \A k \in DOMAIN at : p[k] = MessageToBytes(s[at[k]])

\* The message sent last has its frame at the end.
LEMMA EmbedAppend ==
    ASSUME NEW p \in Seq(Encodings), NEW s \in Seq(Outgoing), NEW m \in Outgoing, Embeds(p, s)
    PROVE  Embeds(p \o <<MessageToBytes(m)>>, Append(s, m))
<1> DEFINE n == Len(p)
           l == Len(s)
           x == <<MessageToBytes(m)>>
           q == p \o x
           t == Append(s, m)
<1>1. PICK at \in [1 .. n -> 1 .. l] :
          /\ \A j, k \in 1 .. n : j < k => at[j] < at[k]
          /\ \A k \in 1 .. n : p[k] = MessageToBytes(s[at[k]])
    <2>1. DOMAIN p = 1 .. n /\ DOMAIN s = 1 .. l
        BY LenProperties
    <2> QED  BY <2>1 DEF Embeds
<1>2. n \in Nat /\ l \in Nat
    BY LenProperties
<1>3. /\ Len(t) = l + 1 /\ DOMAIN t = 1 .. l + 1
      /\ \A k \in 1 .. l : t[k] = s[k]
      /\ t[l + 1] = m
    BY AppendProperties, LenProperties
<1>4. x \in Seq(Encodings) /\ Len(x) = 1 /\ x[1] = MessageToBytes(m)
    BY DEF Encodings
<1> HIDE DEF x, t
<1>5. /\ DOMAIN q = 1 .. n + 1
      /\ \A k \in 1 .. n : q[k] = p[k]
      /\ q[n + 1] = MessageToBytes(m)
    <2>1. /\ q \in Seq(Encodings) /\ Len(q) = Len(p) + Len(x)
          /\ \A k \in 1 .. Len(p) + Len(x) :
                q[k] = IF k <= Len(p) THEN p[k] ELSE x[k - Len(p)]
        BY <1>4, ConcatProperties, Zenon
    <2>2. Len(q) = n + 1 /\ \A k \in 1 .. n + 1 : q[k] = IF k <= n THEN p[k] ELSE x[k - n]
        BY <2>1, <1>4
    <2> HIDE DEF q
    <2>3. DOMAIN q = 1 .. n + 1
        BY <2>1, <2>2, LenProperties
    <2>4. q[n + 1] = x[1]
        BY <2>2, <1>2
    <2> QED  BY <2>2, <2>3, <2>4, <1>2, <1>4
<1> HIDE DEF q, n, l
<1> DEFINE to == [k \in 1 .. n + 1 |-> IF k <= n THEN at[k] ELSE l + 1]
<1>6. /\ \A k \in 1 .. n : to[k] = at[k] /\ at[k] \in 1 .. l
      /\ to[n + 1] = l + 1
      /\ DOMAIN to = 1 .. n + 1
    BY <1>1, <1>2
<1>7. to \in [1 .. n + 1 -> 1 .. l + 1]
    BY <1>1, <1>2
<1> HIDE DEF to
<1>8. \A k \in 1 .. n + 1 : k \in 1 .. n \/ k = n + 1
    BY <1>2
<1>9. ASSUME NEW j \in 1 .. n + 1, NEW k \in 1 .. n + 1, j < k PROVE to[j] < to[k]
    <2>1. j \in 1 .. n
        BY <1>2, <1>9
    <2>2. CASE k \in 1 .. n
        BY <2>1, <2>2, <1>1, <1>6, <1>9
    <2>3. CASE k = n + 1
        BY <2>1, <2>3, <1>2, <1>6
    <2> QED  BY <2>2, <2>3, <1>8
<1>10. \A k \in 1 .. n + 1 : q[k] = MessageToBytes(t[to[k]])
    <2>1. \A k \in 1 .. n : q[k] = MessageToBytes(t[to[k]])
        BY <1>1, <1>3, <1>5, <1>6
    <2>2. q[n + 1] = MessageToBytes(t[to[n + 1]])
        BY <1>3, <1>5, <1>6
    <2> QED  BY <2>1, <2>2, <1>8
<1>11. Embeds(q, t)
    BY <1>3, <1>5, <1>6, <1>7, <1>9, <1>10, Zenon DEF Embeds
<1> QED  BY <1>11 DEF q, t, x

\* A frame less.
LEMMA EmbedDrop ==
    ASSUME NEW a \in Seq(Encodings), NEW x \in Seq(Encodings), NEW b \in Seq(Encodings),
           NEW s \in Seq(Outgoing), Embeds(a \o x \o b, s)
    PROVE  Embeds(a \o b, s)
<1> DEFINE p == a \o x \o b
           q == a \o b
           i == Len(a)
           d == Len(x)
           n == Len(b)
           l == Len(s)
<1>1. i \in Nat /\ d \in Nat /\ n \in Nat /\ l \in Nat /\ DOMAIN s = 1 .. l
    BY LenProperties
<1>2. /\ a \o x \in Seq(Encodings) /\ Len(a \o x) = i + d
      /\ \A k \in 1 .. i + d : (a \o x)[k] = IF k <= i THEN a[k] ELSE x[k - i]
    BY ConcatProperties, Zenon
<1>3. /\ p \in Seq(Encodings) /\ Len(p) = (i + d) + n
      /\ \A k \in 1 .. (i + d) + n : p[k] = IF k <= i + d THEN (a \o x)[k] ELSE b[k - (i + d)]
    <2>1. /\ p \in Seq(Encodings) /\ Len(p) = Len(a \o x) + n
          /\ \A k \in 1 .. Len(a \o x) + n :
                p[k] = IF k <= Len(a \o x) THEN (a \o x)[k] ELSE b[k - Len(a \o x)]
        <3>1. a \o x \in Seq(Encodings)
            BY <1>2
        <3> QED  BY <3>1, ConcatProperties, Zenon
    <2> QED  BY <2>1, <1>2
<1>4. /\ q \in Seq(Encodings) /\ Len(q) = i + n
      /\ \A k \in 1 .. i + n : q[k] = IF k <= i THEN a[k] ELSE b[k - i]
    BY ConcatProperties, Zenon
<1>5. DOMAIN p = 1 .. (i + d) + n /\ DOMAIN q = 1 .. i + n
    BY <1>3, <1>4, LenProperties
<1>6. PICK at \in [1 .. (i + d) + n -> 1 .. l] :
          /\ \A j, k \in 1 .. (i + d) + n : j < k => at[j] < at[k]
          /\ \A k \in 1 .. (i + d) + n : p[k] = MessageToBytes(s[at[k]])
    BY <1>1, <1>5 DEF Embeds
<1> HIDE DEF p, q, i, d, n, l
<1> DEFINE from(k) == IF k <= i THEN k ELSE k + d
           to == [k \in 1 .. i + n |-> at[from(k)]]
<1>7. \A k \in 1 .. i + n : from(k) \in 1 .. (i + d) + n
    BY <1>1
<1>8. \A j, k \in 1 .. i + n : j < k => from(j) < from(k)
    BY <1>1
<1>9. \A k \in 1 .. i + n : q[k] = p[from(k)]
    <2>1. ASSUME NEW k \in 1 .. i + n PROVE q[k] = p[from(k)]
        <3>1. CASE k <= i
            <4>1. k \in 1 .. i + d /\ k <= i + d /\ k \in 1 .. (i + d) + n /\ from(k) = k
                BY <3>1, <1>1
            <4>2. p[k] = (a \o x)[k] /\ (a \o x)[k] = a[k] /\ q[k] = a[k]
                BY <3>1, <4>1, <1>2, <1>3, <1>4
            <4> QED  BY <4>1, <4>2
        <3>2. CASE ~(k <= i)
            <4>1. /\ from(k) = k + d /\ k + d \in 1 .. (i + d) + n /\ ~(k + d <= i + d)
                  /\ (k + d) - (i + d) = k - i
                BY <3>2, <1>1
            <4>2. p[k + d] = b[k - i] /\ q[k] = b[k - i]
                BY <3>2, <4>1, <1>3, <1>4
            <4> QED  BY <4>1, <4>2
        <3> QED  BY <3>1, <3>2
    <2> QED  BY <2>1
<1> HIDE DEF from
<1>10. /\ to \in [1 .. i + n -> 1 .. l] /\ DOMAIN to = 1 .. i + n
       /\ \A k \in 1 .. i + n : to[k] = at[from(k)]
    BY <1>6, <1>7
<1> HIDE DEF to
<1>11. \A j, k \in 1 .. i + n : j < k => to[j] < to[k]
    BY <1>6, <1>7, <1>8, <1>10
<1>12. \A k \in 1 .. i + n : q[k] = MessageToBytes(s[to[k]])
    BY <1>6, <1>7, <1>9, <1>10
<1>13. Embeds(q, s)
    BY <1>1, <1>5, <1>10, <1>11, <1>12, Zenon DEF Embeds
<1> QED  BY <1>13 DEF q

-----------------------------------------------------------------------------
(***************************************************************************)
(* The pipeline.                                                           *)
(***************************************************************************)

\* Its parts are sequences of encodings.
LEMMA PipelineParts ==
    ASSUME TypeOK
    PROVE  /\ written \in Seq(Encodings) /\ slot \in Seq(Encodings)
           /\ in_hand \in Seq(Encodings) /\ Encoded(outbound) \in Seq(Encodings)
           /\ Pipeline = written \o slot \o in_hand \o Encoded(outbound)
BY AtMostOneSeq, EncodedSeq, Zenon DEF TypeOK, Pipeline, Encoded

\* Its length is the sum of theirs.
LEMMA PipelineLen ==
    ASSUME TypeOK
    PROVE  /\ Pipeline \in Seq(Encodings)
           /\ Len(Pipeline) = Len(written) + Len(slot) + Len(in_hand) + Len(outbound)
           /\ Len(written) \in Nat /\ Len(slot) \in Nat /\ Len(in_hand) \in Nat
           /\ Len(outbound) \in Nat
<1> DEFINE e == Encoded(outbound)
<1>1. /\ written \in Seq(Encodings) /\ slot \in Seq(Encodings)
      /\ in_hand \in Seq(Encodings) /\ e \in Seq(Encodings)
      /\ Pipeline = written \o slot \o in_hand \o e
    BY PipelineParts
<1>2. outbound \in Seq(Outgoing)
    BY DEF TypeOK
<1>3. Len(e) = Len(outbound)
    BY <1>2, EncodedSeq
<1> HIDE DEF e
<1>4. written \o slot \in Seq(Encodings) /\ Len(written \o slot) = Len(written) + Len(slot)
    BY <1>1, ConcatProperties, Zenon
<1>5. /\ written \o slot \o in_hand \in Seq(Encodings)
      /\ Len(written \o slot \o in_hand) = Len(written \o slot) + Len(in_hand)
    <2>1. written \o slot \in Seq(Encodings)
        BY <1>4
    <2> QED  BY <2>1, <1>1, ConcatProperties, Zenon
<1>6. /\ Pipeline \in Seq(Encodings)
      /\ Len(Pipeline) = Len(written \o slot \o in_hand) + Len(e)
    <2>1. written \o slot \o in_hand \in Seq(Encodings)
        BY <1>5
    <2> QED  BY <2>1, <1>1, ConcatProperties, Zenon
<1>7. /\ Len(written) \in Nat /\ Len(slot) \in Nat /\ Len(in_hand) \in Nat
      /\ Len(outbound) \in Nat
    BY <1>1, <1>2, LenProperties
<1> QED  BY <1>3, <1>4, <1>5, <1>6, <1>7

\* The same of the state after a step.
LEMMA PipelineLenAfter ==
    TypeOK' => (Len(Pipeline) = Len(written) + Len(slot) + Len(in_hand) + Len(outbound))'
<1>1. TypeOK => Len(Pipeline) = Len(written) + Len(slot) + Len(in_hand) + Len(outbound)
    BY PipelineLen
<1> QED  BY <1>1, PTL

\* A send adds the message's frame at the end.
LEMMA SendPipeline ==
    ASSUME TypeOK, NEW m \in Outgoing, SendOutbound(m)
    PROVE  Pipeline' = Pipeline \o <<MessageToBytes(m)>>
<1> DEFINE e == Encoded(outbound)
           f == written \o slot \o in_hand
           x == <<MessageToBytes(m)>>
<1>1. /\ outbound \in Seq(Outgoing) /\ outbound' = Append(outbound, m)
      /\ UNCHANGED <<written, slot, in_hand>>
    BY DEF TypeOK, SendOutbound, netVars, sendVars
<1>2. /\ written \in Seq(Encodings) /\ slot \in Seq(Encodings)
      /\ in_hand \in Seq(Encodings) /\ e \in Seq(Encodings)
      /\ Pipeline = f \o e
    BY PipelineParts
<1>3. Pipeline' = f \o Encoded(outbound')
    BY <1>1 DEF Pipeline, Encoded
<1>4. Encoded(outbound') = e \o x
    BY <1>1, EncodedAppend, Zenon
<1>5. f \in Seq(Encodings)
    <2>1. written \o slot \in Seq(Encodings)
        BY <1>2, ConcatProperties, Zenon
    <2> QED  BY <2>1, <1>2, ConcatProperties, Zenon
<1>6. x \in Seq(Encodings)
    BY DEF Encodings
<1> HIDE DEF e, f, x
<1>7. (f \o e) \o x = f \o (e \o x)
    <2>1. e \in Seq(Encodings)
        BY <1>2
    <2> QED  BY <2>1, <1>5, <1>6, ConcatAssociative, SMTT(30)
<1> QED  BY <1>2, <1>3, <1>4, <1>7 DEF x

\* check_outbound takes the first message of the channel, and nothing is reordered.
LEMMA TakePipeline ==
    ASSUME TypeOK, CheckOutbound
    PROVE  Pipeline' = Pipeline
<1> DEFINE x == <<MessageToBytes(Head(outbound))>>
           r == Encoded(Tail(outbound))
<1>1. /\ outbound \in Seq(Outgoing) /\ outbound # <<>> /\ outbound' = Tail(outbound)
      /\ written' = written /\ in_hand = <<>>
      /\ \/ slot = <<>> /\ slot' = x /\ in_hand' = <<>>
         \/ slot' = slot /\ in_hand' = x
    BY DEF TypeOK, CheckOutbound, RecvOutbound, Offer, netVars
<1>2. /\ Encoded(outbound) = x \o r
      /\ Head(outbound) \in Outgoing /\ Tail(outbound) \in Seq(Outgoing)
    BY <1>1, EncodedHeadTail, Zenon
<1>3. written \in Seq(Encodings) /\ slot \in Seq(Encodings)
    BY PipelineParts
<1>4. x \in Seq(Encodings) /\ r \in Seq(Encodings) /\ <<>> \in Seq(Encodings)
    <2>1. MessageToBytes(Head(outbound)) \in Encodings
        BY <1>2 DEF Encodings
    <2>2. x \in Seq(Encodings) /\ <<>> \in Seq(Encodings)
        BY <2>1
    <2>3. r \in Seq(Encodings)
        BY <1>2, EncodedSeq, Zenon
    <2> QED  BY <2>2, <2>3
<1>5. Pipeline = written \o slot \o <<>> \o (x \o r)
    BY <1>1, <1>2 DEF Pipeline, Encoded
<1>6. Pipeline' = written \o slot' \o in_hand' \o r
    BY <1>1 DEF Pipeline, Encoded
<1> HIDE DEF x, r
<1>7. written \o slot \in Seq(Encodings)
    BY <1>3, ConcatProperties, Zenon
<1>8. Pipeline = (written \o slot) \o x \o r
    <2>1. written \o slot \o <<>> = written \o slot
        BY <1>7, ConcatEmptySeq, Zenon
    <2>2. ((written \o slot) \o x) \o r = (written \o slot) \o (x \o r)
        <3> DEFINE f == written \o slot
        <3>1. f \in Seq(Encodings)
            BY <1>7
        <3> HIDE DEF f
        <3>2. (f \o x) \o r = f \o (x \o r)
            BY <3>1, <1>4, ConcatAssociative, SMTT(30)
        <3> QED  BY <3>2 DEF f
    <2> QED  BY <2>1, <2>2, <1>5
<1>9. CASE slot = <<>> /\ slot' = x /\ in_hand' = <<>>
    <2>1. written \o slot = written /\ written \o x \in Seq(Encodings)
        BY <1>3, <1>4, <1>9, ConcatEmptySeq, ConcatProperties, Zenon
    <2>2. (written \o x) \o <<>> = written \o x
        BY <2>1, ConcatEmptySeq, Zenon
    <2> QED  BY <2>1, <2>2, <1>6, <1>8, <1>9
<1>10. CASE slot' = slot /\ in_hand' = x
    BY <1>6, <1>8, <1>10
<1> QED  BY <1>1, <1>9, <1>10

\* What the websocket takes is the first frame that is not written.
LEMMA FlushPipeline ==
    ASSUME TypeOK, FlushSlot
    PROVE  Pipeline' = Pipeline
<1>1. /\ written' = written \o slot /\ slot' = in_hand /\ in_hand' = <<>>
      /\ outbound' = outbound
    BY DEF FlushSlot, TakeSlot, outVars
<1>2. written \in Seq(Encodings) /\ slot \in Seq(Encodings) /\ in_hand \in Seq(Encodings)
    BY PipelineParts
<1>3. written \o slot \o in_hand \in Seq(Encodings)
    <2>1. written \o slot \in Seq(Encodings)
        BY <1>2, ConcatProperties, Zenon
    <2> QED  BY <2>1, <1>2, ConcatProperties, Zenon
<1>4. (written \o slot \o in_hand) \o <<>> = written \o slot \o in_hand
    BY <1>3, ConcatEmptySeq, Zenon
<1> QED  BY <1>1, <1>4 DEF Pipeline

\* A step that drops the waiting frame, and perhaps the one in the slot.
LEMMA CutPipeline ==
    ASSUME TypeOK, Embeds(Pipeline, sent),
           written' = written, outbound' = outbound, in_hand' = <<>>, slot' \in {slot, <<>>}
    PROVE  Embeds(Pipeline', sent)
<1> DEFINE e == Encoded(outbound)
<1>1. /\ written \in Seq(Encodings) /\ slot \in Seq(Encodings)
      /\ in_hand \in Seq(Encodings) /\ e \in Seq(Encodings)
      /\ Pipeline = written \o slot \o in_hand \o e
      /\ sent \in Seq(Outgoing) /\ <<>> \in Seq(Encodings)
    BY PipelineParts, EmptySeq DEF TypeOK
<1>2. Pipeline' = written \o slot' \o <<>> \o e
    BY DEF Pipeline, Encoded
<1> HIDE DEF e
<1>3. written \o slot \in Seq(Encodings) /\ slot' \in Seq(Encodings)
    BY <1>1, ConcatProperties, Zenon
<1>4. Embeds((written \o slot) \o e, sent)
    BY <1>1, <1>3, EmbedDrop, Zenon
<1>5. written \o slot' \in Seq(Encodings)
    BY <1>1, <1>3, ConcatProperties, Zenon
<1>6. Pipeline' = written \o slot' \o e
    <2>1. (written \o slot') \o <<>> = written \o slot'
        BY <1>5, ConcatEmptySeq, Zenon
    <2> QED  BY <2>1, <1>2
<1>7. CASE slot' = slot
    BY <1>4, <1>6, <1>7
<1>8. CASE slot' = <<>>
    <2>1. Embeds(written \o e, sent)
        BY <1>1, <1>4, EmbedDrop, Zenon
    <2>2. written \o <<>> = written
        BY <1>1, ConcatEmptySeq, Zenon
    <2> QED  BY <2>1, <2>2, <1>6, <1>8
<1> QED  BY <1>7, <1>8

-----------------------------------------------------------------------------
(***************************************************************************)
(* Types.                                                                  *)
(***************************************************************************)

\* A written frame is one that can come back.
LEMMA EncodingIsFrame ==
    ASSUME NEW b \in Encodings
    PROVE  Received(b) \in Frame
<1>1. PICK m \in Outgoing : b = MessageToBytes(m)
    BY DEF Encodings
<1>2. m \in Message
    BY MixnetAssumption
<1>3. b \in Seq(Byte)
    BY <1>1, <1>2, EncodingType
<1> QED  BY <1>3 DEF Received, Frame

\* The types of a step that leaves the websocket's side alone.
LEMMA StreamTypeStep ==
    ASSUME TypeOK, Accounted, UNCHANGED <<websocket, frames, written, arrived>>,
           phase' \in {"starting", "running", "failed"}, read' \in 0 .. Len(frames),
           listening' \in BOOLEAN, inbound' \in Seq(Message),
           sent' \in Seq(Outgoing), outbound' \in Seq(Outgoing),
           stage' \in {"idle", "ready", "flush"},
           in_hand' \in AtMostOne(Encodings), slot' \in AtMostOne(Encodings),
           stage' = "ready" <=> in_hand' # <<>>
    PROVE  TypeOK' /\ Accounted'
<1>1. TypeOK'
    BY DEF TypeOK
<1>2. Accounted'
    BY DEF Accounted, Answered
<1> QED  BY <1>1, <1>2

\* Nothing waits in the sink but what waits there.
LEMMA NothingWaits == <<>> \in AtMostOne(Encodings)
BY DEF AtMostOne

\* get_self_address.
LEMMA StartTypes ==
    ASSUME TypeOK, Accounted, WaitsForSlot, GetSelfAddress \/ StartWithoutAddress
    PROVE  TypeOK' /\ Accounted' /\ WaitsForSlot'
<1>1. /\ UNCHANGED <<websocket, frames, written, arrived, listening, inbound, sent, outbound,
                     stage, in_hand, slot>>
      /\ read' \in {read, read + 1} /\ (read' # read => read < Len(frames))
    BY DEF GetSelfAddress, StartWithoutAddress, HasFrame, streamVars, netVars, inVars, outVars,
           sendVars
<1>2. phase' \in {"starting", "running", "failed"}
    <2>1. CASE GetSelfAddress
        BY <2>1 DEF GetSelfAddress, AfterStartFrame
    <2>2. CASE StartWithoutAddress
        BY <2>2 DEF StartWithoutAddress
    <2> QED  BY <2>1, <2>2
<1>3. read' \in 0 .. Len(frames)
    <2>1. read \in 0 .. Len(frames) /\ Len(frames) \in Nat
        BY LenProperties DEF TypeOK
    <2> QED  BY <2>1, <1>1
<1>4. TypeOK' /\ Accounted'
    <2>1. /\ listening' \in BOOLEAN /\ inbound' \in Seq(Message)
          /\ sent' \in Seq(Outgoing) /\ outbound' \in Seq(Outgoing)
          /\ stage' \in {"idle", "ready", "flush"}
          /\ in_hand' \in AtMostOne(Encodings) /\ slot' \in AtMostOne(Encodings)
          /\ stage' = "ready" <=> in_hand' # <<>>
        BY <1>1 DEF TypeOK
    <2> QED  BY <2>1, <1>1, <1>2, <1>3, StreamTypeStep
<1> QED  BY <1>1, <1>4 DEF WaitsForSlot

\* check_inbound.
LEMMA InboundTypes ==
    ASSUME TypeOK, Accounted, WaitsForSlot, CheckInbound
    PROVE  TypeOK' /\ Accounted' /\ WaitsForSlot'
<1>1. /\ UNCHANGED <<phase, websocket, frames, written, arrived, listening, sent, outbound, slot>>
      /\ read' = read + 1 /\ read < Len(frames)
      /\ stage' = "idle" /\ in_hand' = <<>>
    BY DEF CheckInbound, DropCheckOutbound, HasFrame, netVars, outVars
<1>2. read + 1 \in 1 .. Len(frames)
    BY <1>1, LenProperties DEF TypeOK
<1>3. inbound' \in Seq(Message)
    <2>1. inbound' = inbound \/ (/\ inbound' = Append(inbound, ParseMessageData(NextFrame.bytes))
                                 /\ ParseMessageData(NextFrame.bytes) # Error)
        BY DEF CheckInbound
    <2>2. NextFrame.bytes \in Seq(Byte)
        <3>1. NextFrame \in Frame
            BY <1>2, ElementOfSeq DEF TypeOK, NextFrame
        <3> QED  BY <3>1 DEF Frame
    <2>3. ParseMessageData(NextFrame.bytes) # Error => ParseMessageData(NextFrame.bytes) \in Message
        BY <2>2, DecodedIsMessage
    <2>4. inbound \in Seq(Message)
        BY DEF TypeOK
    <2> QED  BY <2>1, <2>3, <2>4, AppendProperties
<1>4. TypeOK' /\ Accounted'
    <2>1. /\ listening' \in BOOLEAN /\ phase' \in {"starting", "running", "failed"}
          /\ sent' \in Seq(Outgoing) /\ outbound' \in Seq(Outgoing)
          /\ slot' \in AtMostOne(Encodings)
        BY <1>1 DEF TypeOK
    <2>2. read' \in 0 .. Len(frames)
        BY <1>1, <1>2, LenProperties DEF TypeOK
    <2> QED  BY <2>1, <2>2, <1>1, <1>3, NothingWaits, StreamTypeStep
<1> QED  BY <1>1, <1>4 DEF WaitsForSlot

\* The steps of check_outbound and its end with the websocket.
LEMMA OutboundTypes ==
    ASSUME TypeOK, Accounted, WaitsForSlot,
           CheckInboundEnded \/ CheckOutbound \/ FinishSend \/ FailSend
    PROVE  TypeOK' /\ Accounted' /\ WaitsForSlot'
<1>1. /\ UNCHANGED <<phase, websocket, frames, read, written, arrived, listening, inbound, sent>>
      /\ read' \in 0 .. Len(frames)
      /\ listening' \in BOOLEAN /\ phase' \in {"starting", "running", "failed"}
      /\ inbound' \in Seq(Message) /\ sent' \in Seq(Outgoing)
    BY DEF CheckInboundEnded, DropCheckOutbound, CheckOutbound, FinishSend, FailSend, TypeOK,
           streamVars, netVars, inVars, outVars
<1>2. CASE CheckOutbound
    <2> DEFINE x == <<MessageToBytes(Head(outbound))>>
    <2>1. /\ outbound \in Seq(Outgoing) /\ outbound # <<>> /\ outbound' = Tail(outbound)
          /\ in_hand = <<>> /\ slot \in AtMostOne(Encodings)
          /\ \/ slot = <<>> /\ slot' = x /\ in_hand' = in_hand /\ stage' = "flush"
             \/ slot # <<>> /\ slot' = slot /\ in_hand' = x /\ stage' = "ready"
        BY <1>2 DEF TypeOK, CheckOutbound, RecvOutbound, Offer
    <2>2. Head(outbound) \in Outgoing /\ outbound' \in Seq(Outgoing)
        BY <2>1, HeadTailProperties
    <2>3. x \in AtMostOne(Encodings) /\ x # <<>>
        BY <2>2 DEF AtMostOne, Encodings
    <2> HIDE DEF x
    <2>4. /\ stage' \in {"idle", "ready", "flush"}
          /\ in_hand' \in AtMostOne(Encodings) /\ slot' \in AtMostOne(Encodings)
          /\ stage' = "ready" <=> in_hand' # <<>>
          /\ WaitsForSlot'
        BY <2>1, <2>3, NothingWaits DEF WaitsForSlot
    <2> QED  BY <2>2, <2>4, <1>1, StreamTypeStep
<1>3. CASE CheckInboundEnded \/ FinishSend \/ FailSend
    <2>1. /\ outbound' = outbound /\ stage' = "idle" /\ in_hand' = <<>>
          /\ slot' \in {slot, <<>>}
        BY <1>3 DEF TypeOK, CheckInboundEnded, DropCheckOutbound, FinishSend, FailSend, outVars
    <2>2. /\ outbound' \in Seq(Outgoing)
          /\ in_hand' \in AtMostOne(Encodings) /\ slot' \in AtMostOne(Encodings)
        BY <2>1, NothingWaits DEF TypeOK
    <2>3. TypeOK' /\ Accounted'
        BY <2>1, <2>2, <1>1, StreamTypeStep
    <2> QED  BY <2>1, <2>3 DEF WaitsForSlot
<1> QED  BY <1>2, <1>3

\* The transport's ends of the channels.
LEMMA TransportTypes ==
    ASSUME TypeOK, Accounted, WaitsForSlot,
           (\E m \in Outgoing : SendOutbound(m)) \/ DropTransport
    PROVE  TypeOK' /\ Accounted' /\ WaitsForSlot'
<1>1. /\ UNCHANGED <<phase, websocket, frames, read, written, arrived, inbound,
                     stage, in_hand, slot>>
      /\ read' \in 0 .. Len(frames)
      /\ phase' \in {"starting", "running", "failed"}
      /\ inbound' \in Seq(Message)
      /\ stage' \in {"idle", "ready", "flush"}
      /\ in_hand' \in AtMostOne(Encodings) /\ slot' \in AtMostOne(Encodings)
      /\ stage' = "ready" <=> in_hand' # <<>>
    BY DEF SendOutbound, DropTransport, TypeOK, streamVars, netVars, inVars, sendVars
<1>2. listening' \in BOOLEAN
    BY DEF SendOutbound, DropTransport, TypeOK, inVars
<1>3. sent' \in Seq(Outgoing) /\ outbound' \in Seq(Outgoing)
    <2>1. sent \in Seq(Outgoing) /\ outbound \in Seq(Outgoing)
        BY DEF TypeOK
    <2>2. \/ sent' = sent /\ outbound' = outbound
          \/ \E m \in Outgoing : sent' = Append(sent, m) /\ outbound' = Append(outbound, m)
        BY DEF SendOutbound, DropTransport, outVars
    <2>3. \A s \in Seq(Outgoing) : \A m \in Outgoing : Append(s, m) \in Seq(Outgoing)
        BY AppendProperties
    <2> QED  BY <2>1, <2>2, <2>3, Zenon
<1>4. TypeOK' /\ Accounted'
    BY <1>1, <1>2, <1>3, StreamTypeStep
<1> QED  BY <1>1, <1>4 DEF WaitsForSlot


\* The websocket takes the frame in the slot.
LEMMA FlushTypes ==
    ASSUME TypeOK, Accounted, WaitsForSlot, FlushSlot
    PROVE  TypeOK' /\ Accounted' /\ WaitsForSlot'
<1>1. /\ UNCHANGED <<phase, websocket, frames, read, arrived, listening, inbound, sent, outbound>>
      /\ written' = written \o slot /\ slot' = in_hand
      /\ in_hand' = <<>> /\ stage' = "flush"
    BY DEF FlushSlot, TakeSlot, streamVars, inVars, outVars
<1>2. written \in Seq(Encodings) /\ slot \in Seq(Encodings)
    BY PipelineParts
<1>3. /\ written' \in Seq(Encodings)
      /\ Len(written') = Len(written) + Len(slot)
    BY <1>1, <1>2, ConcatProperties, Zenon
<1>4. arrived \subseteq 1 .. Len(written')
    <2>1. Len(written) \in Nat /\ Len(slot) \in Nat /\ arrived \subseteq 1 .. Len(written)
        BY <1>2, LenProperties DEF TypeOK
    <2> QED  BY <2>1, <1>3
<1>5. TypeOK'
    BY <1>1, <1>3, <1>4, NothingWaits DEF TypeOK
<1>6. Accounted' /\ WaitsForSlot'
    BY <1>1 DEF Accounted, Answered, WaitsForSlot
<1> QED  BY <1>5, <1>6

\* One more frame from the Nym client.
LEMMA DeliverTypes ==
    ASSUME TypeOK, Accounted, WaitsForSlot, NEW f \in Frame, Deliver(f),
           arrived' \subseteq 1 .. Len(written),
           Cardinality(arrived') + (IF Answered' THEN 1 ELSE 0) <=
               Cardinality(arrived) + (IF Answered THEN 1 ELSE 0) + 1
    PROVE  TypeOK' /\ Accounted' /\ WaitsForSlot'
<1>1. /\ UNCHANGED <<phase, websocket, read, written, listening, inbound, sent, outbound,
                     stage, in_hand, slot>>
      /\ frames' = Append(frames, f)
    BY DEF Deliver, inVars, outVars, sendVars
<1>2. frames \in Seq(Frame) /\ Len(frames) \in Nat /\ read \in 0 .. Len(frames)
    BY LenProperties DEF TypeOK
<1>3. frames' \in Seq(Frame) /\ Len(frames') = Len(frames) + 1
    BY <1>1, <1>2, AppendProperties
<1>4. TypeOK'
    BY <1>1, <1>2, <1>3 DEF TypeOK
<1>5. /\ Cardinality(arrived) \in Nat /\ Cardinality(arrived') \in Nat
    <2>1. Len(written) \in Nat /\ arrived \subseteq 1 .. Len(written)
        BY LenProperties DEF TypeOK
    <2>2. IsFiniteSet(1 .. Len(written))
        BY <2>1, FS_Interval
    <2>3. IsFiniteSet(arrived) /\ IsFiniteSet(arrived')
        BY <2>1, <2>2, FS_Subset
    <2> QED  BY <2>3, FS_CardinalityType
<1>6. Accounted'
    <2> DEFINE old == IF Answered THEN 1 ELSE 0
               new == IF Answered' THEN 1 ELSE 0
    <2>1. Cardinality(arrived') + new <= Cardinality(arrived) + old + 1
        OBVIOUS
    <2>2. Cardinality(arrived) + old <= Len(frames)
        BY DEF Accounted
    <2>3. old \in Nat /\ new \in Nat
        OBVIOUS
    <2> HIDE DEF old, new
    <2>4. Cardinality(arrived') + new <= Len(frames')
        BY <2>1, <2>2, <2>3, <1>2, <1>3, <1>5
    <2> QED  BY <2>4 DEF Accounted, new
<1> QED  BY <1>1, <1>4, <1>6 DEF WaitsForSlot

\* Whether the address was sent, after one more frame.
LEMMA AnsweredAfter ==
    ASSUME TypeOK, NEW f \in Frame, frames' = Append(frames, f)
    PROVE  Answered' <=> Answered \/ f.kind = "SelfAddress"
<1>1. /\ frames \in Seq(Frame) /\ Len(frames) \in Nat
      /\ DOMAIN frames = 1 .. Len(frames)
    BY LenProperties DEF TypeOK
<1>2. /\ DOMAIN frames' = 1 .. Len(frames) + 1
      /\ \A k \in 1 .. Len(frames) : frames'[k] = frames[k]
      /\ frames'[Len(frames) + 1] = f
    <2>1. /\ frames' \in Seq(Frame) /\ Len(frames') = Len(frames) + 1
          /\ \A k \in 1 .. Len(frames) : frames'[k] = frames[k]
          /\ frames'[Len(frames) + 1] = f
        BY <1>1, AppendProperties
    <2> QED  BY <2>1, LenProperties
<1>3. \A k \in 1 .. Len(frames) + 1 : k \in 1 .. Len(frames) \/ k = Len(frames) + 1
    BY <1>1
<1>4. \A k \in 1 .. Len(frames) : k \in 1 .. Len(frames) + 1
    BY <1>1
<1>5. Len(frames) + 1 \in 1 .. Len(frames) + 1
    BY <1>1
<1> QED  BY <1>1, <1>2, <1>3, <1>4, <1>5, Zenon DEF Answered

\* The Nym client and the mixnet.
LEMMA ClientTypes ==
    ASSUME TypeOK, Accounted, WaitsForSlot,
           AnswerAddress \/ (\E k \in DOMAIN written : Arrive(k)) \/ DeliverForeign
    PROVE  TypeOK' /\ Accounted' /\ WaitsForSlot'
<1>1. /\ written \in Seq(Encodings) /\ Len(written) \in Nat
      /\ DOMAIN written = 1 .. Len(written)
      /\ arrived \subseteq 1 .. Len(written)
    BY LenProperties DEF TypeOK
<1>2. IsFiniteSet(arrived) /\ Cardinality(arrived) \in Nat
    <2>1. IsFiniteSet(1 .. Len(written))
        BY <1>1, FS_Interval
    <2>2. IsFiniteSet(arrived)
        BY <1>1, <2>1, FS_Subset
    <2> QED  BY <2>2, FS_CardinalityType
<1>3. CASE AnswerAddress
    <2>1. ~Answered /\ Deliver(SelfAddress) /\ arrived' = arrived
        BY <1>3 DEF AnswerAddress
    <2>2. SelfAddress \in Frame
        BY EmptySeq DEF SelfAddress, Frame
    <2>3. Cardinality(arrived') + (IF Answered' THEN 1 ELSE 0) <=
              Cardinality(arrived) + (IF Answered THEN 1 ELSE 0) + 1
        BY <2>1, <1>2
    <2> QED  BY <2>1, <2>2, <2>3, <1>1, DeliverTypes
<1>4. CASE \E k \in DOMAIN written : Arrive(k)
    <2>1. PICK k \in DOMAIN written : Arrive(k)
        BY <1>4
    <2> DEFINE f == Received(written[k])
    <2>2. k \notin arrived /\ arrived' = arrived \cup {k} /\ Deliver(f)
        BY <2>1 DEF Arrive
    <2>3. f \in Frame /\ f.kind # "SelfAddress"
        <3>1. written[k] \in Encodings
            BY <1>1, ElementOfSeq
        <3> QED  BY <3>1, EncodingIsFrame DEF Received
    <2> HIDE DEF f
    <2>4. arrived' \subseteq 1 .. Len(written)
        BY <2>2, <1>1
    <2>5. Cardinality(arrived') = Cardinality(arrived) + 1
        BY <2>2, <1>2, FS_AddElement
    <2>6. Answered' <=> Answered
        <3>1. frames' = Append(frames, f)
            BY <2>2 DEF Deliver
        <3> QED  BY <3>1, <2>3, AnsweredAfter
    <2>7. Cardinality(arrived') + (IF Answered' THEN 1 ELSE 0) <=
              Cardinality(arrived) + (IF Answered THEN 1 ELSE 0) + 1
        BY <2>5, <2>6, <1>2
    <2> QED  BY <2>2, <2>3, <2>4, <2>7, DeliverTypes
<1>5. CASE DeliverForeign
    <2> DEFINE n == ForeignFrames + 1
    <2>1. n \in 1 .. Len(Foreign)
        <3>1. Len(frames) \in Nat /\ Len(Foreign) \in Nat
            BY LenProperties, MixnetAssumption DEF TypeOK
        <3> DEFINE a == IF Answered THEN 1 ELSE 0
        <3>2. /\ ForeignFrames = Len(frames) - Cardinality(arrived) - a
              /\ Cardinality(arrived) + a <= Len(frames)
              /\ ForeignFrames < Len(Foreign) /\ a \in Nat
            BY <1>5 DEF ForeignFrames, Accounted, DeliverForeign
        <3> HIDE DEF a
        <3> QED  BY <3>1, <3>2, <1>2
    <2> HIDE DEF n
    <2>2. PICK f \in Foreign[n] : Deliver(f) /\ arrived' = arrived
        BY <1>5 DEF DeliverForeign, n
    <2>3. f \in Frame /\ f.kind # "SelfAddress"
        <3>1. DOMAIN Foreign = 1 .. Len(Foreign) /\ Foreign \in Seq(SUBSET Frame)
            BY MixnetAssumption, LenProperties
        <3>2. Foreign[n] \in SUBSET Frame
            BY <2>1, <3>1, ElementOfSeq
        <3> QED  BY <2>1, <2>2, <3>1, <3>2, MixnetAssumption
    <2>4. Answered' <=> Answered
        <3>1. frames' = Append(frames, f)
            BY <2>2 DEF Deliver
        <3> QED  BY <3>1, <2>3, AnsweredAfter
    <2>5. Cardinality(arrived') + (IF Answered' THEN 1 ELSE 0) <=
              Cardinality(arrived) + (IF Answered THEN 1 ELSE 0) + 1
        BY <2>2, <2>4, <1>2
    <2> QED  BY <2>2, <2>3, <2>5, <1>1, DeliverTypes
<1> QED  BY <1>3, <1>4, <1>5

\* The websocket closes.
LEMMA CloseTypes ==
    ASSUME TypeOK, Accounted, WaitsForSlot, CloseWebsocket \/ UNCHANGED vars
    PROVE  TypeOK' /\ Accounted' /\ WaitsForSlot'
<1>1. /\ websocket' \in {"open", "closed"}
      /\ UNCHANGED <<phase, frames, read, written, arrived, listening, inbound, sent, outbound,
                     stage, in_hand, slot>>
    BY DEF CloseWebsocket, TypeOK, vars, streamVars, netVars, inVars, outVars, sendVars
<1>2. TypeOK'
    BY <1>1 DEF TypeOK
<1>3. Accounted' /\ WaitsForSlot'
    BY <1>1 DEF Accounted, Answered, WaitsForSlot
<1> QED  BY <1>2, <1>3

\* Every step keeps the types.
LEMMA TypeStep ==
    ASSUME TypeOK, Accounted, WaitsForSlot, [Next]_vars
    PROVE  TypeOK' /\ Accounted' /\ WaitsForSlot'
BY StartTypes, InboundTypes, OutboundTypes, FlushTypes, TransportTypes, ClientTypes, CloseTypes
   DEF Next, Task

-----------------------------------------------------------------------------
(***************************************************************************)
(* The order of writing, and the causes of a failed start.                 *)
(***************************************************************************)

\* Every step keeps the pipeline, adds what was sent to it, or drops frames from it.
LEMMA OrderStep ==
    ASSUME TypeOK, WrittenInOrder, [Next]_vars
    PROVE  WrittenInOrder'
<1>1. Embeds(Pipeline, sent)
    BY DEF WrittenInOrder, Embeds
<1>2. SUFFICES Embeds(Pipeline', sent')
    BY DEF WrittenInOrder, Embeds
<1>3. CASE \E m \in Outgoing : SendOutbound(m)
    <2>1. PICK m \in Outgoing : SendOutbound(m)
        BY <1>3
    <2>2. sent' = Append(sent, m) /\ sent \in Seq(Outgoing)
        BY <2>1 DEF SendOutbound, TypeOK
    <2>3. Pipeline' = Pipeline \o <<MessageToBytes(m)>>
        BY <2>1, SendPipeline
    <2>4. Pipeline \in Seq(Encodings)
        BY PipelineLen
    <2>5. Embeds(Pipeline \o <<MessageToBytes(m)>>, Append(sent, m))
        BY <2>2, <2>4, <1>1, EmbedAppend
    <2> QED  BY <2>2, <2>3, <2>5
<1>4. CASE CheckInbound \/ CheckInboundEnded \/ FailSend
    <2>1. /\ written' = written /\ outbound' = outbound /\ in_hand' = <<>>
          /\ slot' \in {slot, <<>>} /\ sent' = sent
        BY <1>4 DEF CheckInbound, CheckInboundEnded, DropCheckOutbound, FailSend,
                    netVars, outVars
    <2>2. Embeds(Pipeline', sent)
        BY <2>1, <1>1, CutPipeline
    <2> QED  BY <2>1, <2>2
<1>5. CASE CheckOutbound
    <2>1. sent' = sent
        BY <1>5 DEF CheckOutbound
    <2> QED  BY <2>1, <1>1, <1>5, TakePipeline
<1>6. CASE FlushSlot
    <2>1. sent' = sent
        BY <1>6 DEF FlushSlot, outVars
    <2> QED  BY <2>1, <1>1, <1>6, FlushPipeline
<1>7. CASE \/ GetSelfAddress \/ StartWithoutAddress \/ FinishSend \/ DropTransport
           \/ AnswerAddress \/ (\E k \in DOMAIN written : Arrive(k)) \/ DeliverForeign
           \/ CloseWebsocket \/ UNCHANGED vars
    <2>1. UNCHANGED <<written, slot, in_hand, outbound, sent>>
        BY <1>7 DEF GetSelfAddress, StartWithoutAddress, FinishSend, DropTransport,
                    AnswerAddress, Arrive, DeliverForeign, Deliver, CloseWebsocket,
                    vars, netVars, outVars, sendVars
    <2>2. Pipeline' = Pipeline
        BY <2>1 DEF Pipeline
    <2> QED  BY <2>1, <2>2, <1>1
<1> QED  BY <1>3, <1>4, <1>5, <1>6, <1>7 DEF Next, Task

\* A cause stays one.
LEMMA CauseStep ==
    ASSUME TypeOK, StartFailsForCause, [Next]_vars
    PROVE  StartFailsForCause'
<1>1. frames \in Seq(Frame) /\ Len(frames) \in Nat /\ read \in 0 .. Len(frames)
    BY LenProperties DEF TypeOK
<1>2. CASE GetSelfAddress
    <2>1. /\ read' = read + 1 /\ frames' = frames /\ websocket' = websocket
          /\ phase = "starting" /\ phase' = AfterStartFrame(frames[read + 1])
        BY <1>2 DEF GetSelfAddress, NextFrame
    <2>2. phase' = "failed" => frames[read + 1].kind \in {"Error", "Unreadable"}
        BY <2>1 DEF AfterStartFrame
    <2>3. read + 1 \in 1 .. read'
        BY <2>1, <1>1
    <2> QED  BY <2>1, <2>2, <2>3 DEF StartFailsForCause
<1>3. CASE StartWithoutAddress
    BY <1>3 DEF StartWithoutAddress, StreamEnded, StartFailsForCause, streamVars
<1>4. CASE \/ AnswerAddress \/ (\E k \in DOMAIN written : Arrive(k)) \/ DeliverForeign
    <2>1. PICK f : Deliver(f)
        BY <1>4 DEF AnswerAddress, Arrive, DeliverForeign
    <2>2. UNCHANGED <<phase, websocket, read>> /\ frames' = Append(frames, f)
        BY <2>1 DEF Deliver
    <2>3. \A k \in 1 .. read : frames'[k] = frames[k]
        BY <2>2, <1>1
    <2> QED  BY <2>2, <2>3 DEF StartFailsForCause
<1>5. CASE CheckInbound
    <2>1. phase = "running" /\ phase' = phase
        BY <1>5 DEF CheckInbound
    <2> QED  BY <2>1 DEF StartFailsForCause
<1>6. CASE CloseWebsocket
    BY <1>6 DEF CloseWebsocket, StartFailsForCause
<1>7. CASE \/ CheckInboundEnded \/ CheckOutbound \/ FlushSlot \/ FinishSend \/ FailSend
           \/ (\E m \in Outgoing : SendOutbound(m)) \/ DropTransport \/ UNCHANGED vars
    <2>1. UNCHANGED <<phase, websocket, frames, read>>
        BY <1>7 DEF CheckInboundEnded, CheckOutbound, FlushSlot, FinishSend, FailSend,
                    SendOutbound, DropTransport, vars, streamVars
    <2> QED  BY <2>1 DEF StartFailsForCause
<1> QED  BY <1>2, <1>3, <1>4, <1>5, <1>6, <1>7 DEF Next, Task
-----------------------------------------------------------------------------
(***************************************************************************)
(* What is passed on.                                                      *)
(***************************************************************************)

\* The frames that were read do not change when another one is delivered.
LEMMA FramesStay ==
    ASSUME TypeOK, NEW f, Deliver(f)
    PROVE  /\ UNCHANGED <<phase, websocket, read, listening, inbound>>
           /\ \A k \in 1 .. read : frames'[k] = frames[k]
<1>1. frames \in Seq(Frame) /\ Len(frames) \in Nat /\ read \in 0 .. Len(frames)
    BY LenProperties DEF TypeOK
<1>2. /\ UNCHANGED <<phase, websocket, read, listening, inbound>>
      /\ frames' = Append(frames, f)
    BY DEF Deliver, inVars
<1> QED  BY <1>1, <1>2

\* The address is known once its frame was read.
LEMMA StartedStep ==
    ASSUME TypeOK, StartedInv, [Next]_vars
    PROVE  StartedInv'
<1>1. Len(frames) \in Nat /\ read \in 0 .. Len(frames)
    BY LenProperties DEF TypeOK
<1>2. CASE GetSelfAddress
    <2>1. /\ read' = read + 1 /\ frames' = frames /\ inbound' = inbound
          /\ phase = "starting" /\ phase' = AfterStartFrame(frames[read + 1])
        BY <1>2 DEF GetSelfAddress, NextFrame, inVars
    <2>2. phase' = "running" <=> frames[read + 1].kind = "SelfAddress"
        BY <2>1 DEF AfterStartFrame
    <2>3. \A i \in 1 .. read : frames[i].kind # "SelfAddress"
        BY <2>1 DEF StartedInv
    <2>4. \A i \in 1 .. read' : i \in 1 .. read \/ i = read + 1
        BY <2>1, <1>1
    <2>5. read + 1 \in 1 .. read'
        BY <2>1, <1>1
    <2> QED  BY <2>1, <2>2, <2>3, <2>4, <2>5 DEF StartedInv
<1>3. CASE StartWithoutAddress
    BY <1>3 DEF StartWithoutAddress, StartedInv, streamVars, inVars
<1>4. CASE CheckInbound
    <2>1. phase = "running" /\ phase' = phase /\ frames' = frames /\ read' = read + 1
        BY <1>4 DEF CheckInbound
    <2>2. 1 .. read \subseteq 1 .. read'
        BY <2>1, <1>1
    <2> QED  BY <2>1, <2>2 DEF StartedInv
<1>5. CASE \/ AnswerAddress \/ (\E k \in DOMAIN written : Arrive(k)) \/ DeliverForeign
    <2>1. PICK f : Deliver(f)
        BY <1>5 DEF AnswerAddress, Arrive, DeliverForeign
    <2> QED  BY <2>1, FramesStay DEF StartedInv
<1>6. CASE \/ CheckInboundEnded \/ CheckOutbound \/ FlushSlot \/ FinishSend \/ FailSend
           \/ (\E m \in Outgoing : SendOutbound(m)) \/ DropTransport \/ CloseWebsocket
           \/ UNCHANGED vars
    <2>1. UNCHANGED <<phase, frames, read, inbound>>
        BY <1>6 DEF CheckInboundEnded, CheckOutbound, FlushSlot, FinishSend, FailSend,
                    SendOutbound, DropTransport, CloseWebsocket, vars, streamVars, inVars
    <2> QED  BY <2>1 DEF StartedInv
<1> QED  BY <1>2, <1>3, <1>4, <1>5, <1>6 DEF Next, Task

\* A step that reads no frame; the transport may be dropped by it.
LEMMA NothingRead ==
    ASSUME InboundInv, read' = read, inbound' = inbound, listening' => listening,
           \A k \in 1 .. read : frames'[k] = frames[k], read \in Nat
    PROVE  InboundInv'
<1>1. Heard' = Heard
    <2>1. ASSUME NEW j \in 1 .. read
          PROVE  /\ frames'[j] = frames[j]
                 /\ \A i \in 1 .. j - 1 : frames'[i] = frames[i]
        OBVIOUS
    <2> QED  BY <2>1 DEF Heard
<1>2. \A j \in Heard : frames'[j] = frames[j]
    BY DEF Heard
<1> QED  BY <1>1, <1>2 DEF InboundInv

\* Before the address nothing is heard, and nothing is passed on.
LEMMA NothingHeard ==
    ASSUME read \in Nat, inbound = <<>>,
           \A i \in 1 .. read : i < read => frames[i].kind # "SelfAddress"
    PROVE  InboundInv
<1>1. Heard = {}
    <2> SUFFICES ASSUME NEW j \in Heard PROVE FALSE
        OBVIOUS
    <2>1. PICK i \in 1 .. j - 1 : j \in 1 .. read /\ frames[i].kind = "SelfAddress"
        BY DEF Heard
    <2>2. i \in 1 .. read /\ i < read
        BY <2>1
    <2> QED  BY <2>1, <2>2
<1>2. [k \in {} |-> 0] \in [DOMAIN inbound -> Heard]
    OBVIOUS
<1> QED  BY <1>1, <1>2 DEF InboundInv

\* check_inbound reads the next frame.
LEMMA HeardAfter ==
    ASSUME TypeOK, StartedInv, CheckInbound
    PROVE  /\ \A j \in Heard : j \in Heard' /\ j <= read
           /\ \A j \in Heard' : j \in Heard \/ j = read + 1
           /\ read + 1 \in Heard' <=> NextFrame.kind = "Received"
<1>1. Len(frames) \in Nat /\ read \in 0 .. Len(frames)
    BY LenProperties DEF TypeOK
<1>2. read' = read + 1 /\ frames' = frames /\ phase = "running"
    BY DEF CheckInbound
<1>3. PICK i \in 1 .. read : frames[i].kind = "SelfAddress"
    BY <1>2 DEF StartedInv
<1>4. i \in 1 .. (read + 1) - 1 /\ read + 1 \in 1 .. read'
    BY <1>1, <1>2
<1>5. \A j \in 1 .. read : j \in 1 .. read' /\ j <= read
    BY <1>1, <1>2
<1>6. \A j \in 1 .. read' : j \in 1 .. read \/ j = read + 1
    BY <1>1, <1>2
<1>7. Heard' = {j \in 1 .. read' : /\ frames[j].kind = "Received"
                                   /\ \E h \in 1 .. j - 1 : frames[h].kind = "SelfAddress"}
    BY <1>2 DEF Heard
<1> QED  BY <1>3, <1>4, <1>5, <1>6, <1>7 DEF Heard, NextFrame

\* It passes on what the decoder makes of it, at the end, unless that is an error or nobody
\* listens; a position that was passed over earlier stays one.
LEMMA InboundReads ==
    ASSUME TypeOK, StartedInv, InboundInv, CheckInbound
    PROVE  InboundInv'
<1> DEFINE n == Len(inbound)
           said == ParseMessageData(NextFrame.bytes)
<1>1. PICK at \in [DOMAIN inbound -> Heard] :
          /\ \A j, k \in DOMAIN at : j < k => at[j] < at[k]
          /\ \A k \in DOMAIN at : inbound[k] = ParseMessageData(frames[at[k]].bytes)
          /\ \A j \in Heard :
                ParseMessageData(frames[j].bytes) # Error
                    /\ (listening \/ \E k \in DOMAIN at : j < at[k])
                => \E k \in DOMAIN at : at[k] = j
    BY DEF InboundInv
<1>2. /\ frames' = frames /\ listening' = listening
      /\ inbound' = IF NextFrame.kind = "Received" /\ said # Error /\ listening
                    THEN Append(inbound, said) ELSE inbound
    BY DEF CheckInbound
<1>3. inbound \in Seq(Message) /\ n \in Nat /\ DOMAIN inbound = 1 .. n /\ DOMAIN at = 1 .. n
      /\ read \in Nat /\ Heard \subseteq Nat
    BY <1>1, LenProperties DEF TypeOK, Heard
<1>4. frames[read + 1] = NextFrame
    BY DEF NextFrame
<1> HIDE DEF n
<1>5. CASE NextFrame.kind = "Received" /\ said # Error /\ listening
    <2> DEFINE to == [k \in 1 .. n + 1 |-> IF k <= n THEN at[k] ELSE read + 1]
    <2>1. said \in Message
        <3>1. read < Len(frames)
            BY DEF CheckInbound, HasFrame
        <3>2. read + 1 \in 1 .. Len(frames)
            BY <3>1, LenProperties DEF TypeOK
        <3>3. NextFrame \in Frame
            BY <3>2, ElementOfSeq DEF TypeOK, NextFrame
        <3>4. NextFrame.bytes \in Seq(Byte)
            BY <3>3 DEF Frame
        <3> QED  BY <3>4, <1>5, DecodedIsMessage
    <2> HIDE DEF said
    <2>2. /\ DOMAIN inbound' = 1 .. n + 1 /\ inbound'[n + 1] = said
          /\ \A k \in 1 .. n : inbound'[k] = inbound[k]
        <3>1. inbound' = Append(inbound, said)
            BY <1>2, <1>5
        <3> QED  BY <2>1, <3>1, <1>3, AppendProperties DEF n
    <2>3. /\ \A k \in 1 .. n : to[k] = at[k] /\ at[k] \in Heard /\ at[k] <= read
          /\ to[n + 1] = read + 1
          /\ DOMAIN to = 1 .. n + 1
        <3>1. \A k \in 1 .. n : at[k] \in Heard
            BY <1>1, <1>3
        <3>2. \A k \in 1 .. n : at[k] <= read
            BY <3>1, HeardAfter
        <3> QED  BY <3>1, <3>2, <1>3
    <2>4. \A k \in 1 .. n + 1 : k \in 1 .. n \/ k = n + 1
        BY <1>3
    <2>5. n + 1 \in 1 .. n + 1 /\ \A k \in 1 .. n : k \in 1 .. n + 1
        BY <1>3
    <2>6. to \in [1 .. n + 1 -> Heard']
        <3>1. \A k \in 1 .. n + 1 : to[k] \in Heard'
            <4> HIDE DEF to
            <4> QED  BY <2>3, <2>4, <1>5, HeardAfter
        <3> QED  BY <3>1
    <2> HIDE DEF to
    <2>7. ASSUME NEW j \in 1 .. n + 1, NEW k \in 1 .. n + 1, j < k PROVE to[j] < to[k]
        <3>1. j \in 1 .. n
            BY <2>7, <1>3
        <3>2. CASE k \in 1 .. n
            BY <3>1, <3>2, <2>3, <2>7, <1>1, <1>3
        <3>3. CASE k = n + 1
            <4>1. at[j] <= read /\ at[j] \in Nat
                BY <3>1, <2>3, <1>3
            <4> QED  BY <4>1, <3>1, <3>3, <2>3, <1>3
        <3> QED  BY <3>2, <3>3, <2>4
    <2>8. \A k \in 1 .. n + 1 : inbound'[k] = ParseMessageData(frames[to[k]].bytes)
        <3>1. \A k \in 1 .. n : inbound'[k] = ParseMessageData(frames[to[k]].bytes)
            BY <2>2, <2>3, <1>1, <1>3
        <3>2. inbound'[n + 1] = ParseMessageData(frames[to[n + 1]].bytes)
            BY <2>2, <2>3, <1>4 DEF said
        <3> QED  BY <3>1, <3>2, <2>4
    <2>9. ASSUME NEW j \in Heard', ParseMessageData(frames[j].bytes) # Error
          PROVE  \E k \in 1 .. n + 1 : to[k] = j
        <3>1. CASE j \in Heard
            <4>1. PICK k \in 1 .. n : at[k] = j
                BY <3>1, <2>9, <1>1, <1>3, <1>5
            <4> QED  BY <4>1, <2>3, <2>5
        <3>2. CASE j = read + 1
            BY <3>2, <2>3, <2>5
        <3> QED  BY <3>1, <3>2, HeardAfter
    <2>10. to \in [DOMAIN inbound' -> Heard'] /\ DOMAIN to = 1 .. n + 1
        BY <2>2, <2>3, <2>6
    <2>11. /\ \A j, k \in DOMAIN to : j < k => to[j] < to[k]
           /\ \A k \in DOMAIN to : inbound'[k] = ParseMessageData(frames'[to[k]].bytes)
           /\ \A j \in Heard' :
                 ParseMessageData(frames'[j].bytes) # Error
                     /\ (listening' \/ \E k \in DOMAIN to : j < to[k])
                 => \E k \in DOMAIN to : to[k] = j
        BY <2>7, <2>8, <2>9, <2>10, <1>2, Zenon
    <2> QED  BY <2>10, <2>11, Zenon DEF InboundInv
<1>6. CASE ~(NextFrame.kind = "Received" /\ said # Error /\ listening)
    <2>1. inbound' = inbound
        BY <1>2, <1>6
    <2>2. at \in [DOMAIN inbound -> Heard']
        BY <1>1, HeardAfter
    <2>3. ASSUME NEW j \in Heard', ParseMessageData(frames[j].bytes) # Error,
                 listening \/ \E k \in DOMAIN at : j < at[k]
          PROVE  \E k \in DOMAIN at : at[k] = j
        <3>1. CASE j \in Heard
            BY <3>1, <2>3, <1>1
        <3>2. CASE j = read + 1
            <4>1. NextFrame.kind = "Received" /\ said # Error
                BY <3>2, <2>3, <1>4, HeardAfter
            <4>2. PICK k \in DOMAIN at : j < at[k]
                BY <4>1, <2>3, <1>6
            <4>3. at[k] \in Heard
                BY <1>1
            <4>4. at[k] <= read /\ at[k] \in Nat
                BY <4>3, <1>3, HeardAfter
            <4> QED  BY <4>2, <4>4, <3>2, <1>3
        <3> QED  BY <3>1, <3>2, HeardAfter
    <2> QED  BY <2>1, <2>2, <2>3, <1>1, <1>2 DEF InboundInv
<1> QED  BY <1>5, <1>6

\* What was passed on stays what the decoder made of the frames.
LEMMA InboundStep ==
    ASSUME TypeOK, StartedInv, InboundInv, [Next]_vars
    PROVE  InboundInv'
<1>1. Len(frames) \in Nat /\ read \in 0 .. Len(frames) /\ read \in Nat
    BY LenProperties DEF TypeOK
<1>2. CASE GetSelfAddress
    <2>1. read' = read + 1 /\ frames' = frames /\ inbound' = inbound /\ phase # "running"
        BY <1>2 DEF GetSelfAddress, inVars
    <2>2. inbound' = <<>> /\ \A i \in 1 .. read : frames[i].kind # "SelfAddress"
        BY <2>1 DEF StartedInv
    <2>3. read' \in Nat /\ \A i \in 1 .. read' : i < read' => i \in 1 .. read
        BY <2>1, <1>1
    <2>4. Heard' = {}
        <3> SUFFICES ASSUME NEW j \in Heard' PROVE FALSE
            OBVIOUS
        <3>1. PICK i \in 1 .. j - 1 : j \in 1 .. read' /\ frames'[i].kind = "SelfAddress"
            BY DEF Heard
        <3>2. i \in 1 .. read'  /\ i < read'
            BY <3>1, <2>3
        <3> QED  BY <3>1, <3>2, <2>1, <2>2, <2>3
    <2>5. [k \in {} |-> 0] \in [DOMAIN inbound' -> Heard']
        BY <2>2
    <2> QED  BY <2>2, <2>4, <2>5 DEF InboundInv
<1>3. CASE CheckInbound
    BY <1>3, InboundReads
<1>4. CASE \/ AnswerAddress \/ (\E k \in DOMAIN written : Arrive(k)) \/ DeliverForeign
    <2>1. PICK f : Deliver(f)
        BY <1>4 DEF AnswerAddress, Arrive, DeliverForeign
    <2> QED  BY <2>1, <1>1, FramesStay, NothingRead
<1>5. CASE \/ StartWithoutAddress \/ CheckInboundEnded \/ CheckOutbound \/ FlushSlot
           \/ FinishSend \/ FailSend \/ (\E m \in Outgoing : SendOutbound(m))
           \/ DropTransport \/ CloseWebsocket \/ UNCHANGED vars
    <2>1. UNCHANGED <<frames, read, inbound>> /\ (listening' => listening)
        BY <1>5 DEF StartWithoutAddress, CheckInboundEnded, CheckOutbound, FlushSlot,
                    FinishSend, FailSend, SendOutbound, DropTransport, CloseWebsocket, vars,
                    streamVars, inVars
    <2> QED  BY <2>1, <1>1, NothingRead
<1> QED  BY <1>2, <1>3, <1>4, <1>5 DEF Next, Task

\* The decoder accepts what the bytes say, and nothing else.
LEMMA InboundSays ==
    ASSUME TypeOK, InboundInv
    PROVE  InboundMatchesFrames
<1>1. PICK at \in [DOMAIN inbound -> Heard] :
          /\ \A j, k \in DOMAIN at : j < k => at[j] < at[k]
          /\ \A k \in DOMAIN at : inbound[k] = ParseMessageData(frames[at[k]].bytes)
          /\ \A j \in Heard :
                ParseMessageData(frames[j].bytes) # Error
                    /\ (listening \/ \E k \in DOMAIN at : j < at[k])
                => \E k \in DOMAIN at : at[k] = j
    BY DEF InboundInv
<1>2. \A j \in Heard : frames[j].bytes \in Seq(Byte)
    <2> SUFFICES ASSUME NEW j \in Heard PROVE frames[j].bytes \in Seq(Byte)
        OBVIOUS
    <2>1. j \in 1 .. Len(frames)
        BY LenProperties DEF Heard, TypeOK
    <2>2. frames[j] \in Frame
        BY <2>1, ElementOfSeq DEF TypeOK
    <2> QED  BY <2>2 DEF Frame
<1>3. \A k \in DOMAIN at : Says(frames[at[k]].bytes, inbound[k])
    <2> SUFFICES ASSUME NEW k \in DOMAIN at PROVE Says(frames[at[k]].bytes, inbound[k])
        OBVIOUS
    <2>1. inbound[k] \in Message
        BY <1>1, LenProperties, ElementOfSeq DEF TypeOK
    <2>2. PICK b \in Seq(Byte) : b = frames[at[k]].bytes
        BY <1>1, <1>2
    <2>3. ParseMessageData(b) = inbound[k]
        BY <2>2, <1>1
    <2> QED  BY <2>1, <2>2, <2>3, Decoding
<1>4. ASSUME NEW j \in Heard, NEW m \in Known, Says(frames[j].bytes, m),
             listening \/ \E k \in DOMAIN at : j < at[k]
      PROVE  \E k \in DOMAIN at : at[k] = j /\ inbound[k] = m
    <2>1. PICK b \in Seq(Byte) : b = frames[j].bytes
        BY <1>2
    <2>2. m \in Message /\ m # Error
        BY MixnetAssumption, MessageAssumption
    <2>3. ParseMessageData(b) = m
        BY <2>1, <2>2, <1>4, Decoding
    <2>4. PICK k \in DOMAIN at : at[k] = j
        BY <2>1, <2>2, <2>3, <1>1, <1>4
    <2> QED  BY <2>1, <2>3, <2>4, <1>1
<1> QED  BY <1>1, <1>3, <1>4 DEF InboundMatchesFrames
-----------------------------------------------------------------------------
(***************************************************************************)
(* The theorems.                                                           *)
(***************************************************************************)

\* The task has just asked for the address.
LEMMA InitInv == Init => IndInv
<1> SUFFICES ASSUME Init PROVE IndInv
    OBVIOUS
<1> USE DEF Init
<1>1. TypeOK
    <2>1. \A S : <<>> \in Seq(S)
        BY EmptySeq
    <2>2. 0 \in 0 .. Len(frames)
        OBVIOUS
    <2> QED  BY <2>1, <2>2, NothingWaits DEF TypeOK
<1>2. Accounted
    BY FS_EmptySet DEF Accounted, Answered
<1>3. WaitsForSlot /\ StartFailsForCause
    BY DEF WaitsForSlot, StartFailsForCause
<1>4. WrittenInOrder
    <2>1. Len(Pipeline) = 0 /\ Pipeline \in Seq(Encodings)
        BY <1>1, PipelineLen
    <2>2. Pipeline = <<>>
        BY <2>1, EmptySeq
    <2>3. Embeds(<<>>, <<>>)
        <3>1. [k \in {} |-> 0] \in [DOMAIN <<>> -> DOMAIN <<>>]
            OBVIOUS
        <3> QED  BY <3>1 DEF Embeds
    <2> QED  BY <2>2, <2>3 DEF WrittenInOrder, Embeds
<1>5. StartedInv
    BY DEF StartedInv
<1>6. InboundInv
    BY NothingHeard
<1> QED  BY <1>1, <1>2, <1>3, <1>4, <1>5, <1>6 DEF IndInv

\* The inductive invariant holds for every instance: all messages, all frames, all bounds.
THEOREM IndInvariant == Spec => []IndInv
<1>1. IndInv /\ [Next]_vars => IndInv'
    BY TypeStep, OrderStep, CauseStep, StartedStep, InboundStep DEF IndInv
<1> QED  BY <1>1, InitInv, PTL DEF Spec

\* Every variable keeps its type: the frames in hand are encodings of messages that were
\* sent, and what is passed on is a message, whatever the Nym client delivers.
THEOREM TypeCorrect == Spec => []TypeOK
<1>1. IndInv => TypeOK
    BY DEF IndInv
<1> QED  BY <1>1, IndInvariant, PTL

\* The task writes the messages of the outbound channel in their order, each at most once.
THEOREM WrittenInOrderTheorem == Spec => []WrittenInOrder
<1>1. IndInv => WrittenInOrder
    BY DEF IndInv
<1> QED  BY <1>1, IndInvariant, PTL

\* What is passed on is what the frames since the address say, all of it, in their order and
\* unaltered, whichever messages the frames are searched for.
THEOREM InboundTheorem == Spec => []InboundMatchesFrames
<1>1. IndInv => InboundMatchesFrames
    BY InboundSays DEF IndInv
<1> QED  BY <1>1, IndInvariant, PTL

\* initialize_mixnet fails only for an error, something unreadable or a closed websocket.
THEOREM StartFailsForCauseTheorem == Spec => []StartFailsForCause
<1>1. IndInv => StartFailsForCause
    BY DEF IndInv
<1> QED  BY <1>1, IndInvariant, PTL

\* While the websocket is open, a step of the task loses at most one message, and only by
\* reading a frame while the sink still holds an earlier message, which is kept.
THEOREM LossTheorem == Spec => LostOnlyWhenBlocked
<1> DEFINE Loses ==
        Len(Pipeline') < Len(Pipeline) /\ websocket = "open" =>
            /\ read' = read + 1
            /\ slot # <<>> /\ slot' = slot
            /\ Len(Pipeline') = Len(Pipeline) - 1
<1>1. ASSUME IndInv, IndInv', [Next]_vars
      PROVE  Loses
    <2>1. TypeOK /\ TypeOK' /\ WaitsForSlot
        BY <1>1 DEF IndInv
    <2>2. /\ Len(Pipeline) = Len(written) + Len(slot) + Len(in_hand) + Len(outbound)
          /\ Len(written) \in Nat /\ Len(slot) \in Nat /\ Len(in_hand) \in Nat
          /\ Len(outbound) \in Nat
        BY <2>1, PipelineLen
    <2>3. Len(Pipeline') = Len(written') + Len(slot') + Len(in_hand') + Len(outbound')
        BY <2>1, PipelineLenAfter
    <2>4. CASE CheckInbound
        <3>1. /\ read' = read + 1 /\ slot' = slot /\ in_hand' = <<>>
              /\ written' = written /\ outbound' = outbound
            BY <2>4 DEF CheckInbound, DropCheckOutbound, netVars, outVars
        <3>2. Len(in_hand) = IF in_hand = <<>> THEN 0 ELSE 1
            BY <2>1, AtMostOneSeq DEF TypeOK
        <3>3. Len(in_hand') = 0
            BY <3>1
        <3>4. Len(Pipeline') = Len(Pipeline) - Len(in_hand)
            BY <2>2, <2>3, <3>1, <3>3
        <3>5. CASE in_hand = <<>>
            BY <3>2, <3>4, <3>5, <2>2
        <3>6. CASE in_hand # <<>>
            BY <3>1, <3>2, <3>4, <3>6, <2>1 DEF WaitsForSlot
        <3> QED  BY <3>5, <3>6
    <2>5. CASE CheckInboundEnded \/ FailSend
        BY <2>5 DEF CheckInboundEnded, StreamEnded, FailSend
    <2>6. CASE CheckOutbound
        <3>1. Pipeline' = Pipeline
            BY <2>1, <2>6, TakePipeline
        <3> QED  BY <3>1, <2>2
    <2>7. CASE FlushSlot
        <3>1. Pipeline' = Pipeline
            BY <2>1, <2>7, FlushPipeline
        <3> QED  BY <3>1, <2>2
    <2>8. CASE \E m \in Outgoing : SendOutbound(m)
        <3>1. PICK m \in Outgoing : SendOutbound(m)
            BY <2>8
        <3>2. /\ outbound \in Seq(Outgoing) /\ outbound' = Append(outbound, m)
              /\ UNCHANGED <<written, slot, in_hand>>
            BY <2>1, <3>1 DEF SendOutbound, TypeOK, netVars, sendVars
        <3>3. Len(outbound') = Len(outbound) + 1
            BY <3>2, AppendProperties
        <3> QED  BY <3>2, <3>3, <2>2, <2>3
    <2>9. CASE \/ GetSelfAddress \/ StartWithoutAddress \/ FinishSend \/ DropTransport
               \/ AnswerAddress \/ (\E k \in DOMAIN written : Arrive(k)) \/ DeliverForeign
               \/ CloseWebsocket \/ UNCHANGED vars
        <3>1. UNCHANGED <<written, slot, in_hand, outbound>>
            BY <2>9 DEF GetSelfAddress, StartWithoutAddress, FinishSend, DropTransport,
                        AnswerAddress, Arrive, DeliverForeign, Deliver, CloseWebsocket,
                        vars, netVars, outVars, sendVars
        <3>2. Pipeline' = Pipeline
            BY <3>1 DEF Pipeline
        <3> QED  BY <3>2, <2>2
    <2> QED  BY <1>1, <2>4, <2>5, <2>6, <2>7, <2>8, <2>9 DEF Next, Task
<1>2. IndInv /\ IndInv' /\ [Next]_vars => [Loses]_vars
    BY <1>1
<1> QED  BY <1>2, IndInvariant, PTL DEF Spec, LostOnlyWhenBlocked
=============================================================================
