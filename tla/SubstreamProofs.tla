-------------------------- MODULE SubstreamProofs --------------------------
(***************************************************************************)
(* What poll_read does with the bytes of a substream, for all lengths of   *)
(* data and of buffers, any number of bytes, and a reader in the           *)
(* Connection's task or in one of its own.                                 *)
(***************************************************************************)
EXTENDS Substream, SequenceTheorems, WellFoundedInduction, TLAPS

(***************************************************************************)
(* The inductive invariant.                                                *)
(***************************************************************************)

\* s is the bytes a+1, ..., b.
Span(s, a, b) ==
    /\ s \in Seq(Nat)
    /\ Len(s) = b - a
    /\ \A k \in 1 .. Len(s) : s[k] = a + k

\* The chunks are the bytes a+1, ..., b, cut at the borders at[1] = a, at[2], ..., b.
Bordered(chunks, at, a, b) ==
    /\ chunks \in Seq(Seq(Nat))
    /\ at \in [1 .. Len(chunks) + 1 -> a .. b]
    /\ at[1] = a /\ at[Len(chunks) + 1] = b
    /\ \A j, k \in 1 .. Len(chunks) + 1 : j <= k => at[j] <= at[k]
    /\ \A k \in 1 .. Len(chunks) : Span(chunks[k], at[k], at[k + 1])

\* Where the chunks begin, and where the last one ends.
Borders(chunks, b) ==
    [k \in 1 .. Len(chunks) + 1 |-> IF k <= Len(chunks) THEN chunks[k][1] - 1 ELSE b]

\* What was copied, what is unread and what is in the channel follow each other.
ByteInv ==
    LET c == Len(copied)
        u == c + Len(unread_data)
    IN  /\ u <= fed
        /\ Span(copied, 0, c)
        /\ Span(unread_data, c, u)
        /\ Bordered(inbound_rx, Borders(inbound_rx, fed), u, fed)

\* Only bytes that were copied are reported.
ReportedInv ==
    /\ ReportedInOrder
    /\ \A k \in 1 .. Len(reported) : reported[k] <= Len(copied)

\* The close signal comes last; the substream is closed by it or by poll_close, and a
\* read that fails, or goes on, knows which.
CloseInv ==
    /\ signal => connection = "closed"
    /\ closed => connection = "closed" \/ closed_here
    /\ closed_here => closed
    /\ reader = "failed" => closed
    /\ reader = "checked" => ~closed

\* Every step of the Connection and of poll_read keeps what was copied, unread_data and
\* the channel together the bytes written so far, reports only what was copied, in order,
\* and fails only after the close signal or a poll_close.
IndInv == TypeOK /\ ByteInv /\ ReportedInv /\ CloseInv
-----------------------------------------------------------------------------
(***************************************************************************)
(* Spans.                                                                  *)
(***************************************************************************)

\* A sequence of elements of S.
LEMMA SeqOfElements ==
    ASSUME NEW S, NEW s \in Seq(Nat), \A k \in 1 .. Len(s) : s[k] \in S
    PROVE  s \in Seq(S)
<1>1. Len(s) \in Nat /\ s = [k \in 1 .. Len(s) |-> s[k]]
    BY LenProperties
<1> QED  BY <1>1, IsASeq

\* A span with bytes of the stream is of the type of the model's buffers.
LEMMA SpanType ==
    ASSUME NEW a \in Nat, NEW b \in Nat, b <= MaxBytes, NEW s, Span(s, a, b)
    PROVE  s \in Bytes
<1>1. s \in Seq(Nat) /\ Len(s) = b - a /\ \A k \in 1 .. Len(s) : s[k] = a + k
    BY DEF Span
<1>2. Len(s) \in Nat
    BY <1>1, LenProperties
<1>3. \A k \in 1 .. Len(s) : s[k] \in 1 .. MaxBytes
    BY <1>1, <1>2, SubstreamAssumption
<1>4. s \in Seq(1 .. MaxBytes)
    BY <1>1, <1>3, SeqOfElements, Zenon
<1> QED  BY <1>4 DEF Bytes

\* Two spans that meet make one.
LEMMA SpanConcat ==
    ASSUME NEW a \in Nat, NEW b \in Nat, NEW c \in Nat, NEW s, NEW t,
           Span(s, a, b), Span(t, b, c)
    PROVE  Span(s \o t, a, c)
<1>1. /\ s \in Seq(Nat) /\ Len(s) = b - a /\ \A k \in 1 .. Len(s) : s[k] = a + k
      /\ t \in Seq(Nat) /\ Len(t) = c - b /\ \A k \in 1 .. Len(t) : t[k] = b + k
      /\ Len(s) \in Nat /\ Len(t) \in Nat
    BY LenProperties DEF Span
<1>2. /\ s \o t \in Seq(Nat)
      /\ Len(s \o t) = Len(s) + Len(t)
      /\ \A k \in 1 .. Len(s) + Len(t) :
            (s \o t)[k] = IF k <= Len(s) THEN s[k] ELSE t[k - Len(s)]
    BY <1>1, ConcatProperties
<1>3. ASSUME NEW k \in 1 .. Len(s) + Len(t)
      PROVE  (s \o t)[k] = a + k
    <2>1. CASE k <= Len(s)
        BY <2>1, <1>1, <1>2
    <2>2. CASE k > Len(s)
        <3>1. k - Len(s) \in 1 .. Len(t)
            BY <2>2, <1>1
        <3>2. (s \o t)[k] = t[k - Len(s)] /\ t[k - Len(s)] = b + (k - Len(s))
            BY <2>2, <3>1, <1>1, <1>2
        <3> QED  BY <3>2, <1>1
    <2> QED  BY <2>1, <2>2, <1>1
<1> QED  BY <1>1, <1>2, <1>3 DEF Span

\* A part of a span is one.
LEMMA SpanSubSeq ==
    ASSUME NEW a \in Nat, NEW b \in Nat, NEW s, Span(s, a, b),
           NEW m \in Nat, NEW n \in Nat, 1 <= m, m <= n + 1, n <= Len(s)
    PROVE  Span(SubSeq(s, m, n), a + m - 1, a + n)
<1>1. /\ s \in Seq(Nat) /\ Len(s) = b - a /\ \A k \in 1 .. Len(s) : s[k] = a + k
      /\ Len(s) \in Nat
    BY LenProperties DEF Span
<1>2. \A i \in m .. n : s[i] \in Nat
    BY <1>1
<1>3. /\ SubSeq(s, m, n) \in Seq(Nat)
      /\ Len(SubSeq(s, m, n)) = (n - m) + 1
      /\ \A i \in 1 .. (n - m) + 1 : SubSeq(s, m, n)[i] = s[m + i - 1]
    <2>1. Len(SubSeq(s, m, n)) = IF m <= n THEN (n - m) + 1 ELSE 0
        BY <1>1, <1>2, SubSeqProperties
    <2> QED  BY <2>1, <1>1, <1>2, SubSeqProperties
<1>4. \A i \in 1 .. (n - m) + 1 : m + i - 1 \in 1 .. Len(s)
    BY <1>1
<1>5. \A i \in 1 .. (n - m) + 1 : SubSeq(s, m, n)[i] = a + (m + i - 1)
    BY <1>1, <1>3, <1>4
<1> QED  BY <1>3, <1>5 DEF Span

\* Nothing is a span of length 0.
LEMMA EmptySpan == ASSUME NEW a \in Nat PROVE Span(<<>>, a, a)
BY DEF Span

\* A span is determined by its ends.
LEMMA SpanUnique ==
    ASSUME NEW a \in Nat, NEW b \in Nat, NEW s, NEW t, Span(s, a, b), Span(t, a, b)
    PROVE  s = t
<1>1. /\ s \in Seq(Nat) /\ t \in Seq(Nat) /\ Len(s) = Len(t)
      /\ \A k \in 1 .. Len(s) : s[k] = t[k]
    BY DEF Span
<1> QED  BY <1>1, SeqEqual

-----------------------------------------------------------------------------
(***************************************************************************)
(* The channel.                                                            *)
(***************************************************************************)

\* The Connection sends the next bytes.
LEMMA FeedChannel ==
    ASSUME NEW chunks, NEW a \in Nat, NEW b \in Nat, NEW n \in Nat \ {0}, a <= b,
           Bordered(chunks, Borders(chunks, b), a, b), NEW c, Span(c, b, b + n)
    PROVE  Bordered(Append(chunks, c), Borders(Append(chunks, c), b + n), a, b + n)
<1> DEFINE at == Borders(chunks, b)
           more == Append(chunks, c)
           to == Borders(more, b + n)
           l == Len(chunks)
<1>1. /\ chunks \in Seq(Seq(Nat)) /\ l \in Nat
      /\ at \in [1 .. l + 1 -> a .. b]
      /\ at[1] = a /\ at[l + 1] = b
      /\ \A j, k \in 1 .. l + 1 : j <= k => at[j] <= at[k]
      /\ \A k \in 1 .. l : Span(chunks[k], at[k], at[k + 1])
    BY LenProperties DEF Bordered
<1>2. c \in Seq(Nat) /\ Len(c) = n /\ c[1] = b + 1
    BY DEF Span
<1>3. /\ more \in Seq(Seq(Nat)) /\ Len(more) = l + 1
      /\ \A k \in 1 .. l : more[k] = chunks[k]
      /\ more[l + 1] = c
    BY <1>1, <1>2, AppendProperties
<1> HIDE DEF more
<1>4. at = [k \in 1 .. l + 1 |-> IF k <= l THEN chunks[k][1] - 1 ELSE b]
    BY DEF Borders
<1>5. to = [k \in 1 .. l + 2 |-> IF k <= l + 1 THEN more[k][1] - 1 ELSE b + n]
    BY <1>1, <1>3 DEF Borders
<1> HIDE DEF at, to, l
<1>6. \A k \in 1 .. l + 1 : to[k] = at[k]
    <2>1. \A k \in 1 .. l : to[k] = at[k]
        <3>1. \A k \in 1 .. l : to[k] = more[k][1] - 1
            BY <1>1, <1>5
        <3>2. \A k \in 1 .. l : at[k] = chunks[k][1] - 1
            BY <1>1, <1>4
        <3> QED  BY <3>1, <3>2, <1>3
    <2>2. to[l + 1] = b
        <3>1. to[l + 1] = more[l + 1][1] - 1
            BY <1>1, <1>5
        <3>2. more[l + 1][1] = b + 1
            BY <1>2, <1>3, Zenon
        <3> QED  BY <3>1, <3>2
    <2>3. \A k \in 1 .. l + 1 : k \in 1 .. l \/ k = l + 1
        BY <1>1
    <2>4. at[l + 1] = b
        BY <1>1, Zenon
    <2> QED  BY <2>1, <2>2, <2>3, <2>4, Zenon
<1>7. \A k \in 1 .. l + 2 : to[k] \in a .. b + n
    BY <1>1, <1>5, <1>6
<1>8. to \in [1 .. l + 2 -> a .. b + n]
    BY <1>5, <1>7
<1>9. to[1] = a /\ to[l + 2] = b + n
    BY <1>1, <1>5, <1>6
<1>10. \A j, k \in 1 .. l + 2 : j <= k => to[j] <= to[k]
    <2>1. \A k \in 1 .. l + 1 : at[k] \in Nat /\ at[k] <= b
        BY <1>1
    <2> QED  BY <2>1, <1>1, <1>5, <1>6, SMTT(30)
<1>11. \A k \in 1 .. l + 1 : Span(more[k], to[k], to[k + 1])
    <2>1. ASSUME NEW k \in 1 .. l PROVE Span(more[k], to[k], to[k + 1])
        <3>1. k \in 1 .. l + 1 /\ k + 1 \in 1 .. l + 1
            BY <1>1
        <3>2. to[k] = at[k] /\ to[k + 1] = at[k + 1] /\ more[k] = chunks[k]
            BY <3>1, <1>3, <1>6, Zenon
        <3> QED  BY <3>2, <1>1
    <2>2. Span(more[l + 1], to[l + 1], to[l + 2])
        BY <1>1, <1>3, <1>5, <1>6
    <2>3. \A k \in 1 .. l + 1 : k \in 1 .. l \/ k = l + 1
        BY <1>1
    <2>4. (l + 1) + 1 = l + 2
        BY <1>1
    <2>5. Span(more[l + 1], to[l + 1], to[(l + 1) + 1])
        BY <2>2, <2>4, Zenon
    <2> QED  BY <2>1, <2>3, <2>5, Zenon
<1>12. Len(more) + 1 = l + 2
    BY <1>1, <1>3
<1>13. Bordered(more, to, a, b + n)
    BY <1>3, <1>8, <1>9, <1>10, <1>11, <1>12, Zenon DEF Bordered
<1> QED  BY <1>13 DEF more, to

\* poll_recv takes the first chunk.
LEMMA TakeChunk ==
    ASSUME NEW chunks, chunks # <<>>, NEW a \in Nat, NEW b \in Nat, a <= b,
           Bordered(chunks, Borders(chunks, b), a, b)
    PROVE  \E d \in a .. b :
               /\ Span(Head(chunks), a, d)
               /\ Bordered(Tail(chunks), Borders(Tail(chunks), b), d, b)
<1> DEFINE at == Borders(chunks, b)
           rest == Tail(chunks)
           to == Borders(rest, b)
           l == Len(chunks)
<1>1. /\ chunks \in Seq(Seq(Nat)) /\ l \in Nat
      /\ at \in [1 .. l + 1 -> a .. b]
      /\ at[1] = a /\ at[l + 1] = b
      /\ \A j, k \in 1 .. l + 1 : j <= k => at[j] <= at[k]
      /\ \A k \in 1 .. l : Span(chunks[k], at[k], at[k + 1])
    BY LenProperties DEF Bordered
<1>2. l > 0
    BY <1>1, EmptySeq
<1>3. /\ Head(chunks) = chunks[1]
      /\ rest \in Seq(Seq(Nat)) /\ Len(rest) = l - 1
      /\ \A k \in 1 .. l - 1 : rest[k] = chunks[k + 1]
    BY <1>1, HeadTailProperties
<1>4. at = [k \in 1 .. l + 1 |-> IF k <= l THEN chunks[k][1] - 1 ELSE b]
    BY DEF Borders
<1> HIDE DEF rest
<1>5. to = [k \in 1 .. l |-> IF k <= l - 1 THEN rest[k][1] - 1 ELSE b]
    BY <1>1, <1>3 DEF Borders
<1> HIDE DEF at, to, l
<1>6. \A k \in 1 .. l : to[k] = at[k + 1]
    <2>1. \A k \in 1 .. l - 1 : to[k] = at[k + 1]
        <3>1. \A k \in 1 .. l - 1 : to[k] = rest[k][1] - 1
            BY <1>1, <1>5, SMTT(30)
        <3>2. \A k \in 1 .. l - 1 : at[k + 1] = chunks[k + 1][1] - 1
            BY <1>1, <1>4
        <3> QED  BY <3>1, <3>2, <1>3
    <2>2. to[l] = b
        BY <1>1, <1>2, <1>5
    <2>3. \A k \in 1 .. l : k \in 1 .. l - 1 \/ k = l
        BY <1>1
    <2>4. at[l + 1] = b
        BY <1>1, Zenon
    <2> QED  BY <2>1, <2>2, <2>3, <2>4, Zenon
<1>7. at[2] \in a .. b /\ Span(Head(chunks), a, at[2])
    BY <1>1, <1>2, <1>3
<1>8. \A k \in 1 .. l : to[k] \in at[2] .. b
    <2>1. \A k \in 2 .. l + 1 : at[2] <= at[k] /\ at[k] \in a .. b
        BY <1>1, <1>2
    <2> QED  BY <2>1, <1>1, <1>6, <1>7
<1>9. to \in [1 .. l -> at[2] .. b]
    BY <1>5, <1>8
<1>10. to[1] = at[2] /\ to[l] = b
    BY <1>1, <1>2, <1>6
<1>11. \A j, k \in 1 .. l : j <= k => to[j] <= to[k]
    BY <1>1, <1>6
<1>12. \A k \in 1 .. l - 1 : Span(rest[k], to[k], to[k + 1])
    <2>1. ASSUME NEW k \in 1 .. l - 1 PROVE Span(rest[k], to[k], to[k + 1])
        <3>1. k + 1 \in 1 .. l /\ k \in 1 .. l
            BY <1>1
        <3>2. to[k] = at[k + 1] /\ to[k + 1] = at[k + 1 + 1] /\ rest[k] = chunks[k + 1]
            BY <3>1, <1>3, <1>6
        <3> QED  BY <3>1, <3>2, <1>1
    <2> QED  BY <2>1
<1>13. Len(rest) + 1 = l
    BY <1>1, <1>3
<1>14. Bordered(rest, to, at[2], b)
    BY <1>3, <1>9, <1>10, <1>11, <1>12, <1>13, Zenon DEF Bordered
<1> QED  BY <1>7, <1>14 DEF rest, to


\* The least element of a set of numbers.
LEMMA LeastElement ==
    ASSUME NEW T \in SUBSET Nat, T # {}
    PROVE  \E m \in T : \A n \in T : m <= n
<1>1. PICK m \in T : \A n \in T : ~(<<n, m>> \in OpToRel(<, Nat))
    BY NatLessThanWellFounded, WFMin
<1>2. \A n \in T : ~(n < m)
    BY <1>1 DEF OpToRel
<1> QED  BY <1>2

\* The chunks of the channel, joined, are the bytes that were not taken from it.
LEMMA FlattenSpan ==
    ASSUME NEW chunks, NEW at, NEW a \in Nat, NEW b \in Nat, a <= b, Bordered(chunks, at, a, b)
    PROVE  Span(FlattenSeq(chunks), a, b)
<1> DEFINE l == Len(chunks)
           Joins(f) == f = [i \in 1 .. l |-> IF i = 1 THEN chunks[i] ELSE f[i - 1] \o chunks[i]]
           g == [i \in 1 .. l |-> [j \in 1 .. at[i + 1] - a |-> a + j]]
<1>1. /\ chunks \in Seq(Seq(Nat)) /\ l \in Nat
      /\ at \in [1 .. l + 1 -> a .. b]
      /\ at[1] = a /\ at[l + 1] = b
      /\ \A k \in 1 .. l : Span(chunks[k], at[k], at[k + 1])
    BY LenProperties DEF Bordered
<1>2. CASE l = 0
    <2>1. FlattenSeq(chunks) = chunks /\ chunks = <<>> /\ a = b
        BY <1>1, <1>2, EmptySeq DEF FlattenSeq
    <2> QED  BY <2>1, EmptySpan
<1>3. CASE l # 0
    <2>1. FlattenSeq(chunks) = (CHOOSE f : Joins(f))[l]
        BY <1>3 DEF FlattenSeq
    <2> HIDE DEF l
    <2>2. \A k \in 1 .. l + 1 : at[k] \in Nat /\ at[k] >= a
        BY <1>1
    <2>3. \A i \in 1 .. l : Span(g[i], a, at[i + 1])
        <3>1. ASSUME NEW i \in 1 .. l PROVE Span(g[i], a, at[i + 1])
            <4>1. at[i + 1] \in Nat /\ at[i + 1] >= a
                BY <1>1, <2>2
            <4>2. at[i + 1] - a \in Nat
                BY <4>1
            <4> DEFINE n == at[i + 1] - a
            <4> HIDE DEF n
            <4>3. [j \in 1 .. n |-> a + j] \in Seq(Nat)
                BY <4>2 DEF n
            <4>4. /\ Len([j \in 1 .. n |-> a + j]) = n
                  /\ \A k \in 1 .. n : [j \in 1 .. n |-> a + j][k] = a + k
                BY <4>2 DEF n
            <4>5. g[i] = [j \in 1 .. n |-> a + j]
                BY DEF n
            <4> QED  BY <4>3, <4>4, <4>5 DEF Span, n
        <3> QED  BY <3>1
    <2> HIDE DEF g
    <2>4. \A i \in 1 .. l : g[i] = IF i = 1 THEN chunks[i] ELSE g[i - 1] \o chunks[i]
        <3>1. ASSUME NEW i \in 1 .. l, i # 1
              PROVE  g[i] = g[i - 1] \o chunks[i]
            <4>1. /\ i - 1 \in 1 .. l /\ (i - 1) + 1 = i /\ i \in 1 .. l + 1 /\ i + 1 \in 1 .. l + 1
                BY <3>1, <1>1
            <4>2. Span(g[i - 1], a, at[i]) /\ Span(chunks[i], at[i], at[i + 1])
                BY <4>1, <2>3, <1>1
            <4>3. Span(g[i - 1] \o chunks[i], a, at[i + 1])
                BY <4>1, <4>2, <2>2, SpanConcat
            <4> QED  BY <4>1, <4>3, <2>2, <2>3, SpanUnique
        <3>2. ASSUME NEW i \in 1 .. l, i = 1
              PROVE  g[i] = chunks[i]
            <4>1. i + 1 \in 1 .. l + 1
                BY <1>1
            <4>2. Span(chunks[i], a, at[i + 1])
                BY <3>2, <1>1
            <4> QED  BY <4>1, <4>2, <2>2, <2>3, SpanUnique
        <3> QED  BY <3>1, <3>2
    <2>5. Joins(g)
        <3>1. g = [i \in 1 .. l |-> g[i]]
            BY DEF g
        <3> QED  BY <3>1, <2>4
    <2>6. PICK f : f = (CHOOSE h : Joins(h)) /\ Joins(f)
        BY <2>5
    <2>7. \A i \in 1 .. l : f[i] = IF i = 1 THEN chunks[i] ELSE f[i - 1] \o chunks[i]
        BY <2>6
    <2> DEFINE T == {i \in 1 .. l : ~Span(f[i], a, at[i + 1])}
    <2>8. T = {}
        <3> SUFFICES ASSUME T # {} PROVE FALSE
            OBVIOUS
        <3>1. T \in SUBSET Nat
            BY <1>1
        <3>2. PICK m \in T : \A n \in T : m <= n
            BY <3>1, LeastElement
        <3>3. m \in 1 .. l /\ ~Span(f[m], a, at[m + 1])
            BY <3>2
        <3>4. CASE m = 1
            BY <3>3, <3>4, <2>7, <1>1
        <3>5. CASE m # 1
            <4>1. /\ m - 1 \in 1 .. l /\ (m - 1) + 1 = m /\ m \in 1 .. l + 1 /\ m + 1 \in 1 .. l + 1
                  /\ ~(m <= m - 1)
                BY <3>3, <3>5, <1>1
            <4>2. m - 1 \notin T
                BY <3>2, <4>1
            <4>3. Span(f[m - 1], a, at[m]) /\ Span(chunks[m], at[m], at[m + 1])
                BY <4>1, <4>2, <3>3, <1>1
            <4>4. Span(f[m - 1] \o chunks[m], a, at[m + 1])
                BY <4>1, <4>3, <2>2, SpanConcat
            <4> QED  BY <4>4, <3>3, <3>5, <2>7
        <3> QED  BY <3>4, <3>5
    <2>9. l \in 1 .. l
        BY <1>1, <1>3
    <2>10. Span(f[l], a, at[l + 1])
        BY <2>8, <2>9
    <2> QED  BY <2>1, <2>6, <2>10, <1>1 DEF l
<1> QED  BY <1>2, <1>3

-----------------------------------------------------------------------------
(***************************************************************************)
(* poll_read.                                                              *)
(***************************************************************************)

\* The buffer and unread_data after a read are the old unread data and the new data, cut
\* at another place; the count that is returned covers no more than the buffer.
LEMMA CopySpans ==
    ASSUME NEW c \in Nat, NEW e \in Nat, NEW d \in Nat, c <= e, e <= d,
           NEW unread, Span(unread, c, e), NEW data, Span(data, e, d), NEW len \in Nat \ {0}
    PROVE  \E m \in c .. d :
               /\ Span(Buffer(unread, data, len), c, m)
               /\ Span(UnreadAfter(unread, data, len), m, d)
               /\ ReturnedLen(unread, data, len) \in 0 .. m - c
<1> DEFINE f == FilledLen(unread, len)
           p == CopiedLen(unread, data, len)
<1>1. Len(unread) = e - c /\ Len(data) = d - e
    BY DEF Span
<1>2. ReturnedLen(unread, data, len) = p \/ ReturnedLen(unread, data, len) = f
    BY DEF ReturnedLen
<1>3. f = Least(Len(unread), len) /\ p = Least(len - f, Len(data))
    BY DEF FilledLen, CopiedLen
<1>4. /\ Buffer(unread, data, len) = SubSeq(unread, 1, f) \o SubSeq(data, 1, p)
      /\ UnreadAfter(unread, data, len) =
            SubSeq(unread, f + 1, Len(unread)) \o SubSeq(data, p + 1, Len(data))
    BY DEF Buffer, UnreadAfter
<1> HIDE DEF f, p
<1>5. f \in Nat /\ f <= Len(unread) /\ p \in Nat /\ p <= Len(data)
    BY <1>1, <1>3 DEF Least
<1>6. /\ Span(SubSeq(unread, 1, f), c, c + f)
      /\ Span(SubSeq(data, 1, p), e, e + p)
      /\ Span(SubSeq(unread, f + 1, Len(unread)), c + f, e)
      /\ Span(SubSeq(data, p + 1, Len(data)), e + p, d)
    <2>0. /\ f + 1 \in Nat /\ 1 <= f + 1 /\ f + 1 <= Len(unread) + 1 /\ Len(unread) \in Nat
          /\ p + 1 \in Nat /\ 1 <= p + 1 /\ p + 1 <= Len(data) + 1 /\ Len(data) \in Nat
          /\ Len(unread) <= Len(unread) /\ Len(data) <= Len(data)
        BY <1>1, <1>5
    <2>1. Span(SubSeq(unread, 1, f), c + 1 - 1, c + f)
        BY <1>1, <1>5, SpanSubSeq
    <2>2. Span(SubSeq(data, 1, p), e + 1 - 1, e + p)
        BY <1>1, <1>5, SpanSubSeq
    <2>3. Span(SubSeq(unread, f + 1, Len(unread)), c + (f + 1) - 1, c + Len(unread))
        BY <2>0, SpanSubSeq, Zenon
    <2>4. Span(SubSeq(data, p + 1, Len(data)), e + (p + 1) - 1, e + Len(data))
        BY <2>0, SpanSubSeq, Zenon
    <2>5. /\ c + 1 - 1 = c /\ e + 1 - 1 = e
          /\ c + (f + 1) - 1 = c + f /\ c + Len(unread) = e
          /\ e + (p + 1) - 1 = e + p /\ e + Len(data) = d
        BY <1>1, <1>5
    <2> QED  BY <2>1, <2>2, <2>3, <2>4, <2>5, Zenon
<1>7. CASE f = Len(unread)
    <2>1. c + f = e /\ e + p \in c .. d /\ p \in 0 .. (e + p) - c /\ f \in 0 .. (e + p) - c
        BY <1>7, <1>1, <1>5
    <2>2. Span(SubSeq(unread, f + 1, Len(unread)), e + p, e + p)
        <3>1. Span(SubSeq(unread, f + 1, Len(unread)), e, e)
            BY <1>6, <2>1
        <3> QED  BY <3>1, <1>5 DEF Span
    <2>3. Span(Buffer(unread, data, len), c, e + p)
        <3>1. Span(SubSeq(unread, 1, f), c, e) /\ e + p \in Nat
            BY <1>5, <1>6, <2>1
        <3> QED  BY <3>1, <1>4, <1>6, SpanConcat, Zenon
    <2>4. Span(UnreadAfter(unread, data, len), e + p, d)
        BY <1>4, <1>5, <1>6, <2>2, SpanConcat
    <2> QED  BY <2>1, <2>3, <2>4, <1>2
<1>8. CASE f # Len(unread)
    <2>1. f = len /\ p = 0
        BY <1>8, <1>1, <1>3 DEF Least
    <2>2. c + f \in c .. d /\ p \in 0 .. (c + f) - c /\ f \in 0 .. (c + f) - c /\ e + p = e
        BY <2>1, <1>1, <1>5
    <2>3. Span(SubSeq(data, 1, p), c + f, c + f)
        <3>1. Span(SubSeq(data, 1, p), e, e)
            BY <1>6, <2>2
        <3> QED  BY <3>1, <1>5 DEF Span
    <2>4. Span(Buffer(unread, data, len), c, c + f)
        BY <1>4, <1>5, <1>6, <2>3, SpanConcat
    <2>5. Span(UnreadAfter(unread, data, len), c + f, d)
        BY <1>4, <1>5, <1>6, <2>2, SpanConcat
    <2> QED  BY <2>2, <2>4, <2>5, <1>2
<1> QED  BY <1>7, <1>8

\* Increasing numbers up to c.
Ascending(s, c) ==
    /\ s \in Seq(Nat)
    /\ \A k \in 1 .. Len(s) : s[k] <= c
    /\ \A k \in 1 .. Len(s) - 1 : s[k] < s[k + 1]

\* What is reported next comes after what was reported.
LEMMA ReportSpan ==
    ASSUME NEW s, NEW c \in Nat, NEW m \in Nat, c <= m, Ascending(s, c),
           NEW t, NEW n \in Nat, Span(t, c, c + n), c + n <= m
    PROVE  Ascending(s \o t, m)
<1>1. /\ s \in Seq(Nat) /\ Len(s) \in Nat
      /\ \A k \in 1 .. Len(s) : s[k] \in Nat /\ s[k] <= c
      /\ \A k \in 1 .. Len(s) - 1 : s[k] < s[k + 1]
    BY LenProperties, ElementOfSeq DEF Ascending
<1>2. t \in Seq(Nat) /\ Len(t) = n /\ \A k \in 1 .. n : t[k] = c + k
    BY DEF Span
<1>3. /\ s \o t \in Seq(Nat)
      /\ Len(s \o t) = Len(s) + n
      /\ \A k \in 1 .. Len(s) + n : (s \o t)[k] = IF k <= Len(s) THEN s[k] ELSE t[k - Len(s)]
    BY <1>1, <1>2, ConcatProperties
<1> DEFINE r == s \o t
           l == Len(s)
<1>4. \A k \in 1 .. l : r[k] = s[k] /\ r[k] <= c /\ r[k] \in Nat
    BY <1>1, <1>3
<1>5. \A k \in l + 1 .. l + n : r[k] = c + (k - l)
    <2>1. ASSUME NEW k \in l + 1 .. l + n PROVE r[k] = c + (k - l)
        <3>1. k - l \in 1 .. n /\ ~(k <= l) /\ k \in 1 .. l + n
            BY <1>1
        <3> QED  BY <3>1, <1>2, <1>3
    <2> QED  BY <2>1
<1> HIDE DEF r, l
<1>6. \A k \in 1 .. l + n : r[k] <= m
    <2>1. \A k \in 1 .. l + n : k \in 1 .. l \/ k \in l + 1 .. l + n
        BY <1>1 DEF l
    <2> QED  BY <2>1, <1>4, <1>5, <1>1 DEF l
<1>7. ASSUME NEW k \in 1 .. (l + n) - 1 PROVE r[k] < r[k + 1]
    <2>1. CASE k + 1 <= l
        <3>1. k \in 1 .. l - 1 /\ k \in 1 .. l /\ k + 1 \in 1 .. l
            BY <2>1, <1>1 DEF l
        <3>2. r[k] = s[k] /\ r[k + 1] = s[k + 1] /\ s[k] < s[k + 1]
            BY <3>1, <1>1, <1>4 DEF l
        <3> QED  BY <3>2
    <2>2. CASE k = l
        <3>1. k \in 1 .. l /\ k + 1 \in l + 1 .. l + n /\ (k + 1) - l = 1
            BY <2>2, <1>1 DEF l
        <3>2. r[k] <= c /\ r[k] \in Nat /\ r[k + 1] = c + 1
            BY <3>1, <1>4, <1>5
        <3> QED  BY <3>2
    <2>3. CASE k > l
        <3>1. k \in l + 1 .. l + n /\ k + 1 \in l + 1 .. l + n
            BY <2>3, <1>1 DEF l
        <3>2. r[k] = c + (k - l) /\ r[k + 1] = c + ((k + 1) - l)
            BY <3>1, <1>5
        <3> QED  BY <3>2, <1>1 DEF l
    <2> QED  BY <2>1, <2>2, <2>3, <1>1 DEF l
<1> QED  BY <1>3, <1>6, <1>7 DEF r, l, Ascending

-----------------------------------------------------------------------------
(***************************************************************************)
(* The steps.                                                              *)
(***************************************************************************)

\* ReportedInv in terms of Ascending.
LEMMA ReportedIsAscending ==
    ASSUME NEW s \in Bytes, NEW c
    PROVE  Ascending(s, c) <=>
               /\ \A k \in 1 .. Len(s) - 1 : s[k] < s[k + 1]
               /\ \A k \in 1 .. Len(s) : s[k] <= c
<1>1. s \in Seq(Nat)
    <2>1. 1 .. MaxBytes \subseteq Nat
        BY SubstreamAssumption
    <2> QED  BY <2>1, SeqMonotonic, Zenon DEF Bytes
<1> QED  BY <1>1 DEF Ascending

\* Substream::new establishes the invariant.
LEMMA InitInv == Init => IndInv
<1> SUFFICES ASSUME Init PROVE IndInv
    OBVIOUS
<1> USE DEF Init
<1>1. <<>> \in Bytes /\ <<>> \in Seq(Bytes) /\ Len(<<>>) = 0
    BY EmptySeq DEF Bytes
<1>2. TypeOK
    <2>1. 0 \in 0 .. MaxBytes
        BY SubstreamAssumption
    <2> QED  BY <2>1, <1>1, Zenon DEF TypeOK
<1>3. ByteInv
    <2>1. Bordered(<<>>, Borders(<<>>, 0), 0, 0)
        <3>1. Borders(<<>>, 0) = [k \in 1 .. 1 |-> 0]
            BY DEF Borders
        <3> QED  BY <3>1 DEF Bordered
    <2> QED  BY <2>1, <1>1, EmptySpan DEF ByteInv
<1>4. ReportedInv
    BY <1>1 DEF ReportedInv, ReportedInOrder
<1>5. CloseInv
    BY DEF CloseInv
<1> QED  BY <1>2, <1>3, <1>4, <1>5 DEF IndInv

\* The Connection passes on the next bytes.
LEMMA FeedStep ==
    ASSUME IndInv, NEW n \in DataLen, Feed(n)
    PROVE  IndInv'
<1> DEFINE u == Len(copied) + Len(unread_data)
<1>1. /\ TypeOK /\ ByteInv /\ ReportedInv /\ CloseInv
      /\ n \in Nat \ {0} /\ fed \in Nat
    BY SubstreamAssumption DEF IndInv, TypeOK
<1>2. /\ fed' = fed + n /\ fed + n <= MaxBytes
      /\ inbound_rx' = Append(inbound_rx, NextBytes(n))
      /\ waker' = FALSE /\ woken' = (woken \/ waker)
      /\ UNCHANGED <<connection, signal, closed, unread_data, reader, closed_here, copied,
                     reported>>
    BY DEF Feed, WakeReader, readVars
<1>3. Span(NextBytes(n), fed, fed + n)
    BY <1>1 DEF Span, NextBytes
<1>4. /\ u \in Nat /\ u <= fed
      /\ Span(copied, 0, Len(copied)) /\ Span(unread_data, Len(copied), u)
      /\ Bordered(inbound_rx, Borders(inbound_rx, fed), u, fed)
    BY <1>1, LenProperties DEF ByteInv, TypeOK, Bytes
<1>5. Bordered(inbound_rx', Borders(inbound_rx', fed'), u, fed')
    BY <1>1, <1>2, <1>3, <1>4, FeedChannel
<1>6. ByteInv'
    BY <1>1, <1>2, <1>4, <1>5 DEF ByteInv
<1>7. TypeOK'
    <2>1. NextBytes(n) \in Bytes
        BY <1>1, <1>2, <1>3, SpanType
    <2>2. inbound_rx' \in Seq(Bytes)
        BY <2>1, <1>1, <1>2, AppendProperties DEF TypeOK
    <2>3. fed' \in 0 .. MaxBytes
        BY <1>1, <1>2, SubstreamAssumption
    <2> QED  BY <2>2, <2>3, <1>1, <1>2 DEF TypeOK
<1>8. ReportedInv' /\ CloseInv'
    BY <1>1, <1>2 DEF ReportedInv, ReportedInOrder, CloseInv
<1> QED  BY <1>6, <1>7, <1>8 DEF IndInv

\* The other steps of the Connection.
LEMMA CloseStep ==
    ASSUME IndInv, RemoveSender \/ SendClose \/ DropConnection
    PROVE  IndInv'
<1>1. /\ TypeOK /\ ByteInv /\ ReportedInv /\ CloseInv
      /\ UNCHANGED <<fed, inbound_rx, closed, unread_data, reader, closed_here, copied, reported>>
    BY DEF IndInv, RemoveSender, SendClose, DropConnection, subVars, readVars
<1>2. ByteInv' /\ ReportedInv'
    BY <1>1 DEF ByteInv, ReportedInv, ReportedInOrder
<1>3. TypeOK'
    BY <1>1 DEF TypeOK, RemoveSender, SendClose, DropConnection, subVars, readVars, WakeReader
<1>4. CloseInv'
    BY <1>1 DEF CloseInv, TypeOK, RemoveSender, SendClose, DropConnection, subVars
<1> QED  BY <1>1, <1>2, <1>3, <1>4 DEF IndInv

\* check_closed, from the three operations that call it, poll_close and the executor.
LEMMA CheckStep ==
    ASSUME IndInv, StartRead \/ PollWrite \/ PollClose \/ WakeUp
    PROVE  IndInv'
<1>1. /\ TypeOK /\ ByteInv /\ ReportedInv /\ CloseInv
      /\ UNCHANGED <<fed, connection, inbound_rx, unread_data, waker, copied, reported>>
    BY DEF IndInv, StartRead, PollWrite, PollClose, WakeUp, subVars, readVars
<1>2. ByteInv' /\ ReportedInv'
    BY <1>1 DEF ByteInv, ReportedInv, ReportedInOrder
<1>3. CASE StartRead
    <2>1. /\ signal' = FALSE /\ closed' = (closed \/ signal)
          /\ reader' = IF closed' THEN "failed" ELSE "checked"
          /\ UNCHANGED <<woken, closed_here>>
        BY <1>3 DEF StartRead, CheckClosed, ReceivedClosed
    <2>2. TypeOK'
        BY <1>1, <2>1 DEF TypeOK
    <2>3. CloseInv'
        BY <1>1, <2>1 DEF CloseInv
    <2> QED  BY <1>2, <2>2, <2>3 DEF IndInv
<1>4. CASE PollWrite
    <2>1. /\ signal' = FALSE /\ closed' = (closed \/ signal)
          /\ reader # "checked"
          /\ UNCHANGED <<reader, woken, closed_here>>
        BY <1>4 DEF PollWrite, Exclusive, CheckClosed, ReceivedClosed
    <2>2. TypeOK'
        BY <1>1, <2>1 DEF TypeOK
    <2>3. CloseInv'
        BY <1>1, <2>1 DEF CloseInv
    <2> QED  BY <1>2, <2>2, <2>3 DEF IndInv
<1>5. CASE PollClose
    <2>1. /\ closed' = TRUE /\ closed_here' = TRUE
          /\ reader # "checked"
          /\ UNCHANGED <<signal, reader, woken>>
        BY <1>5 DEF PollClose, Exclusive
    <2>2. TypeOK'
        BY <1>1, <2>1 DEF TypeOK
    <2>3. CloseInv'
        BY <1>1, <2>1 DEF CloseInv
    <2> QED  BY <1>2, <2>2, <2>3 DEF IndInv
<1>6. CASE WakeUp
    BY <1>1, <1>2, <1>6 DEF IndInv, TypeOK, CloseInv, WakeUp, subVars
<1> QED  BY <1>3, <1>4, <1>5, <1>6

\* poll_read after check_closed.
LEMMA CopyStep ==
    ASSUME IndInv, NEW len \in BufLen, Copy(len)
    PROVE  IndInv'
<1> DEFINE data == IF inbound_rx = <<>> THEN <<>> ELSE Head(inbound_rx)
           n == ReturnedLen(unread_data, data, len)
           buffer == Buffer(unread_data, data, len)
           c == Len(copied)
           u == c + Len(unread_data)
<1>1. /\ TypeOK /\ ByteInv /\ ReportedInv /\ CloseInv
      /\ len \in Nat \ {0} /\ fed \in Nat
    BY SubstreamAssumption DEF IndInv, TypeOK
<1>2. /\ reader = "checked"
      /\ inbound_rx' = IF inbound_rx = <<>> THEN <<>> ELSE Tail(inbound_rx)
      /\ waker' = (waker \/ (inbound_rx = <<>> /\ connection = "open"))
      /\ unread_data' = UnreadAfter(unread_data, data, len)
      /\ copied' = copied \o buffer
      /\ reported' = reported \o SubSeq(buffer, 1, n)
      /\ reader' = IF n = 0 THEN "asleep" ELSE "ready"
      /\ UNCHANGED <<fed, connection, signal, closed, woken, closed_here>>
    BY DEF Copy, PollRecv
<1>3. /\ c \in Nat /\ u \in Nat /\ c <= u /\ u <= fed /\ fed <= MaxBytes
      /\ Span(copied, 0, c) /\ Span(unread_data, c, u)
      /\ Bordered(inbound_rx, Borders(inbound_rx, fed), u, fed)
      /\ Ascending(reported, c)
    <2>1. Len(copied) \in Nat /\ Len(unread_data) \in Nat /\ reported \in Bytes
        BY <1>1, LenProperties DEF TypeOK, Bytes
    <2>2. Ascending(reported, c)
        BY <2>1, <1>1, ReportedIsAscending DEF ReportedInv, ReportedInOrder
    <2> QED  BY <2>1, <2>2, <1>1 DEF ByteInv, TypeOK
<1>4. PICK d \in u .. fed :
          /\ Span(data, u, d)
          /\ Bordered(inbound_rx', Borders(inbound_rx', fed), d, fed)
    <2>1. CASE inbound_rx = <<>>
        <3>1. u = fed
            BY <2>1, <1>3 DEF Bordered
        <3>2. data = <<>> /\ inbound_rx' = inbound_rx
            BY <2>1, <1>2
        <3> QED  BY <3>1, <3>2, <1>3, EmptySpan
    <2>2. CASE inbound_rx # <<>>
        <3>1. data = Head(inbound_rx) /\ inbound_rx' = Tail(inbound_rx)
            BY <2>2, <1>2
        <3> QED  BY <3>1, <2>2, <1>1, <1>3, TakeChunk
    <2> QED  BY <2>1, <2>2
<1> HIDE DEF data, c, u
<1>5. d \in Nat /\ u <= d /\ d <= fed
    BY <1>1, <1>3
<1>6. PICK m \in c .. d :
          /\ Span(buffer, c, m)
          /\ Span(UnreadAfter(unread_data, data, len), m, d)
          /\ n \in 0 .. m - c
    BY <1>1, <1>3, <1>4, <1>5, CopySpans
<1> HIDE DEF n, buffer
<1>7. m \in Nat /\ c <= m /\ m <= d /\ m <= MaxBytes /\ d <= MaxBytes
    BY <1>1, <1>3, <1>5, SubstreamAssumption DEF TypeOK
<1>8. Span(copied', 0, m) /\ Span(unread_data', m, d)
    BY <1>2, <1>3, <1>6, <1>7, SpanConcat
<1>9. Len(copied') = m /\ Len(unread_data') = d - m
    BY <1>8, <1>5, <1>7 DEF Span
<1>10. ByteInv'
    <2>1. Len(copied') + Len(unread_data') = d
        BY <1>5, <1>7, <1>9
    <2>2. fed' = fed
        BY <1>2
    <2> QED  BY <2>1, <2>2, <1>4, <1>5, <1>8, <1>9 DEF ByteInv
<1>11. Ascending(reported', m)
    <2>1. n \in Nat /\ c + n <= m /\ 1 <= n + 1 /\ n <= Len(buffer)
        BY <1>3, <1>6, <1>7 DEF Span
    <2>2. Span(SubSeq(buffer, 1, n), c + 1 - 1, c + n)
        BY <2>1, <1>3, <1>6, <1>7, SpanSubSeq
    <2>3. Span(SubSeq(buffer, 1, n), c, c + n)
        BY <2>2, <1>3
    <2>4. Ascending(reported \o SubSeq(buffer, 1, n), m)
        BY <2>1, <2>3, <1>3, <1>7, ReportSpan
    <2> QED  BY <2>4, <1>2
<1>12. /\ copied' \in Bytes /\ unread_data' \in Bytes
    BY <1>5, <1>7, <1>8, SpanType
<1>13. reported' \in Bytes
    <2>1. SubSeq(buffer, 1, n) \in Bytes
        <3>1. n \in Nat /\ c + n <= m /\ 1 <= n + 1 /\ n <= Len(buffer)
            BY <1>3, <1>6, <1>7 DEF Span
        <3>2. Span(SubSeq(buffer, 1, n), c + 1 - 1, c + n)
            BY <3>1, <1>3, <1>6, <1>7, SpanSubSeq
        <3>3. Span(SubSeq(buffer, 1, n), c, c + n) /\ c + n \in Nat /\ c + n <= MaxBytes
            BY <3>1, <3>2, <1>3, <1>7, SubstreamAssumption
        <3> QED  BY <3>3, <1>3, SpanType
    <2>2. reported \in Bytes
        BY <1>1 DEF TypeOK
    <2> QED  BY <2>1, <2>2, <1>2, ConcatProperties, Zenon DEF Bytes
<1>14. TypeOK'
    <2>1. inbound_rx' \in Seq(Bytes)
        <3>1. inbound_rx \in Seq(Bytes)
            BY <1>1 DEF TypeOK
        <3> QED  BY <3>1, <1>2, HeadTailProperties
    <2>2. waker' \in BOOLEAN
        BY <1>1, <1>2 DEF TypeOK
    <2> QED  BY <2>1, <2>2, <1>1, <1>2, <1>12, <1>13 DEF TypeOK
<1>15. ReportedInv'
    BY <1>9, <1>11, <1>13, ReportedIsAscending DEF ReportedInv, ReportedInOrder
<1>16. CloseInv'
    BY <1>1, <1>2 DEF CloseInv
<1> QED  BY <1>10, <1>14, <1>15, <1>16 DEF IndInv


\* Every step keeps the invariant.
LEMMA NextInv == IndInv /\ [Next]_vars => IndInv'
<1> SUFFICES ASSUME IndInv, [Next]_vars PROVE IndInv'
    OBVIOUS
<1>1. CASE \E n \in DataLen : Feed(n)
    BY <1>1, FeedStep
<1>2. CASE RemoveSender \/ SendClose \/ DropConnection
    BY <1>2, CloseStep
<1>3. CASE StartRead \/ PollWrite \/ PollClose \/ WakeUp
    BY <1>3, CheckStep
<1>4. CASE \E len \in BufLen : Copy(len)
    BY <1>4, CopyStep
<1>5. CASE UNCHANGED vars
    BY <1>5 DEF IndInv, TypeOK, ByteInv, ReportedInv, ReportedInOrder, CloseInv,
                vars, subVars, readVars
<1> QED  BY <1>1, <1>2, <1>3, <1>4, <1>5 DEF Next, Read

\* The inductive invariant holds for every instance: all lengths of data and of buffers.
THEOREM IndInvariant == Spec => []IndInv
BY InitInv, NextInv, PTL DEF Spec

\* Every variable keeps its type.
THEOREM TypeCorrect == Spec => []TypeOK
<1>1. IndInv => TypeOK
    BY DEF IndInv
<1> QED  BY <1>1, IndInvariant, PTL

\* What was copied to the reader's buffers, then unread_data, then the channel are the
\* bytes that were written: poll_read loses none, repeats none and reorders none.
THEOREM NoByteIsLostTheorem == Spec => []NoByteIsLost
<1>1. IndInv => NoByteIsLost
    <2> SUFFICES ASSUME IndInv PROVE NoByteIsLost
        OBVIOUS
    <2> DEFINE c == Len(copied)
               u == c + Len(unread_data)
    <2>1. /\ c \in Nat /\ u \in Nat /\ fed \in Nat /\ u <= fed
          /\ copied \in Seq(Nat) /\ unread_data \in Seq(Nat)
          /\ Span(copied, 0, c) /\ Span(unread_data, c, u)
          /\ Bordered(inbound_rx, Borders(inbound_rx, fed), u, fed)
        BY LenProperties, SubstreamAssumption DEF IndInv, TypeOK, ByteInv, Span
    <2> HIDE DEF c, u
    <2>2. Span(FlattenSeq(inbound_rx), u, fed)
        BY <2>1, FlattenSpan
    <2>3. Span(copied \o unread_data, 0, u)
        BY <2>1, SpanConcat
    <2>4. Span(copied \o unread_data \o FlattenSeq(inbound_rx), 0, fed)
        BY <2>1, <2>2, <2>3, SpanConcat
    <2>5. Span([k \in 1 .. fed |-> k], 0, fed)
        BY <2>1 DEF Span
    <2> QED  BY <2>1, <2>4, <2>5, SpanUnique DEF NoByteIsLost
<1> QED  BY <1>1, IndInvariant, PTL

\* The bytes that poll_read reports are in order, none twice.
THEOREM ReportedInOrderTheorem == Spec => []ReportedInOrder
<1>1. IndInv => ReportedInOrder
    BY DEF IndInv, ReportedInv
<1> QED  BY <1>1, IndInvariant, PTL

\* A read fails only if the remote end has closed the substream or poll_close has, also
\* when the reader and the Connection run in two tasks.
THEOREM FailsOnlyWhenClosedTheorem == Spec => []FailsOnlyWhenClosed
<1>1. IndInv => FailsOnlyWhenClosed
    BY DEF IndInv, CloseInv, FailsOnlyWhenClosed
<1> QED  BY <1>1, IndInvariant, PTL

\* A substream that is closed, by the remote end's signal or by poll_close, stays so, and
\* no read returns a byte any more: the read that is past check_closed is the one thing
\* that copies, and the substream is never closed under it.
THEOREM ClosedForGoodTheorem == Spec => ClosedForGood
<1>1. IndInv /\ [Next]_vars => [closed => closed' /\ UNCHANGED readVars]_vars
    <2> SUFFICES ASSUME IndInv, Next, closed PROVE closed' /\ UNCHANGED readVars
        OBVIOUS
    <2>1. closed \in BOOLEAN /\ reader # "checked"
        BY DEF IndInv, TypeOK, CloseInv
    <2>2. CASE \E n \in DataLen : Feed(n)
        BY <2>2 DEF Feed
    <2>3. CASE RemoveSender \/ SendClose \/ DropConnection
        BY <2>3 DEF RemoveSender, SendClose, DropConnection, subVars
    <2>4. CASE StartRead \/ PollWrite
        BY <2>4 DEF StartRead, PollWrite, CheckClosed
    <2>5. CASE PollClose \/ WakeUp
        BY <2>5 DEF PollClose, WakeUp, subVars
    <2>6. CASE \E len \in BufLen : Copy(len)
        BY <2>1, <2>6 DEF Copy
    <2> QED  BY <2>2, <2>3, <2>4, <2>5, <2>6 DEF Next, Read
<1> QED  BY <1>1, IndInvariant, PTL DEF Spec, ClosedForGood
=============================================================================
