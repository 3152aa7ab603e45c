--------------------------- MODULE MessageProofs ---------------------------
(***************************************************************************)
(* Decoding inverts encoding, and which bytes the decoders accept, for all *)
(* lengths of the fields.                                                  *)
(***************************************************************************)
EXTENDS Message, SequenceTheorems, TLAPS

\* A field of n bytes is a sequence.
LEMMA BytesIsSeq ==
    ASSUME NEW n \in Nat, NEW b \in Bytes(n)
    PROVE  b \in Seq(Byte) /\ Len(b) = n
BY DEF Bytes

\* Concatenation is associative.
LEMMA Associative ==
    ASSUME NEW a \in Seq(Byte), NEW b \in Seq(Byte), NEW c \in Seq(Byte)
    PROVE  (a \o b) \o c = a \o (b \o c)
BY ConcatAssociative, SMTT(60)

\* The two slices at the border of a concatenation are its parts.
LEMMA SplitConcat ==
    ASSUME NEW a \in Seq(Byte), NEW b \in Seq(Byte)
    PROVE  /\ Slice(a \o b, 0, Len(a)) = a
           /\ Drop(a \o b, Len(a)) = b
<1>1. /\ a \o b \in Seq(Byte)
      /\ Len(a \o b) = Len(a) + Len(b)
      /\ \A i \in 1 .. Len(a) + Len(b) :
            (a \o b)[i] = IF i <= Len(a) THEN a[i] ELSE b[i - Len(a)]
      /\ \A i \in 1 .. Len(a) + Len(b) : (a \o b)[i] \in Byte
    BY ConcatProperties, ElementOfSeq
<1>2. Len(a) \in Nat /\ Len(b) \in Nat
    BY LenProperties
<1>3. Slice(a \o b, 0, Len(a)) = a
    <2>1. /\ SubSeq(a \o b, 1, Len(a)) \in Seq(Byte)
          /\ Len(SubSeq(a \o b, 1, Len(a))) = Len(a)
          /\ \A i \in 1 .. Len(a) : SubSeq(a \o b, 1, Len(a))[i] = (a \o b)[i]
        BY <1>1, <1>2, SubSeqProperties
    <2>2. SubSeq(a \o b, 1, Len(a)) = a
        BY <2>1, <1>1, <1>2, SeqEqual
    <2> QED  BY <2>2 DEF Slice
<1>4. Drop(a \o b, Len(a)) = b
    <2> DEFINE d == SubSeq(a \o b, Len(a) + 1, Len(a) + Len(b))
    <2>1. /\ d \in Seq(Byte)
          /\ Len(d) = Len(b)
          /\ \A i \in 1 .. Len(b) : d[i] = (a \o b)[Len(a) + i]
        BY <1>1, <1>2, SubSeqProperties
    <2>2. d = b
        BY <2>1, <1>1, <1>2, SeqEqual
    <2> QED  BY <2>2, <1>1 DEF Drop, Slice
<1> QED  BY <1>3, <1>4

\* The parts a, b and c of the bytes s are found by their offsets.
Parts(s, a, b, c) ==
    /\ s \in Seq(Byte)
    /\ Len(s) = Len(a) + Len(b) + Len(c)
    /\ Slice(s, 0, Len(a)) = a
    /\ Slice(s, Len(a), Len(a) + Len(b)) = b
    /\ Drop(s, Len(a) + Len(b)) = c
    /\ \A i \in 1 .. Len(b) : s[Len(a) + i] = b[i]

\* A concatenation of three sequences has them as its parts.
LEMMA SplitConcat3 ==
    ASSUME NEW a \in Seq(Byte), NEW b \in Seq(Byte), NEW c \in Seq(Byte)
    PROVE  Parts(a \o b \o c, a, b, c)
<1> DEFINE s == a \o b \o c
<1>1. /\ a \o b \in Seq(Byte) /\ b \o c \in Seq(Byte) /\ s \in Seq(Byte)
      /\ Len(a \o b) = Len(a) + Len(b)
      /\ Len(s) = Len(a) + Len(b) + Len(c)
    BY ConcatProperties
<1>2. Len(a) \in Nat /\ Len(b) \in Nat /\ Len(c) \in Nat
    BY LenProperties
<1>3. s = a \o (b \o c)
    BY Associative, Zenon
<1>4. Slice(s, 0, Len(a)) = a
    BY <1>1, <1>3, SplitConcat
<1>5. Drop(s, Len(a) + Len(b)) = c
    <2>1. Drop(s, Len(a \o b)) = c
        BY <1>1, SplitConcat
    <2> QED  BY <2>1, <1>1
<1>6. \A i \in 1 .. Len(b) : s[Len(a) + i] = b[i]
    <2>1. \A i \in 1 .. Len(b) : (a \o b)[Len(a) + i] = b[i]
        BY <1>2, ConcatProperties
    <2>2. \A i \in 1 .. Len(a) + Len(b) : s[i] = (a \o b)[i]
        BY <1>1, <1>2, ConcatProperties
    <2> QED  BY <2>1, <2>2, <1>2
<1>7. Slice(s, Len(a), Len(a) + Len(b)) = b
    <2> DEFINE d == SubSeq(s, Len(a) + 1, Len(a) + Len(b))
    <2>1. \A i \in Len(a) + 1 .. Len(a) + Len(b) : s[i] \in Byte
        BY <1>1, <1>2, ElementOfSeq
    <2>2. /\ d \in Seq(Byte)
          /\ Len(d) = Len(b)
          /\ \A i \in 1 .. Len(b) : d[i] = s[Len(a) + i]
        BY <2>1, <1>2, SubSeqProperties
    <2>3. d = b
        BY <2>2, <1>2, <1>6, SeqEqual
    <2> QED  BY <2>3 DEF Slice
<1> QED  BY <1>1, <1>4, <1>5, <1>6, <1>7 DEF Parts

\* Four parts with the two in the middle taken together.
LEMMA SplitConcat4 ==
    ASSUME NEW a \in Seq(Byte), NEW b \in Seq(Byte), NEW c \in Seq(Byte), NEW d \in Seq(Byte)
    PROVE  /\ Parts(a \o (b \o c) \o d, a \o b, c, d)
           /\ Parts(a \o (b \o c) \o d, a, b, c \o d)
           /\ Len(a \o b) = Len(a) + Len(b)
<1>1. a \o b \in Seq(Byte) /\ Len(a \o b) = Len(a) + Len(b) /\ c \o d \in Seq(Byte)
    BY ConcatProperties
<1>2. (a \o b) \o c = a \o (b \o c)
    BY Associative, Zenon
<1>3. (a \o b) \o c \o d = (a \o b) \o (c \o d)
    <2> DEFINE ab == a \o b
    <2>1. ab \in Seq(Byte)
        BY <1>1
    <2> HIDE DEF ab
    <2>2. ab \o c \o d = ab \o (c \o d)
        BY <2>1, Associative, Zenon
    <2> QED  BY <2>2 DEF ab
<1>4. Parts((a \o b) \o c \o d, a \o b, c, d)
    BY <1>1, SplitConcat3
<1>5. Parts((a \o b) \o (c \o d), a, b, c \o d)
    BY <1>1, SplitConcat3
<1> QED  BY <1>1, <1>2, <1>3, <1>4, <1>5, Zenon

\* A single byte is a sequence of bytes.
LEMMA OneByte ==
    ASSUME NEW x \in 0 .. 3
    PROVE  <<x>> \in Seq(Byte) /\ Len(<<x>>) = 1 /\ <<x>>[1] = x
BY MessageAssumption

\* A byte between two parts.
LEMMA SplitAtByte ==
    ASSUME NEW a \in Seq(Byte), NEW x \in 0 .. 3, NEW c \in Seq(Byte)
    PROVE  \E b \in Seq(Byte) :
               Len(b) = 1 /\ b[1] = x /\ Parts(a \o <<x>> \o c, a, b, c)
<1>1. PICK b \in Seq(Byte) : b = <<x>> /\ Len(b) = 1 /\ b[1] = x
    BY OneByte
<1>2. Parts(a \o b \o c, a, b, c)
    BY SplitConcat3
<1> QED  BY <1>1, <1>2, Zenon

\* A value is found by its own code in a table without a code twice.
LEMMA DecodedCode ==
    ASSUME NEW table, Injective(table), NEW x \in DOMAIN table
    PROVE  Decodes(table[x], table) /\ Decoded(table[x], table) = x
BY DEF Decodes, Decoded, Injective

\* The codes of the types and the tags of the messages are different bytes.
LEMMA CodesAreInjective ==
    /\ Injective(TypeCode) /\ DOMAIN TypeCode = MessageType
    /\ \A t \in MessageType : TypeCode[t] \in 0 .. 3
    /\ Injective(Tag)
    /\ DOMAIN Tag = {"ConnectionRequest", "ConnectionResponse", "TransportMessage"}
    /\ \A t \in DOMAIN Tag : Tag[t] \in 0 .. 3
BY DEF Injective, TypeCode, MessageType, Tag

\* What the decoder makes of an identifier, a type code and data.
LEMMA SubstreamDecoded ==
    ASSUME NEW id \in Seq(Byte), Len(id) = SUBSTREAM_ID_LENGTH,
           NEW type \in MessageType, NEW data \in Seq(Byte),
           type = "Data" => data # <<>>,
           NEW bytes, bytes = id \o <<TypeCode[type]>> \o data
    PROVE  /\ bytes \in Seq(Byte)
           /\ Len(bytes) >= SUBSTREAM_ID_LENGTH + 1
           /\ SubstreamMessageFromBytes(bytes)
                = [substream_id |-> id, message_type |-> type,
                   data |-> IF type = "Data" THEN data ELSE <<>>]
<1>1. PICK code : code = TypeCode[type]
    OBVIOUS
<1>2. code \in 0 .. 3 /\ Decodes(code, TypeCode) /\ Decoded(code, TypeCode) = type
    BY <1>1, CodesAreInjective, DecodedCode
<1>3. PICK b \in Seq(Byte) : Len(b) = 1 /\ b[1] = code /\ Parts(bytes, id, b, data)
    BY <1>1, <1>2, SplitAtByte, Zenon
<1>4. /\ bytes \in Seq(Byte)
      /\ Len(bytes) = Len(id) + 1 + Len(data)
      /\ Slice(bytes, 0, Len(id)) = id
      /\ bytes[Len(id) + 1] = code
      /\ Drop(bytes, Len(id) + 1) = data
    BY <1>3, LenProperties DEF Parts
<1>5. /\ Len(data) \in Nat /\ (type = "Data" => Len(data) >= 1)
      /\ SUBSTREAM_ID_LENGTH \in Nat
    BY EmptySeq, LenProperties, MessageAssumption
<1>6. /\ ~(Len(bytes) < SUBSTREAM_ID_LENGTH + 1)
      /\ ~(type = "Data" /\ Len(bytes) < SUBSTREAM_ID_LENGTH + 2)
      /\ Len(bytes) >= SUBSTREAM_ID_LENGTH + 1
    BY <1>4, <1>5
<1>7. SubstreamMessageFromBytes(bytes)
        = [substream_id |-> id, message_type |-> type,
           data |-> IF type = "Data" THEN data ELSE <<>>]
    BY <1>2, <1>4, <1>6, Zenon DEF SubstreamMessageFromBytes
<1> QED  BY <1>4, <1>6, <1>7

\* SubstreamMessage::try_from_bytes inverts to_bytes, except for Data without data, and
\* ignores what follows a message that is not Data.
LEMMA SubstreamRoundTrip ==
    ASSUME NEW m \in SubstreamMessage, m.message_type = "Data" => m.data # <<>>,
           NEW rest \in Seq(Byte), m.message_type = "Data" => rest = <<>>
    PROVE  /\ SubstreamMessageToBytes(m) \in Seq(Byte)
           /\ SubstreamMessageToBytes(m) \o rest \in Seq(Byte)
           /\ Len(SubstreamMessageToBytes(m) \o rest) >= SUBSTREAM_ID_LENGTH + 1
           /\ SubstreamMessageFromBytes(SubstreamMessageToBytes(m) \o rest) = m
<1>1. PICK id, type, data :
        /\ id \in Bytes(SUBSTREAM_ID_LENGTH) /\ type \in MessageType /\ data \in Seq(Byte)
        /\ type # "Data" => data = <<>>
        /\ m = [substream_id |-> id, message_type |-> type, data |-> data]
        /\ id = m.substream_id /\ type = m.message_type /\ data = m.data
    BY DEF SubstreamMessage
<1>2. id \in Seq(Byte) /\ Len(id) = SUBSTREAM_ID_LENGTH
    BY <1>1, BytesIsSeq, MessageAssumption
<1>3. PICK code : code = <<TypeCode[type]>>
    OBVIOUS
<1>4. code \in Seq(Byte)
    BY <1>1, <1>3, CodesAreInjective, OneByte
<1>5. PICK front : front = id \o code /\ front \in Seq(Byte)
    BY <1>2, <1>4, ConcatProperties, Zenon
<1>6. SubstreamMessageToBytes(m) = front \o data /\ front \o data \in Seq(Byte)
    <2>1. SubstreamMessageToBytes(m) = front \o data
        BY <1>1, <1>3, <1>5, Zenon DEF SubstreamMessageToBytes
    <2> QED  BY <2>1, <1>1, <1>5, ConcatProperties, Zenon
<1>7. PICK all \in Seq(Byte) : all = data \o rest
    BY <1>1, ConcatProperties, Zenon
<1>8. PICK bytes : bytes = SubstreamMessageToBytes(m) \o rest
    OBVIOUS
<1>9. bytes = id \o <<TypeCode[type]>> \o all
    <2>1. (front \o data) \o rest = front \o (data \o rest)
        BY <1>1, <1>5, Associative, Zenon
    <2> QED  BY <2>1, <1>3, <1>5, <1>6, <1>7, <1>8, Zenon
<1>10. type = "Data" => all = data
    BY <1>1, <1>7, ConcatEmptySeq
<1>11. /\ bytes \in Seq(Byte)
       /\ Len(bytes) >= SUBSTREAM_ID_LENGTH + 1
       /\ SubstreamMessageFromBytes(bytes)
            = [substream_id |-> id, message_type |-> type,
               data |-> IF type = "Data" THEN all ELSE <<>>]
    <2>1. type \in MessageType /\ (type = "Data" => all # <<>>)
        BY <1>1, <1>10
    <2> QED  BY <2>1, <1>2, <1>9, SubstreamDecoded, Zenon
<1>12. (IF type = "Data" THEN all ELSE <<>>) = data
    BY <1>1, <1>10
<1>13. SubstreamMessageFromBytes(bytes) = m
    BY <1>1, <1>11, <1>12, Zenon
<1> QED  BY <1>6, <1>8, <1>11, <1>13, Zenon

\* TransportMessage::try_from_bytes inverts to_bytes, with the same exceptions.
LEMMA TransportRoundTrip ==
    ASSUME NEW m \in TransportMessage,
           m.message.message_type = "Data" => m.message.data # <<>>,
           NEW rest \in Seq(Byte), m.message.message_type = "Data" => rest = <<>>
    PROVE  /\ TransportMessageToBytes(m) \in Seq(Byte)
           /\ TransportMessageToBytes(m) \o rest \in Seq(Byte)
           /\ Len(TransportMessageToBytes(m) \o rest) >= 1
           /\ TransportMessageFromBytes(TransportMessageToBytes(m) \o rest) = m
<1>1. PICK nonce, id, message :
        /\ nonce \in DOMAIN NonceBytes /\ id \in Bytes(CONNECTION_ID_LENGTH)
        /\ message \in SubstreamMessage
        /\ m = [nonce |-> nonce, id |-> id, message |-> message]
        /\ nonce = m.nonce /\ id = m.id /\ message = m.message
    BY DEF TransportMessage
<1>2. PICK a, b, c, bytes :
        /\ a = NonceBytes[nonce] /\ b = SubstreamMessageToBytes(message) /\ c = b \o rest
        /\ bytes = TransportMessageToBytes(m) \o rest
    OBVIOUS
<1>3. TransportMessageToBytes(m) = a \o id \o b
    BY <1>1, <1>2, Zenon DEF TransportMessageToBytes
<1>4. /\ NONCE_BYTES_LEN \in Nat /\ CONNECTION_ID_LENGTH \in Nat /\ SUBSTREAM_ID_LENGTH \in Nat
      /\ a \in Bytes(NONCE_BYTES_LEN)
      /\ Decoded(a, NonceBytes) = nonce
    BY <1>1, <1>2, MessageAssumption, DecodedCode
<1>5. /\ a \in Seq(Byte) /\ Len(a) = NONCE_BYTES_LEN
      /\ id \in Seq(Byte) /\ Len(id) = CONNECTION_ID_LENGTH
    BY <1>1, <1>4, BytesIsSeq
<1>6. /\ b \in Seq(Byte) /\ c \in Seq(Byte) /\ Len(c) >= SUBSTREAM_ID_LENGTH + 1
      /\ SubstreamMessageFromBytes(c) = message
    BY <1>1, <1>2, SubstreamRoundTrip, Zenon
<1>7. PICK front : front = a \o id /\ front \in Seq(Byte) /\ front \o b \in Seq(Byte)
    BY <1>5, <1>6, ConcatProperties, Zenon
<1>8. (front \o b) \o rest = front \o (b \o rest)
    <2>1. front \in Seq(Byte) /\ b \in Seq(Byte) /\ rest \in Seq(Byte)
        BY <1>6, <1>7
    <2> QED  BY <2>1, Associative
<1>9. bytes = a \o id \o c
    BY <1>2, <1>3, <1>7, <1>8, Zenon
<1>10. Parts(bytes, a, id, c)
    BY <1>9, <1>5, <1>6, SplitConcat3, Zenon
<1>11. /\ bytes \in Seq(Byte)
      /\ Len(bytes) = NONCE_BYTES_LEN + CONNECTION_ID_LENGTH + Len(c)
      /\ Slice(bytes, 0, NONCE_BYTES_LEN) = a
      /\ Slice(bytes, NONCE_BYTES_LEN, CONNECTION_ID_LENGTH + NONCE_BYTES_LEN) = id
      /\ Drop(bytes, CONNECTION_ID_LENGTH + NONCE_BYTES_LEN) = c
    BY <1>4, <1>5, <1>10 DEF Parts
<1>12. /\ ~(Len(bytes) < CONNECTION_ID_LENGTH + NONCE_BYTES_LEN + 1)
      /\ Len(bytes) >= 1
    <2>1. Len(c) \in Nat
        BY <1>6, LenProperties
    <2> QED  BY <2>1, <1>4, <1>6, <1>11
<1>13. message # Error
    BY <1>1, MessageAssumption
<1>14. TransportMessageFromBytes(bytes) = m
    BY <1>1, <1>4, <1>6, <1>11, <1>12, <1>13, Zenon DEF TransportMessageFromBytes
<1> QED  BY <1>2, <1>3, <1>11, <1>12, <1>14, <1>7, Zenon

\* ConnectionMessage::try_from_bytes inverts to_bytes.
LEMMA ConnectionRoundTrip ==
    ASSUME NEW m \in ConnectionMessage
    PROVE  /\ ConnectionMessageToBytes(m) \in Seq(Byte)
           /\ Len(ConnectionMessageToBytes(m)) >= 1
           /\ ConnectionMessageFromBytes(ConnectionMessageToBytes(m)) = m
<1>1. PICK id, recipient, peer_id :
        /\ id \in Bytes(CONNECTION_ID_LENGTH)
        /\ recipient \in DOMAIN RecipientBytes \cup {None}
        /\ peer_id \in DOMAIN PeerIdBytes
        /\ m = [id |-> id, recipient |-> recipient, peer_id |-> peer_id]
        /\ id = m.id /\ recipient = m.recipient /\ peer_id = m.peer_id
    BY DEF ConnectionMessage
<1>2. PICK p, bytes : p = PeerIdBytes[peer_id] /\ bytes = ConnectionMessageToBytes(m)
    OBVIOUS
<1>3. /\ CONNECTION_ID_LENGTH \in Nat /\ RECIPIENT_LENGTH \in Nat
      /\ id \in Seq(Byte) /\ Len(id) = CONNECTION_ID_LENGTH
    BY <1>1, BytesIsSeq, MessageAssumption
<1>4. /\ p \in Seq(Byte) /\ Len(p) \in Nat /\ Len(p) >= 1
      /\ Decodes(p, PeerIdBytes) /\ Decoded(p, PeerIdBytes) = peer_id
    <2>1. p \in Seq(Byte) /\ p # <<>>
        BY <1>1, <1>2, MessageAssumption
    <2>2. Decodes(p, PeerIdBytes) /\ Decoded(p, PeerIdBytes) = peer_id
        BY <1>1, <1>2, MessageAssumption, DecodedCode
    <2> QED  BY <2>1, <2>2, EmptySeq, LenProperties
<1>5. CASE recipient = None
    <2>1. bytes = id \o <<0>> \o p
        BY <1>1, <1>2, <1>5, Zenon DEF ConnectionMessageToBytes
    <2>2. 0 \in 0 .. 3
        OBVIOUS
    <2>3. PICK b \in Seq(Byte) : Len(b) = 1 /\ b[1] = 0 /\ Parts(bytes, id, b, p)
        BY <1>3, <1>4, <2>1, <2>2, SplitAtByte, Zenon
    <2>4. /\ bytes \in Seq(Byte)
          /\ Len(bytes) = CONNECTION_ID_LENGTH + 1 + Len(p)
          /\ Slice(bytes, 0, CONNECTION_ID_LENGTH) = id
          /\ bytes[CONNECTION_ID_LENGTH + 1] = 0
          /\ Drop(bytes, CONNECTION_ID_LENGTH + 1) = p
        BY <1>3, <1>4, <2>3 DEF Parts
    <2>5. /\ ~(Len(bytes) < CONNECTION_ID_LENGTH + 1)
          /\ ~(Len(bytes) < CONNECTION_ID_LENGTH + 1 + 1)
          /\ Len(bytes) >= 1 /\ 0 # 1 /\ 0 \in {0, 1}
        BY <1>3, <1>4, <2>4
    <2>6. ConnectionMessageFromBytes(bytes) = m
        BY <1>1, <1>4, <1>5, <2>4, <2>5, Zenon DEF ConnectionMessageFromBytes
    <2> QED  BY <1>2, <2>4, <2>5, <2>6, Zenon
<1>6. CASE recipient # None
    <2>1. PICK one, r : one = <<1>> /\ r = RecipientBytes[recipient]
        OBVIOUS
    <2>2. one \in Seq(Byte) /\ Len(one) = 1 /\ one[1] = 1
        BY <2>1, OneByte
    <2>3. /\ r \in Bytes(RECIPIENT_LENGTH)
          /\ Decodes(r, RecipientBytes) /\ Decoded(r, RecipientBytes) = recipient
        BY <1>1, <1>6, <2>1, MessageAssumption, DecodedCode
    <2>4. r \in Seq(Byte) /\ Len(r) = RECIPIENT_LENGTH
        BY <1>3, <2>3, BytesIsSeq
    <2>5. bytes = id \o (one \o r) \o p
        BY <1>1, <1>2, <1>6, <2>1, Zenon DEF ConnectionMessageToBytes
    <2>6. /\ Parts(bytes, id \o one, r, p)
          /\ Parts(bytes, id, one, r \o p)
          /\ Len(id \o one) = Len(id) + Len(one)
        BY <1>3, <1>4, <2>2, <2>4, <2>5, SplitConcat4
    <2>7. /\ bytes \in Seq(Byte)
           /\ Len(bytes) = CONNECTION_ID_LENGTH + 1 + RECIPIENT_LENGTH + Len(p)
           /\ Slice(bytes, CONNECTION_ID_LENGTH + 1, CONNECTION_ID_LENGTH + 1 + RECIPIENT_LENGTH) = r
           /\ Drop(bytes, CONNECTION_ID_LENGTH + 1 + RECIPIENT_LENGTH) = p
        BY <1>3, <2>2, <2>4, <2>6 DEF Parts
    <2>8. /\ Slice(bytes, 0, CONNECTION_ID_LENGTH) = id
           /\ bytes[CONNECTION_ID_LENGTH + 1] = 1
        BY <1>3, <2>2, <2>6 DEF Parts
    <2>9. /\ ~(Len(bytes) < CONNECTION_ID_LENGTH + 1)
           /\ ~(Len(bytes) < CONNECTION_ID_LENGTH + 1 + RECIPIENT_LENGTH + 1)
           /\ Len(bytes) >= 1 /\ 1 \in {0, 1}
        BY <1>3, <1>4, <2>7
    <2>10. ConnectionMessageFromBytes(bytes) = m
        BY <1>1, <1>4, <2>3, <2>7, <2>8, <2>9, Zenon DEF ConnectionMessageFromBytes
    <2> QED  BY <1>2, <2>7, <2>9, <2>10, Zenon
<1> QED  BY <1>5, <1>6

\* parse_message_data inverts Message::to_bytes, whatever follows a message that shows its
\* own end.
LEMMA SaidIsDecoded ==
    ASSUME NEW m \in Message, ~EmptyData(m),
           NEW rest \in Seq(Byte), rest = <<>> \/ ShowsItsEnd(m)
    PROVE  /\ MessageToBytes(m) \in Seq(Byte)
           /\ ParseMessageData(MessageToBytes(m) \o rest) = m
<1>1. ~EmptyData(m) /\ (rest = <<>> \/ ShowsItsEnd(m))
    OBVIOUS
<1>2. PICK type, body :
        /\ m = [type |-> type, body |-> body] /\ type = m.type /\ body = m.body
        /\ \/ type = "TransportMessage" /\ body \in TransportMessage
           \/ type \in {"ConnectionRequest", "ConnectionResponse"} /\ body \in ConnectionMessage
    BY DEF Message
<1>3. PICK b, c : /\ b = IF type = "TransportMessage" THEN TransportMessageToBytes(body)
                                                     ELSE ConnectionMessageToBytes(body)
                  /\ c = b \o rest
    OBVIOUS
<1>4. /\ b \in Seq(Byte) /\ c \in Seq(Byte) /\ Len(c) >= 1
      /\ body = IF type = "TransportMessage" THEN TransportMessageFromBytes(c)
                                             ELSE ConnectionMessageFromBytes(c)
    <2>1. CASE type = "TransportMessage" /\ body \in TransportMessage
        <3>1. body.message.message_type = "Data" => body.message.data # <<>>
            BY <1>1, <1>2, <2>1 DEF EmptyData
        <3>2. body.message.message_type = "Data" => rest = <<>>
            BY <1>1, <1>2, <2>1 DEF ShowsItsEnd
        <3> QED  BY <2>1, <3>1, <3>2, <1>3, TransportRoundTrip
    <2>2. CASE /\ type \in {"ConnectionRequest", "ConnectionResponse"}
               /\ body \in ConnectionMessage
        <3>1. /\ b \in Seq(Byte) /\ Len(b) >= 1 /\ ConnectionMessageFromBytes(b) = body
              /\ type # "TransportMessage"
            BY <2>2, <1>3, ConnectionRoundTrip
        <3>2. c = b
            BY <2>2, <3>1, <1>1, <1>2, <1>3, ConcatEmptySeq DEF ShowsItsEnd
        <3> QED  BY <3>1, <3>2
    <2> QED  BY <1>2, <2>1, <2>2
<1>5. body # Error
    BY <1>2, MessageAssumption
<1>6. /\ Decodes(Tag[type], Tag) /\ Decoded(Tag[type], Tag) = type
      /\ Tag[type] \in 0 .. 3
    BY <1>2, CodesAreInjective, DecodedCode
<1>7. PICK t, bytes : t = <<Tag[type]>> /\ bytes = t \o c
    OBVIOUS
<1>8. t \in Seq(Byte) /\ Len(t) = 1 /\ t[1] = Tag[type]
    BY <1>6, <1>7, OneByte
<1>9. MessageToBytes(m) = t \o b /\ t \o b \in Seq(Byte) /\ bytes = (t \o b) \o rest
    <2>1. MessageToBytes(m) = t \o b
        BY <1>2, <1>3, <1>7, Zenon DEF MessageToBytes
    <2>2. t \o b \in Seq(Byte)
        BY <1>4, <1>8, ConcatProperties, Zenon
    <2>3. (t \o b) \o rest = t \o (b \o rest)
        BY <1>4, <1>8, Associative, Zenon
    <2> QED  BY <2>1, <2>2, <2>3, <1>3, <1>7, Zenon
<1>10. /\ Drop(bytes, 1) = c
      /\ Len(bytes) = 1 + Len(c) /\ Len(c) \in Nat
      /\ bytes[1] = Tag[type]
    <2>1. Drop(bytes, Len(t)) = c
        BY <1>4, <1>7, <1>8, SplitConcat, Zenon
    <2>2. /\ Len(bytes) = Len(t) + Len(c) /\ Len(c) \in Nat
          /\ bytes[1] = t[1]
        BY <1>4, <1>7, <1>8, ConcatProperties, LenProperties
    <2> QED  BY <2>1, <2>2, <1>8
<1>11. ~(Len(bytes) < 2)
    BY <1>4, <1>10
<1>12. MessageFromBytes(bytes) = m
    BY <1>2, <1>4, <1>5, <1>6, <1>10, <1>11, Zenon DEF MessageFromBytes
<1> QED  BY <1>9, <1>11, <1>12, Zenon DEF ParseMessageData

\* Decoding inverts encoding: what parse_message_data makes of the bytes that
\* Message::to_bytes writes is the message, for every message but a Data message
\* without data (which Substream::poll_write makes of an empty buffer).
THEOREM RoundTrip ==
    \A m \in Message : ~EmptyData(m) => ParseMessageData(MessageToBytes(m)) = m
<1>1. ASSUME NEW m \in Message, ~EmptyData(m)
      PROVE  ParseMessageData(MessageToBytes(m)) = m
    <2>1. <<>> \in Seq(Byte)
        OBVIOUS
    <2>2. /\ MessageToBytes(m) \in Seq(Byte)
          /\ ParseMessageData(MessageToBytes(m) \o <<>>) = m
        BY <1>1, <2>1, SaidIsDecoded
    <2>3. MessageToBytes(m) \o <<>> = MessageToBytes(m)
        BY <2>2, ConcatEmptySeq
    <2> QED  BY <2>2, <2>3
<1> QED  BY <1>1

-----------------------------------------------------------------------------
(***************************************************************************)
(* The types of what is encoded and of what is decoded.                    *)
(***************************************************************************)

\* Every message has an encoding, also Data without data.
LEMMA EncodingType ==
    ASSUME NEW m \in Message
    PROVE  MessageToBytes(m) \in Seq(Byte)
<1>1. PICK type, body :
        /\ m = [type |-> type, body |-> body] /\ type = m.type /\ body = m.body
        /\ type \in DOMAIN Tag
        /\ \/ type = "TransportMessage" /\ body \in TransportMessage
           \/ type \in {"ConnectionRequest", "ConnectionResponse"} /\ body \in ConnectionMessage
    BY CodesAreInjective DEF Message
<1>2. <<Tag[type]>> \in Seq(Byte)
    <2>1. Tag[type] \in 0 .. 3
        BY <1>1, CodesAreInjective
    <2> QED  BY <2>1, OneByte
<1>3. CASE type = "TransportMessage"
    <2>1. body \in TransportMessage
        BY <1>1, <1>3
    <2>2. PICK nonce, id, message :
            /\ nonce \in DOMAIN NonceBytes /\ id \in Bytes(CONNECTION_ID_LENGTH)
            /\ message \in SubstreamMessage
            /\ body = [nonce |-> nonce, id |-> id, message |-> message]
        BY <2>1 DEF TransportMessage
    <2>3. PICK sid, mtype, data :
            /\ sid \in Bytes(SUBSTREAM_ID_LENGTH) /\ mtype \in MessageType /\ data \in Seq(Byte)
            /\ message = [substream_id |-> sid, message_type |-> mtype, data |-> data]
        BY <2>2 DEF SubstreamMessage
    <2>4. /\ sid \in Seq(Byte) /\ id \in Seq(Byte)
          /\ NonceBytes[nonce] \in Seq(Byte)
        <3>1. NonceBytes[nonce] \in Bytes(NONCE_BYTES_LEN)
            BY <2>2, MessageAssumption
        <3>2. /\ CONNECTION_ID_LENGTH \in Nat /\ SUBSTREAM_ID_LENGTH \in Nat
              /\ NONCE_BYTES_LEN \in Nat
            BY MessageAssumption
        <3> QED  BY <3>1, <3>2, <2>2, <2>3, BytesIsSeq, Zenon
    <2>5. <<TypeCode[mtype]>> \in Seq(Byte)
        <3>1. TypeCode[mtype] \in 0 .. 3
            BY <2>3, CodesAreInjective
        <3> QED  BY <3>1, OneByte
    <2>6. SubstreamMessageToBytes(message) = sid \o <<TypeCode[mtype]>> \o data
        BY <2>3 DEF SubstreamMessageToBytes
    <2>7. SubstreamMessageToBytes(message) \in Seq(Byte)
        <3>1. sid \o <<TypeCode[mtype]>> \in Seq(Byte)
            BY <2>4, <2>5, ConcatProperties, Zenon
        <3> QED  BY <3>1, <2>3, <2>6, ConcatProperties, Zenon
    <2>8. TransportMessageToBytes(body) = NonceBytes[nonce] \o id \o SubstreamMessageToBytes(message)
        BY <2>2 DEF TransportMessageToBytes
    <2>9. TransportMessageToBytes(body) \in Seq(Byte)
        <3>1. NonceBytes[nonce] \o id \in Seq(Byte)
            BY <2>4, ConcatProperties, Zenon
        <3> QED  BY <3>1, <2>7, <2>8, ConcatProperties, Zenon
    <2>10. MessageToBytes(m) = <<Tag[type]>> \o TransportMessageToBytes(body)
        BY <1>1, <1>3 DEF MessageToBytes
    <2> QED  BY <2>9, <2>10, <1>2, ConcatProperties, Zenon
<1>4. CASE type # "TransportMessage"
    <2>1. body \in ConnectionMessage
        BY <1>1, <1>4
    <2>2. ConnectionMessageToBytes(body) \in Seq(Byte)
        BY <2>1, ConnectionRoundTrip
    <2>3. MessageToBytes(m) = <<Tag[type]>> \o ConnectionMessageToBytes(body)
        BY <1>1, <1>4 DEF MessageToBytes
    <2> QED  BY <2>2, <2>3, <1>2, ConcatProperties, Zenon
<1> QED  BY <1>3, <1>4

\* A slice within the bytes has the length that its offsets say.
LEMMA SliceType ==
    ASSUME NEW bytes \in Seq(Byte), NEW from \in Nat, NEW to \in Nat,
           from <= to, to <= Len(bytes)
    PROVE  Slice(bytes, from, to) \in Seq(Byte) /\ Slice(bytes, from, to) \in Bytes(to - from)
<1>1. \A i \in from + 1 .. to : bytes[i] \in Byte
    BY ElementOfSeq
<1> DEFINE s == SubSeq(bytes, from + 1, to)
<1>2. s \in Seq(Byte) /\ Len(s) = to - from
    BY <1>1, SubSeqProperties
<1> HIDE DEF s
<1>3. s \in [1 .. Len(s) -> Byte]
    BY <1>2, LenProperties, ElementOfSeq
<1> QED  BY <1>2, <1>3 DEF s, Slice, Bytes

\* What a table decodes is in its domain.
LEMMA DecodedType ==
    ASSUME NEW bytes, NEW table, Decodes(bytes, table)
    PROVE  Decoded(bytes, table) \in DOMAIN table
BY DEF Decodes, Decoded

\* SubstreamMessage::try_from_bytes returns a message, never Data without data.
LEMMA SubstreamDecodedType ==
    ASSUME NEW bytes \in Seq(Byte), SubstreamMessageFromBytes(bytes) # Error
    PROVE  /\ SubstreamMessageFromBytes(bytes) \in SubstreamMessage
           /\ SubstreamMessageFromBytes(bytes).message_type = "Data"
                => SubstreamMessageFromBytes(bytes).data # <<>>
<1> DEFINE l == SUBSTREAM_ID_LENGTH
           code == bytes[l + 1]
           type == Decoded(code, TypeCode)
           data == IF type = "Data" THEN Drop(bytes, l + 1) ELSE <<>>
<1>1. l \in Nat /\ Len(bytes) \in Nat
    BY MessageAssumption, LenProperties
<1>2. /\ ~(Len(bytes) < l + 1) /\ Decodes(code, TypeCode)
      /\ ~(type = "Data" /\ Len(bytes) < l + 2)
      /\ SubstreamMessageFromBytes(bytes) =
            [substream_id |-> Slice(bytes, 0, l), message_type |-> type, data |-> data]
    BY DEF SubstreamMessageFromBytes
<1>3. type \in MessageType
    BY <1>2, DecodedType, CodesAreInjective
<1>4. Slice(bytes, 0, l) \in Bytes(l)
    <2>1. Slice(bytes, 0, l) \in Bytes(l - 0)
        BY <1>1, <1>2, SliceType
    <2> QED  BY <2>1, <1>1
<1> HIDE DEF type, l
<1>5. type # "Data" => data = <<>>
    OBVIOUS
<1>6. type = "Data" => data \in Seq(Byte) /\ data # <<>>
    <2> SUFFICES ASSUME type = "Data" PROVE data \in Seq(Byte) /\ data # <<>>
        OBVIOUS
    <2>1. l + 1 <= Len(bytes) /\ l + 1 \in Nat /\ Len(bytes) - (l + 1) >= 1
        BY <1>1, <1>2
    <2>2. data = Slice(bytes, l + 1, Len(bytes))
        BY DEF Drop
    <2>3. data \in Seq(Byte) /\ data \in Bytes(Len(bytes) - (l + 1))
        BY <2>1, <2>2, <1>1, SliceType, SMTT(30)
    <2>4. Len(data) = Len(bytes) - (l + 1)
        BY <2>1, <2>3, <1>1, BytesIsSeq
    <2> QED  BY <2>1, <2>3, <2>4, EmptySeq
<1>7. data \in Seq(Byte)
    BY <1>5, <1>6, EmptySeq
<1> HIDE DEF data
<1> QED  BY <1>2, <1>3, <1>4, <1>5, <1>6, <1>7 DEF SubstreamMessage, l

\* TransportMessage::try_from_bytes returns a message, never with Data without data.
LEMMA TransportDecodedType ==
    ASSUME NEW bytes \in Seq(Byte), TransportMessageFromBytes(bytes) # Error
    PROVE  /\ TransportMessageFromBytes(bytes) \in TransportMessage
           /\ TransportMessageFromBytes(bytes).message.message_type = "Data"
                => TransportMessageFromBytes(bytes).message.data # <<>>
<1> DEFINE c == CONNECTION_ID_LENGTH
           n == NONCE_BYTES_LEN
           message == SubstreamMessageFromBytes(Drop(bytes, c + n))
           nonce == Decoded(Slice(bytes, 0, n), NonceBytes)
           id == Slice(bytes, n, c + n)
<1>1. c \in Nat /\ n \in Nat /\ Len(bytes) \in Nat /\ (c + n) - n = c /\ n - 0 = n
    BY MessageAssumption, LenProperties
<1>2. /\ ~(Len(bytes) < (c + n) + 1) /\ message # Error
      /\ TransportMessageFromBytes(bytes) = [nonce |-> nonce, id |-> id, message |-> message]
    BY DEF TransportMessageFromBytes
<1> HIDE DEF c, n
<1>3. /\ c + n \in Nat /\ n <= c + n /\ c + n <= Len(bytes) /\ 0 <= n /\ n <= Len(bytes)
      /\ Len(bytes) <= Len(bytes) /\ 0 \in Nat
    BY <1>1, <1>2
<1>4. id \in Bytes(c)
    <2>1. id \in Bytes((c + n) - n)
        BY <1>1, <1>3, SliceType, Zenon
    <2> QED  BY <2>1, <1>1
<1>5. nonce \in DOMAIN NonceBytes
    <2>1. Slice(bytes, 0, n) \in Bytes(n - 0)
        BY <1>1, <1>3, SliceType, Zenon
    <2>2. Decodes(Slice(bytes, 0, n), NonceBytes)
        BY <2>1, <1>1, MessageAssumption DEF Decodes, n
    <2> QED  BY <2>2, DecodedType
<1>6. /\ message \in SubstreamMessage
      /\ message.message_type = "Data" => message.data # <<>>
    <2>1. Drop(bytes, c + n) \in Seq(Byte)
        <3>1. Slice(bytes, c + n, Len(bytes)) \in Seq(Byte)
            BY <1>1, <1>3, SliceType, Zenon
        <3> QED  BY <3>1 DEF Drop
    <2> QED  BY <2>1, <1>2, SubstreamDecodedType
<1> HIDE DEF message, nonce, id
<1> QED  BY <1>2, <1>4, <1>5, <1>6 DEF TransportMessage, c

\* ConnectionMessage::try_from_bytes returns a message.
LEMMA ConnectionDecodedType ==
    ASSUME NEW bytes \in Seq(Byte), ConnectionMessageFromBytes(bytes) # Error
    PROVE  ConnectionMessageFromBytes(bytes) \in ConnectionMessage
<1> DEFINE prefix == bytes[CONNECTION_ID_LENGTH + 1]
           from == CONNECTION_ID_LENGTH + 1
           to == IF prefix = 1 THEN from + RECIPIENT_LENGTH ELSE from
           id == Slice(bytes, 0, CONNECTION_ID_LENGTH)
           recipient == IF prefix = 1 THEN Decoded(Slice(bytes, from, to), RecipientBytes) ELSE None
           peer_id == Decoded(Drop(bytes, to), PeerIdBytes)
<1>1. /\ ~(Len(bytes) < from)
      /\ prefix = 1 => Decodes(Slice(bytes, from, to), RecipientBytes)
      /\ Decodes(Drop(bytes, to), PeerIdBytes)
      /\ ConnectionMessageFromBytes(bytes) =
            [id |-> id, recipient |-> recipient, peer_id |-> peer_id]
    BY DEF ConnectionMessageFromBytes
<1>2. id \in Bytes(CONNECTION_ID_LENGTH)
    <2>1. /\ CONNECTION_ID_LENGTH \in Nat /\ Len(bytes) \in Nat
          /\ CONNECTION_ID_LENGTH - 0 = CONNECTION_ID_LENGTH
        BY MessageAssumption, LenProperties
    <2>2. id \in Bytes(CONNECTION_ID_LENGTH - 0)
        BY <2>1, <1>1, SliceType
    <2> QED  BY <2>1, <2>2
<1> HIDE DEF prefix, to, id
<1>3. recipient \in DOMAIN RecipientBytes \cup {None}
    BY <1>1, DecodedType
<1>4. peer_id \in DOMAIN PeerIdBytes
    BY <1>1, DecodedType
<1> HIDE DEF recipient, peer_id
<1> QED  BY <1>1, <1>2, <1>3, <1>4 DEF ConnectionMessage

\* Whatever bytes a peer sends, parse_message_data refuses them or returns a well-formed
\* message: IDs of the right length, a known type, no Data without data.
THEOREM DecodedIsMessage ==
    \A bytes \in Seq(Byte) : ParseMessageData(bytes) # Error =>
        ParseMessageData(bytes) \in Message /\ ~EmptyData(ParseMessageData(bytes))
<1>1. SUFFICES ASSUME NEW bytes \in Seq(Byte), ParseMessageData(bytes) # Error
               PROVE  ParseMessageData(bytes) \in Message /\ ~EmptyData(ParseMessageData(bytes))
    OBVIOUS
<1> DEFINE type == Decoded(bytes[1], Tag)
           rest == Drop(bytes, 1)
           body == IF type = "TransportMessage" THEN TransportMessageFromBytes(rest)
                                                ELSE ConnectionMessageFromBytes(rest)
<1>2. /\ ~(Len(bytes) < 2) /\ Decodes(bytes[1], Tag) /\ body # Error
      /\ ParseMessageData(bytes) = [type |-> type, body |-> body]
    BY <1>1 DEF ParseMessageData, MessageFromBytes
<1>3. type \in {"ConnectionRequest", "ConnectionResponse", "TransportMessage"}
    BY <1>2, DecodedType, CodesAreInjective
<1>4. rest \in Seq(Byte)
    <2>1. Len(bytes) \in Nat /\ 1 \in Nat /\ 1 <= Len(bytes) /\ Len(bytes) <= Len(bytes)
        BY <1>1, <1>2, LenProperties
    <2>2. Slice(bytes, 1, Len(bytes)) \in Seq(Byte)
        BY <2>1, <1>1, SliceType, Zenon
    <2> QED  BY <2>2 DEF Drop
<1> HIDE DEF type, rest
<1>5. CASE type = "TransportMessage"
    <2>1. body = TransportMessageFromBytes(rest)
        BY <1>5
    <2>2. /\ body \in TransportMessage
          /\ body.message.message_type = "Data" => body.message.data # <<>>
        BY <2>1, <1>2, <1>4, TransportDecodedType
    <2> HIDE DEF body
    <2> QED  BY <2>2, <1>2, <1>5 DEF Message, EmptyData
<1>6. CASE type # "TransportMessage"
    <2>1. body = ConnectionMessageFromBytes(rest)
        BY <1>6
    <2>2. body \in ConnectionMessage
        BY <2>1, <1>2, <1>4, ConnectionDecodedType
    <2> HIDE DEF body
    <2> QED  BY <2>2, <1>2, <1>3, <1>6 DEF Message, EmptyData
<1> QED  BY <1>5, <1>6

-----------------------------------------------------------------------------
(***************************************************************************)
(* What is decoded is what the bytes say.                                  *)
(***************************************************************************)

\* Two slices that meet make one.
LEMMA SliceJoin ==
    ASSUME NEW s \in Seq(Byte), NEW i \in Nat, NEW j \in Nat, NEW k \in Nat,
           i <= j, j <= k, k <= Len(s)
    PROVE  Slice(s, i, j) \o Slice(s, j, k) = Slice(s, i, k)
<1> DEFINE a == Slice(s, i, j)
           b == Slice(s, j, k)
           c == Slice(s, i, k)
<1>1. Len(s) \in Nat /\ i <= k /\ j <= Len(s)
    BY LenProperties
<1>2. /\ \A x \in i + 1 .. j : s[x] \in Byte
      /\ \A x \in j + 1 .. k : s[x] \in Byte
      /\ \A x \in i + 1 .. k : s[x] \in Byte
    BY <1>1, ElementOfSeq
<1>3. a \in Seq(Byte) /\ Len(a) = j - i /\ \A x \in 1 .. j - i : a[x] = s[i + x]
    BY <1>1, <1>2, SubSeqProperties DEF Slice
<1>4. b \in Seq(Byte) /\ Len(b) = k - j /\ \A x \in 1 .. k - j : b[x] = s[j + x]
    BY <1>1, <1>2, SubSeqProperties DEF Slice
<1>5. c \in Seq(Byte) /\ Len(c) = k - i /\ \A x \in 1 .. k - i : c[x] = s[i + x]
    BY <1>1, <1>2, SubSeqProperties DEF Slice
<1> HIDE DEF a, b, c
<1>6. /\ a \o b \in Seq(Byte) /\ Len(a \o b) = Len(a) + Len(b)
      /\ \A x \in 1 .. Len(a) + Len(b) : (a \o b)[x] = IF x <= Len(a) THEN a[x] ELSE b[x - Len(a)]
    BY <1>3, <1>4, ConcatProperties
<1>7. Len(a \o b) = k - i
    BY <1>3, <1>4, <1>6
<1>8. ASSUME NEW x \in 1 .. k - i PROVE (a \o b)[x] = c[x]
    <2>1. x \in 1 .. Len(a) + Len(b) /\ c[x] = s[i + x]
        BY <1>3, <1>4, <1>5
    <2>2. CASE x <= j - i
        BY <2>1, <2>2, <1>3, <1>6
    <2>3. CASE x > j - i
        <3>1. x - (j - i) \in 1 .. k - j /\ j + (x - (j - i)) = i + x
            BY <2>3
        <3>2. (a \o b)[x] = b[x - (j - i)]
            BY <2>1, <2>3, <1>3, <1>6
        <3> QED  BY <2>1, <3>1, <3>2, <1>4
    <2>4. x <= j - i \/ x > j - i
        OBVIOUS
    <2> QED  BY <2>2, <2>3, <2>4, Zenon
<1>9. a \o b = c
    BY <1>5, <1>6, <1>7, <1>8, SeqEqual
<1> QED  BY <1>9 DEF a, b, c

\* All the bytes, and one of them.
LEMMA SliceWhole ==
    ASSUME NEW s \in Seq(Byte)
    PROVE  Slice(s, 0, Len(s)) = s
<1>1. Len(s) \in Nat /\ \A x \in 1 .. Len(s) : s[x] \in Byte
    BY LenProperties, ElementOfSeq
<1>2. /\ SubSeq(s, 1, Len(s)) \in Seq(Byte) /\ Len(SubSeq(s, 1, Len(s))) = Len(s)
      /\ \A x \in 1 .. Len(s) : SubSeq(s, 1, Len(s))[x] = s[x]
    BY <1>1, SubSeqProperties
<1>3. SubSeq(s, 1, Len(s)) = s
    BY <1>2, SeqEqual
<1> QED  BY <1>3 DEF Slice

LEMMA SliceByte ==
    ASSUME NEW s \in Seq(Byte), NEW i \in Nat, i < Len(s)
    PROVE  Slice(s, i, i + 1) = <<s[i + 1]>> /\ s[i + 1] \in Byte
<1>1. Len(s) \in Nat
    BY LenProperties
<1>2. s[i + 1] \in Byte
    BY <1>1, ElementOfSeq
<1>3. \A x \in i + 1 .. i + 1 : s[x] \in Byte
    BY <1>2
<1>4. /\ SubSeq(s, i + 1, i + 1) \in Seq(Byte) /\ Len(SubSeq(s, i + 1, i + 1)) = 1
      /\ SubSeq(s, i + 1, i + 1)[1] = s[i + 1]
    BY <1>1, <1>3, SubSeqProperties
<1>5. /\ <<s[i + 1]>> \in Seq(Byte) /\ Len(<<s[i + 1]>>) = 1 /\ <<s[i + 1]>>[1] = s[i + 1]
    BY <1>2
<1>6. SubSeq(s, i + 1, i + 1) = <<s[i + 1]>>
    <2>1. PICK u, v : u = SubSeq(s, i + 1, i + 1) /\ v = <<s[i + 1]>>
        OBVIOUS
    <2>2. u \in Seq(Byte) /\ v \in Seq(Byte) /\ Len(u) = 1 /\ Len(v) = 1 /\ u[1] = v[1]
        BY <2>1, <1>4, <1>5, Zenon
    <2>3. \A k \in 1 .. Len(u) : u[k] = v[k]
        BY <2>2
    <2> QED  BY <2>1, <2>2, <2>3, SeqEqual
<1> QED  BY <1>2, <1>6 DEF Slice

\* Bytes are what comes before an offset and what comes after it.
LEMMA CutAt ==
    ASSUME NEW s \in Seq(Byte), NEW i \in Nat, i <= Len(s)
    PROVE  /\ s = Slice(s, 0, i) \o Drop(s, i)
           /\ Slice(s, 0, i) \in Seq(Byte) /\ Len(Slice(s, 0, i)) = i
           /\ Drop(s, i) \in Seq(Byte) /\ Len(Drop(s, i)) = Len(s) - i
<1>1. Len(s) \in Nat /\ 0 \in Nat /\ 0 <= i /\ Len(s) <= Len(s) /\ i - 0 = i /\ Len(s) - i \in Nat
    BY LenProperties
<1>2. Slice(s, 0, i) \in Seq(Byte) /\ Slice(s, 0, i) \in Bytes(i - 0)
    BY <1>1, SliceType, Zenon
<1>3. Slice(s, i, Len(s)) \in Seq(Byte) /\ Slice(s, i, Len(s)) \in Bytes(Len(s) - i)
    BY <1>1, SliceType, Zenon
<1>4. Len(Slice(s, 0, i)) = i /\ Len(Slice(s, i, Len(s))) = Len(s) - i
    BY <1>1, <1>2, <1>3, BytesIsSeq
<1>5. Slice(s, 0, i) \o Slice(s, i, Len(s)) = Slice(s, 0, Len(s))
    BY <1>1, SliceJoin, ZenonT(30)
<1> QED  BY <1>2, <1>3, <1>4, <1>5, SliceWhole, Zenon DEF Drop

\* A byte that a table decodes is the code of what it decodes to.
LEMMA CodeOfDecoded ==
    ASSUME NEW bytes, NEW table, Decodes(bytes, table)
    PROVE  table[Decoded(bytes, table)] = bytes
BY DEF Decodes, Decoded

\* The bytes that SubstreamMessage::try_from_bytes accepts begin with the encoding of the
\* message that it returns; if that is Data, nothing follows.
LEMMA SubstreamSaid ==
    ASSUME NEW bytes \in Seq(Byte), SubstreamMessageFromBytes(bytes) # Error
    PROVE  LET m == SubstreamMessageFromBytes(bytes)
           IN  \E rest \in Seq(Byte) :
                  /\ bytes = SubstreamMessageToBytes(m) \o rest
                  /\ m.message_type = "Data" => rest = <<>>
<1> DEFINE l == SUBSTREAM_ID_LENGTH
           code == bytes[l + 1]
           type == Decoded(code, TypeCode)
           id == Slice(bytes, 0, l)
           data == IF type = "Data" THEN Drop(bytes, l + 1) ELSE <<>>
           m == SubstreamMessageFromBytes(bytes)
<1>1. l \in Nat /\ Len(bytes) \in Nat
    BY MessageAssumption, LenProperties
<1>2. /\ ~(Len(bytes) < l + 1) /\ Decodes(code, TypeCode)
      /\ m = [substream_id |-> id, message_type |-> type, data |-> data]
    BY DEF SubstreamMessageFromBytes
<1>3. /\ m.substream_id = id /\ m.message_type = type /\ m.data = data
    BY <1>2
<1>4. TypeCode[type] = code
    BY <1>2, CodeOfDecoded
<1> HIDE DEF m, type, l
<1>5. l < Len(bytes) /\ l + 1 \in Nat /\ l + 1 <= Len(bytes) /\ 0 \in Nat /\ 0 <= l /\ l <= l + 1
    BY <1>1, <1>2
<1>6. PICK after \in Seq(Byte) : after = Drop(bytes, l + 1) /\ bytes = Slice(bytes, 0, l + 1) \o after
    BY <1>5, CutAt, Zenon
<1>7. Slice(bytes, 0, l + 1) = id \o <<code>> /\ Slice(bytes, 0, l + 1) \in Seq(Byte)
    <2>1. Slice(bytes, l, l + 1) = <<code>>
        BY <1>1, <1>5, SliceByte, Zenon
    <2>2. Slice(bytes, 0, l) \o Slice(bytes, l, l + 1) = Slice(bytes, 0, l + 1)
        BY <1>1, <1>5, SliceJoin, ZenonT(30)
    <2> QED  BY <2>1, <2>2, <1>5, CutAt, Zenon
<1>8. SubstreamMessageToBytes(m) = id \o <<code>> \o data
    BY <1>3, <1>4 DEF SubstreamMessageToBytes
<1> HIDE DEF code, id
<1>9. PICK front \in Seq(Byte) : front = id \o <<code>>
    BY <1>7, Zenon
<1>10. bytes = front \o after /\ SubstreamMessageToBytes(m) = front \o data
    BY <1>6, <1>7, <1>8, <1>9, Zenon
<1>11. CASE type = "Data"
    <2>1. data = after
        BY <1>6, <1>11
    <2>2. <<>> \in Seq(Byte) /\ bytes = SubstreamMessageToBytes(m) \o <<>>
        <3>1. bytes \o <<>> = bytes
            BY ConcatEmptySeq
        <3>2. SubstreamMessageToBytes(m) = bytes
            BY <2>1, <1>10, Zenon
        <3>3. <<>> \in Seq(Byte)
            OBVIOUS
        <3> QED  BY <3>1, <3>2, <3>3, Zenon
    <2> QED  BY <2>2 DEF m
<1>12. CASE type # "Data"
    <2>1. data = <<>>
        BY <1>12
    <2>2. front \o data = front
        BY <2>1, ConcatEmptySeq
    <2>3. bytes = SubstreamMessageToBytes(m) \o after /\ m.message_type # "Data"
        BY <2>2, <1>3, <1>10, <1>12, Zenon
    <2> QED  BY <2>3 DEF m
<1> QED  BY <1>11, <1>12

\* The same of TransportMessage::try_from_bytes.
LEMMA TransportSaid ==
    ASSUME NEW bytes \in Seq(Byte), TransportMessageFromBytes(bytes) # Error
    PROVE  LET m == TransportMessageFromBytes(bytes)
           IN  \E rest \in Seq(Byte) :
                  /\ bytes = TransportMessageToBytes(m) \o rest
                  /\ m.message.message_type = "Data" => rest = <<>>
<1> DEFINE c == CONNECTION_ID_LENGTH
           n == NONCE_BYTES_LEN
           message == SubstreamMessageFromBytes(Drop(bytes, c + n))
           nonce == Decoded(Slice(bytes, 0, n), NonceBytes)
           id == Slice(bytes, n, c + n)
           m == TransportMessageFromBytes(bytes)
<1>1. c \in Nat /\ n \in Nat /\ Len(bytes) \in Nat
    BY MessageAssumption, LenProperties
<1>2. /\ ~(Len(bytes) < (c + n) + 1) /\ message # Error
      /\ m = [nonce |-> nonce, id |-> id, message |-> message]
    BY DEF TransportMessageFromBytes
<1>3. m.nonce = nonce /\ m.id = id /\ m.message = message
    BY <1>2
<1> HIDE DEF c, n, m
<1>4. /\ c + n \in Nat /\ n <= c + n /\ c + n <= Len(bytes) /\ 0 <= n /\ n <= Len(bytes)
      /\ 0 \in Nat /\ n - 0 = n
    BY <1>1, <1>2
<1>5. NonceBytes[nonce] = Slice(bytes, 0, n)
    <2>1. Slice(bytes, 0, n) \in Bytes(n - 0)
        BY <1>1, <1>4, SliceType, Zenon
    <2>2. Decodes(Slice(bytes, 0, n), NonceBytes)
        BY <2>1, <1>4, MessageAssumption DEF Decodes, n
    <2> QED  BY <2>2, CodeOfDecoded, Zenon
<1>6. PICK after \in Seq(Byte) :
        after = Drop(bytes, c + n) /\ bytes = Slice(bytes, 0, c + n) \o after
    BY <1>4, CutAt, Zenon
<1>7. /\ Slice(bytes, 0, c + n) = Slice(bytes, 0, n) \o id
      /\ Slice(bytes, 0, c + n) \in Seq(Byte)
    <2>1. PICK k \in Nat : k = c + n /\ n <= k /\ k <= Len(bytes)
        BY <1>4
    <2>2. Slice(bytes, 0, n) \o Slice(bytes, n, k) = Slice(bytes, 0, k)
        BY <2>1, <1>1, <1>4, SliceJoin, ZenonT(30)
    <2>3. Slice(bytes, 0, k) \in Seq(Byte)
        BY <2>1, CutAt, Zenon
    <2> QED  BY <2>1, <2>2, <2>3
<1>8. PICK rest \in Seq(Byte) : /\ after = SubstreamMessageToBytes(message) \o rest
                                /\ message.message_type = "Data" => rest = <<>>
    BY <1>2, <1>6, SubstreamSaid
<1>9. SubstreamMessageToBytes(message) \in Seq(Byte)
    <2>1. message \in SubstreamMessage
        BY <1>2, <1>6, SubstreamDecodedType
    <2>2. message.message_type = "Data" => message.data # <<>>
        BY <1>2, <1>6, SubstreamDecodedType
    <2> HIDE DEF message
    <2> QED  BY <2>1, <2>2, <1>8, SubstreamRoundTrip
<1>10. PICK front \in Seq(Byte), b \in Seq(Byte) :
        front = Slice(bytes, 0, c + n) /\ b = SubstreamMessageToBytes(message)
    BY <1>7, <1>9, Zenon
<1>11. TransportMessageToBytes(m) = front \o b
    BY <1>3, <1>5, <1>7, <1>10, Zenon DEF TransportMessageToBytes
<1>12. front \o (b \o rest) = (front \o b) \o rest
    BY Associative, Zenon
<1>13. bytes = TransportMessageToBytes(m) \o rest
    BY <1>6, <1>8, <1>10, <1>11, <1>12, Zenon
<1>14. m.message.message_type = "Data" => rest = <<>>
    BY <1>3, <1>8, Zenon
<1> QED  BY <1>13, <1>14 DEF m

\* The bytes that ConnectionMessage::try_from_bytes accepts are the encoding of the
\* message that it returns.
LEMMA ConnectionSaid ==
    ASSUME NEW bytes \in Seq(Byte), ConnectionMessageFromBytes(bytes) # Error
    PROVE  bytes = ConnectionMessageToBytes(ConnectionMessageFromBytes(bytes))
<1> DEFINE c == CONNECTION_ID_LENGTH
           prefix == bytes[c + 1]
           from == c + 1
           to == IF prefix = 1 THEN from + RECIPIENT_LENGTH ELSE from
           id == Slice(bytes, 0, c)
           recipient == IF prefix = 1 THEN Decoded(Slice(bytes, from, to), RecipientBytes) ELSE None
           peer_id == Decoded(Drop(bytes, to), PeerIdBytes)
           m == ConnectionMessageFromBytes(bytes)
<1>1. c \in Nat /\ RECIPIENT_LENGTH \in Nat /\ Len(bytes) \in Nat
    BY MessageAssumption, LenProperties
<1>2. /\ ~(Len(bytes) < from) /\ prefix \in {0, 1} /\ ~(Len(bytes) < to + 1)
      /\ prefix = 1 => Decodes(Slice(bytes, from, to), RecipientBytes)
      /\ Decodes(Drop(bytes, to), PeerIdBytes)
      /\ m = [id |-> id, recipient |-> recipient, peer_id |-> peer_id]
    BY DEF ConnectionMessageFromBytes
<1>3. m.id = id /\ m.recipient = recipient /\ m.peer_id = peer_id
    BY <1>2
<1> HIDE DEF m, c, prefix
<1>4. /\ to \in Nat /\ from \in Nat /\ from <= to /\ to <= Len(bytes)
      /\ c < Len(bytes) /\ 0 \in Nat /\ 0 <= c /\ c <= to /\ c <= from
    BY <1>1, <1>2
<1>5. PeerIdBytes[peer_id] = Drop(bytes, to)
    BY <1>2, CodeOfDecoded
<1>6. Slice(bytes, c, from) = <<prefix>>
    BY <1>1, <1>4, SliceByte DEF prefix
<1>7. prefix = 1 => /\ RecipientBytes[recipient] = Slice(bytes, from, to)
                    /\ recipient # None
    <2> SUFFICES ASSUME prefix = 1
                 PROVE  RecipientBytes[recipient] = Slice(bytes, from, to) /\ recipient # None
        OBVIOUS
    <2>1. PICK s : s = Slice(bytes, from, to) /\ recipient = Decoded(s, RecipientBytes)
        OBVIOUS
    <2>2. RecipientBytes[recipient] = s /\ recipient \in DOMAIN RecipientBytes
        BY <2>1, <1>2, CodeOfDecoded, DecodedType
    <2> QED  BY <2>1, <2>2, MessageAssumption
<1>8. prefix # 1 => to = from /\ prefix = 0 /\ recipient = None
    BY <1>2
<1> HIDE DEF to, from, recipient, peer_id, id
<1>9. bytes = Slice(bytes, 0, to) \o Drop(bytes, to)
    BY <1>4, CutAt, Zenon
<1>10. Slice(bytes, 0, to) = id \o Slice(bytes, c, to)
    BY <1>1, <1>4, SliceJoin, ZenonT(30) DEF id
<1>11. Slice(bytes, c, to) = IF m.recipient = None THEN <<0>>
                                                   ELSE <<1>> \o RecipientBytes[m.recipient]
    <2>1. CASE prefix = 1
        <3>1. Slice(bytes, c, from) \o Slice(bytes, from, to) = Slice(bytes, c, to)
            BY <1>1, <1>4, SliceJoin, ZenonT(30)
        <3> QED  BY <2>1, <3>1, <1>3, <1>6, <1>7, Zenon
    <2>2. CASE prefix # 1
        BY <2>2, <1>3, <1>6, <1>8, Zenon
    <2> QED  BY <2>1, <2>2
<1>12. bytes = ConnectionMessageToBytes(m)
    BY <1>3, <1>5, <1>9, <1>10, <1>11, Zenon DEF ConnectionMessageToBytes
<1> QED  BY <1>12 DEF m

\* The bytes that parse_message_data accepts begin with the encoding of the message that it
\* returns, and nothing follows it unless it shows its own end.
LEMMA DecodedIsSaid ==
    ASSUME NEW bytes \in Seq(Byte), ParseMessageData(bytes) # Error
    PROVE  LET m == ParseMessageData(bytes)
           IN  \E rest \in Seq(Byte) :
                  bytes = MessageToBytes(m) \o rest /\ (rest = <<>> \/ ShowsItsEnd(m))
<1> DEFINE type == Decoded(bytes[1], Tag)
           after == Drop(bytes, 1)
           body == IF type = "TransportMessage" THEN TransportMessageFromBytes(after)
                                                ELSE ConnectionMessageFromBytes(after)
           m == ParseMessageData(bytes)
<1>1. /\ ~(Len(bytes) < 2) /\ Decodes(bytes[1], Tag) /\ body # Error
      /\ m = [type |-> type, body |-> body]
    BY DEF ParseMessageData, MessageFromBytes
<1>2. m.type = type /\ m.body = body
    BY <1>1
<1>3. Tag[type] = bytes[1] /\ type \in DOMAIN Tag
    BY <1>1, CodeOfDecoded, DecodedType
<1>4. 0 < Len(bytes) /\ 1 <= Len(bytes) /\ 0 \in Nat /\ 1 \in Nat /\ 0 + 1 = 1
    BY <1>1, LenProperties
<1>5. bytes = <<bytes[1]>> \o after /\ after \in Seq(Byte)
    <2>1. Slice(bytes, 0, 1) = <<bytes[1]>>
        BY <1>4, SliceByte
    <2> QED  BY <2>1, <1>4, CutAt, Zenon
<1> HIDE DEF m, type, after
<1>6. PICK tag \in Seq(Byte) : tag = <<Tag[type]>>
    BY <1>3, CodesAreInjective, OneByte
<1>7. CASE type = "TransportMessage"
    <2>1. body = TransportMessageFromBytes(after)
        BY <1>7
    <2>2. PICK rest \in Seq(Byte) : /\ after = TransportMessageToBytes(body) \o rest
                                    /\ body.message.message_type = "Data" => rest = <<>>
        BY <2>1, <1>1, <1>5, TransportSaid
    <2>3. TransportMessageToBytes(body) \in Seq(Byte)
        <3>1. /\ body \in TransportMessage
              /\ body.message.message_type = "Data" => body.message.data # <<>>
            BY <2>1, <1>1, <1>5, TransportDecodedType
        <3> HIDE DEF body
        <3> QED  BY <3>1, <2>2, TransportRoundTrip
    <2> HIDE DEF body
    <2>4. PICK b \in Seq(Byte) : b = TransportMessageToBytes(body)
        BY <2>3
    <2>5. MessageToBytes(m) = tag \o b
        BY <2>4, <1>2, <1>6, <1>7 DEF MessageToBytes
    <2>6. tag \o (b \o rest) = (tag \o b) \o rest
        BY Associative, Zenon
    <2>7. bytes = MessageToBytes(m) \o rest
        BY <2>2, <2>4, <2>5, <2>6, <1>3, <1>5, <1>6, Zenon
    <2>8. rest = <<>> \/ ShowsItsEnd(m)
        BY <2>2, <1>2, <1>7 DEF ShowsItsEnd
    <2> QED  BY <2>7, <2>8 DEF m
<1>8. CASE type # "TransportMessage"
    <2>1. body = ConnectionMessageFromBytes(after)
        BY <1>8
    <2>2. after = ConnectionMessageToBytes(body)
        BY <2>1, <1>1, <1>5, ConnectionSaid
    <2> HIDE DEF body
    <2>3. MessageToBytes(m) = bytes
        BY <2>2, <1>2, <1>3, <1>5, <1>8 DEF MessageToBytes
    <2>4. <<>> \in Seq(Byte) /\ bytes \o <<>> = bytes
        BY ConcatEmptySeq
    <2> QED  BY <2>3, <2>4, Zenon DEF m
<1> QED  BY <1>7, <1>8

\* The decoders accept what the bytes say, and nothing else: parse_message_data returns m
\* exactly when the bytes are m's encoding, or begin with it if m has no data and so shows
\* its own end, and m is not a Data message without data.
THEOREM Decoding ==
    \A bytes \in Seq(Byte), m \in Message : ParseMessageData(bytes) = m <=> Says(bytes, m)
<1> SUFFICES ASSUME NEW bytes \in Seq(Byte), NEW m \in Message
             PROVE  ParseMessageData(bytes) = m <=> Says(bytes, m)
    OBVIOUS
<1>1. PICK b \in Seq(Byte) : b = MessageToBytes(m) /\ Len(b) \in Nat /\ Len(bytes) \in Nat
    BY EncodingType, LenProperties
<1>2. Says(bytes, m) <=> /\ ~EmptyData(m)
                         /\ Len(b) <= Len(bytes) /\ Slice(bytes, 0, Len(b)) = b
                         /\ Len(b) = Len(bytes) \/ ShowsItsEnd(m)
    BY <1>1 DEF Says
<1>3. ASSUME ParseMessageData(bytes) = m PROVE Says(bytes, m)
    <2>1. m # Error
        BY MessageAssumption
    <2>2. ~EmptyData(m)
        BY <2>1, <1>3, DecodedIsMessage
    <2>3. PICK rest \in Seq(Byte) : bytes = b \o rest /\ (rest = <<>> \/ ShowsItsEnd(m))
        BY <2>1, <1>1, <1>3, DecodedIsSaid
    <2>4. Slice(bytes, 0, Len(b)) = b
        BY <2>3, SplitConcat
    <2>5. Len(bytes) = Len(b) + Len(rest) /\ Len(rest) \in Nat /\ (rest = <<>> => Len(rest) = 0)
        BY <2>3, ConcatProperties, LenProperties
    <2>6. Len(b) <= Len(bytes) /\ (rest = <<>> => Len(b) = Len(bytes))
        BY <2>5, <1>1
    <2> QED  BY <2>2, <2>3, <2>4, <2>6, <1>2
<1>4. ASSUME Says(bytes, m) PROVE ParseMessageData(bytes) = m
    <2>1. /\ ~EmptyData(m) /\ Len(b) <= Len(bytes) /\ Slice(bytes, 0, Len(b)) = b
          /\ Len(b) = Len(bytes) \/ ShowsItsEnd(m)
        BY <1>2, <1>4
    <2>2. PICK rest \in Seq(Byte) : bytes = b \o rest /\ Len(rest) = Len(bytes) - Len(b)
        <3>1. /\ bytes = Slice(bytes, 0, Len(b)) \o Drop(bytes, Len(b))
              /\ Drop(bytes, Len(b)) \in Seq(Byte)
              /\ Len(Drop(bytes, Len(b))) = Len(bytes) - Len(b)
            BY <2>1, <1>1, CutAt, Zenon
        <3> QED  BY <2>1, <3>1, Zenon
    <2>3. rest = <<>> \/ ShowsItsEnd(m)
        <3>1. Len(b) = Len(bytes) => Len(rest) = 0
            BY <2>2, <1>1
        <3> QED  BY <2>1, <3>1, EmptySeq
    <2> QED  BY <2>1, <2>2, <2>3, <1>1, SaidIsDecoded
<1> QED  BY <1>3, <1>4
=============================================================================
