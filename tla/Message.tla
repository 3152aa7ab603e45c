------------------------------ MODULE Message ------------------------------
(***************************************************************************)
(* The wire format of src/src/message.rs: what the encoders write and what *)
(* the decoders accept.  All integers on the wire are bytes; the lengths   *)
(* of the fields are parameters.                                           *)
(*                                                                         *)
(* The encodings that message.rs takes from libraries are functions from   *)
(* values to byte sequences, of which only the shape is known: the nonce   *)
(* (u64::to_be_bytes), the Nym address (Recipient::to_bytes) and the peer  *)
(* ID (PeerId::to_bytes).                                                  *)
(***************************************************************************)
EXTENDS Integers, Sequences

CONSTANTS
    Byte,                \* the values of a byte
    CONNECTION_ID_LENGTH,
    SUBSTREAM_ID_LENGTH,
    RECIPIENT_LENGTH,
    NONCE_BYTES_LEN,
    NonceBytes,          \* [nonces -> their big-endian encodings]
    RecipientBytes,      \* [Nym addresses -> their encodings]
    PeerIdBytes,         \* [peer IDs -> their encodings]
    None,                \* Option::None
    Error                \* what a decoder returns for bytes it refuses

Injective(f) == \A x, y \in DOMAIN f : f[x] = f[y] => x = y

Bytes(n) == [1 .. n -> Byte]

-----------------------------------------------------------------------------
(***************************************************************************)
(* The messages.                                                           *)
(***************************************************************************)
MessageType == {"OpenRequest", "OpenResponse", "Close", "Data"}

\* Only a Data message has data.
SubstreamMessage ==
    {m \in [substream_id : Bytes(SUBSTREAM_ID_LENGTH), message_type : MessageType,
            data : Seq(Byte)] : m.message_type # "Data" => m.data = <<>>}

TransportMessage ==
    [nonce : DOMAIN NonceBytes, id : Bytes(CONNECTION_ID_LENGTH), message : SubstreamMessage]

ConnectionMessage ==
    [id : Bytes(CONNECTION_ID_LENGTH), recipient : DOMAIN RecipientBytes \cup {None},
     peer_id : DOMAIN PeerIdBytes]

Message ==
    [type : {"ConnectionRequest", "ConnectionResponse"}, body : ConnectionMessage]
        \cup [type : {"TransportMessage"}, body : TransportMessage]

ASSUME MessageAssumption ==
    /\ Byte \subseteq Nat /\ 0 .. 3 \subseteq Byte
    /\ CONNECTION_ID_LENGTH \in Nat \ {0}
    /\ SUBSTREAM_ID_LENGTH \in Nat \ {0}
    /\ RECIPIENT_LENGTH \in Nat \ {0}
    /\ NONCE_BYTES_LEN \in Nat \ {0}
    \* from_be_bytes takes any NONCE_BYTES_LEN bytes.
    /\ Injective(NonceBytes)
    /\ {NonceBytes[n] : n \in DOMAIN NonceBytes} = Bytes(NONCE_BYTES_LEN)
    /\ Injective(RecipientBytes)
    /\ \A r \in DOMAIN RecipientBytes : RecipientBytes[r] \in Bytes(RECIPIENT_LENGTH)
    /\ Injective(PeerIdBytes)
    /\ \A p \in DOMAIN PeerIdBytes : PeerIdBytes[p] \in Seq(Byte) \ {<<>>}
    /\ None \notin DOMAIN RecipientBytes
    /\ Error \notin SubstreamMessage \cup TransportMessage \cup ConnectionMessage \cup Message

\* What poll_write of an empty buffer sends.
EmptyData(m) ==
    /\ m.type = "TransportMessage"
    /\ m.body.message.message_type = "Data"
    /\ m.body.message.data = <<>>
-----------------------------------------------------------------------------
(***************************************************************************)
(* The encoders.                                                           *)
(***************************************************************************)
\* SubstreamMessageType::to_u8
TypeCode == [OpenRequest |-> 0, OpenResponse |-> 1, Close |-> 2, Data |-> 3]

SubstreamMessageToBytes(m) == m.substream_id \o <<TypeCode[m.message_type]>> \o m.data

TransportMessageToBytes(m) ==
    NonceBytes[m.nonce] \o m.id \o SubstreamMessageToBytes(m.message)

\* An absent recipient is not marked.
ConnectionMessageToBytes_NoPrefix(m) ==
    m.id \o (IF m.recipient = None THEN <<>> ELSE <<1>> \o RecipientBytes[m.recipient])
         \o PeerIdBytes[m.peer_id]

ConnectionMessageToBytes(m) ==
    m.id \o (IF m.recipient = None THEN <<0>> ELSE <<1>> \o RecipientBytes[m.recipient])
         \o PeerIdBytes[m.peer_id]

\* The tag of a Message.
Tag == [ConnectionRequest |-> 0, ConnectionResponse |-> 1, TransportMessage |-> 2]

MessageToBytes(m) ==
    <<Tag[m.type]>> \o (IF m.type = "TransportMessage" THEN TransportMessageToBytes(m.body)
                                                       ELSE ConnectionMessageToBytes(m.body))
-----------------------------------------------------------------------------
(***************************************************************************)
(* The decoders.                                                           *)
(***************************************************************************)
\* The Rust slices bytes[from..to] and bytes[from..].
Slice(bytes, from, to) == SubSeq(bytes, from + 1, to)
Drop(bytes, from) == Slice(bytes, from, Len(bytes))

\* The name that a table of codes gives to a byte; the value with these bytes.
Decodes(bytes, table) == \E x \in DOMAIN table : table[x] = bytes
Decoded(bytes, table) == CHOOSE x \in DOMAIN table : table[x] = bytes

\* What follows an OpenRequest, an OpenResponse or a Close is ignored.
SubstreamMessageFromBytes(bytes) ==
    LET code == bytes[SUBSTREAM_ID_LENGTH + 1]
        type == Decoded(code, TypeCode)
    IN  IF \/ Len(bytes) < SUBSTREAM_ID_LENGTH + 1
           \/ ~Decodes(code, TypeCode)
           \/ type = "Data" /\ Len(bytes) < SUBSTREAM_ID_LENGTH + 2
        THEN Error
        ELSE [substream_id |-> Slice(bytes, 0, SUBSTREAM_ID_LENGTH),
              message_type |-> type,
              data |-> IF type = "Data" THEN Drop(bytes, SUBSTREAM_ID_LENGTH + 1) ELSE <<>>]

TransportMessageFromBytes(bytes) ==
    LET MIN_CONNECTION_MESSAGE_LEN == CONNECTION_ID_LENGTH + NONCE_BYTES_LEN
        message == SubstreamMessageFromBytes(Drop(bytes, MIN_CONNECTION_MESSAGE_LEN))
    IN  IF Len(bytes) < MIN_CONNECTION_MESSAGE_LEN + 1 \/ message = Error
        THEN Error
        ELSE [nonce |-> Decoded(Slice(bytes, 0, NONCE_BYTES_LEN), NonceBytes),
              id |-> Slice(bytes, NONCE_BYTES_LEN, MIN_CONNECTION_MESSAGE_LEN),
              message |-> message]

\* The peer ID, last, takes all the bytes that are left.
ConnectionMessageFromBytes(bytes) ==
    LET prefix == bytes[CONNECTION_ID_LENGTH + 1]
        from == CONNECTION_ID_LENGTH + 1
        to == IF prefix = 1 THEN from + RECIPIENT_LENGTH ELSE from
    IN  IF \/ Len(bytes) < from
           \/ prefix \notin {0, 1}
           \/ Len(bytes) < to + 1
           \/ prefix = 1 /\ ~Decodes(Slice(bytes, from, to), RecipientBytes)
           \/ ~Decodes(Drop(bytes, to), PeerIdBytes)
        THEN Error
        ELSE [id |-> Slice(bytes, 0, CONNECTION_ID_LENGTH),
              recipient |-> IF prefix = 1
                            THEN Decoded(Slice(bytes, from, to), RecipientBytes) ELSE None,
              peer_id |-> Decoded(Drop(bytes, to), PeerIdBytes)]

\* Message::try_from_bytes
MessageFromBytes(bytes) ==
    LET type == Decoded(bytes[1], Tag)
        body == IF type = "TransportMessage" THEN TransportMessageFromBytes(Drop(bytes, 1))
                                             ELSE ConnectionMessageFromBytes(Drop(bytes, 1))
    IN  IF Len(bytes) < 2 \/ ~Decodes(bytes[1], Tag) \/ body = Error
        THEN Error
        ELSE [type |-> type, body |-> body]

ParseMessageData(bytes) == IF Len(bytes) < 2 THEN Error ELSE MessageFromBytes(bytes)
-----------------------------------------------------------------------------
\* What the bytes say, without the decoders: they are the encoding of m.  If it is one
\* that shows its own end, anything may follow it.  An empty Data message is not said.
ShowsItsEnd(m) == m.type = "TransportMessage" /\ m.body.message.message_type # "Data"
Says(bytes, m) ==
    LET b == MessageToBytes(m)
    IN  /\ ~EmptyData(m)
        /\ Len(b) <= Len(bytes) /\ Slice(bytes, 0, Len(b)) = b
        /\ Len(b) = Len(bytes) \/ ShowsItsEnd(m)
=============================================================================
