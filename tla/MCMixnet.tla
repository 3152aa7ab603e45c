------------------------------ MODULE MCMixnet ------------------------------
(***************************************************************************)
(* Instances of Mixnet for TLC: short fields, of different lengths where   *)
(* the decoders could mix them up, and a byte that is no code of anything. *)
(***************************************************************************)
EXTENDS MixnetProofs

MCByte == 0 .. 4
MCNonceBytes == [n \in 0 .. 24 |-> <<n \div 5, n % 5>>]
MCRecipientBytes == [alice |-> <<1, 0, 3>>]
\* Like a multihash, a peer ID says how long it is.
MCPeerIdBytes == [alice |-> <<0, 1, 3>>, bob |-> <<0, 2, 1, 1>>]

Conn(type, recipient, peer_id) ==
    [type |-> type, body |-> [id |-> <<1, 2>>, recipient |-> recipient, peer_id |-> peer_id]]
Transported(nonce, message_type, data) ==
    [type |-> "TransportMessage",
     body |-> [nonce |-> nonce, id |-> <<2, 1>>,
               message |-> [substream_id |-> <<3>>, message_type |-> message_type, data |-> data]]]

\* No frame from elsewhere says the same.
MCOutgoing == {Conn("ConnectionRequest", "alice", "alice"), Transported(8, "Data", <<4>>)}

\* Messages of every shape; closed under cutting the data of a Data message.
Request == Conn("ConnectionRequest", "alice", "bob")
Response == Conn("ConnectionResponse", None, "bob")
Close == Transported(7, "Close", <<>>)
Peers ==
    {Request, Response, Close, Transported(5, "OpenResponse", <<>>)}
        \cup {Transported(7, "Data", d) : d \in {<<>>, <<4>>}}
MCKnown == Peers \cup MCOutgoing

\* Encodings cut short by a byte or before a field, or with a code that does not exist:
\* the tag, the prefix or the first byte of the recipient, the type.
Damaged ==
    {Front(MessageToBytes(m)) : m \in {Request, Response, Close}}
        \cup {<<2>>, <<0, 1, 2>>, <<0, 1, 2, 1, 1, 0, 3>>, <<2, 1, 2, 2, 1>>}
        \cup {[MessageToBytes(Request) EXCEPT ![k] = 4] : k \in {1, 4, 5}}
        \cup {[MessageToBytes(Close) EXCEPT ![7] = 4]}
\* The decoder does not look behind a Close.
Longer == {MessageToBytes(Close) \o <<4>>}

\* One of these frames, and one more to interrupt a send.
MCForeign ==
    <<{Received(b) : b \in Damaged \cup Longer \cup {MessageToBytes(m) : m \in Peers}}
        \cup [kind : {"Error", "Other", "Unreadable"}, bytes : {<<>>}],
      [kind : {"Other"}, bytes : {<<>>}]>>
=============================================================================
