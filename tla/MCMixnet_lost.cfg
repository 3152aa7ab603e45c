SPECIFICATION Spec
CONSTANTS
    Byte <- MCByte
    CONNECTION_ID_LENGTH = 2
    SUBSTREAM_ID_LENGTH = 1
    RECIPIENT_LENGTH = 3
    NONCE_BYTES_LEN = 2
    NonceBytes <- MCNonceBytes
    RecipientBytes <- MCRecipientBytes
    PeerIdBytes <- MCPeerIdBytes
    None = None
    Error = Error
    Outgoing <- MCOutgoing
    Known <- MCKnown
    Foreign <- MCForeign
    MaxSent = 2
INVARIANT
    NothingIsLost
CHECK_DEADLOCK FALSE
