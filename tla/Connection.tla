----------------------------- MODULE Connection -----------------------------
(***************************************************************************)
(* The two ends of an established connection: Connection, a StreamMuxer    *)
(* (src/src/connection.rs), and its Substreams (src/src/substream.rs).     *)
(*                                                                         *)
(* Each end numbers what it sends with one counter that its Connection and *)
(* all of its substreams share.  The transports in between are the ordered *)
(* link that Transport is shown to implement: an end is handed the         *)
(* messages of the other one by nonce, and none before all lower nonces    *)
(* have come.  So sent[e] is the sequence of what e sent, indexed by nonce,*)
(* in which a nonce that was fetched and never used is a hole; fetching a  *)
(* nonce and sending under it are one step, since a message that is sent   *)
(* late only comes late.                                                   *)
(*                                                                         *)
(* Data is a number: the count of the writes on its substream.  How bytes  *)
(* are read is the subject of module Substream.                            *)
(***************************************************************************)
EXTENDS Integers, Sequences

CONSTANTS
    SubstreamId,   \* the IDs that SubstreamId::generate may yield
    MaxData,       \* bound: writes on a substream by one end
    MaxHoles       \* bound: nonces that one end wastes

ASSUME ConnectionAssumption == MaxData \in Nat /\ MaxHoles \in Nat

End == {"dialer", "listener"}

Other(e) == IF e = "dialer" THEN "listener" ELSE "dialer"

Hole == [type |-> "none"]
Message == [type : {"OpenRequest", "OpenResponse", "Close"}, id : SubstreamId]
             \cup [type : {"Data"}, id : SubstreamId, data : 1 .. MaxData]

VARIABLES
    \* Fields of Connection.
    muxer,                  \* open, failed (an error or a panic), or dropped
    pending_substreams,     \* [End -> SUBSET SubstreamId]
    substream_inbound_txs,  \* the keys of the map
    substream_close_txs,    \* the keys of the map
    inbound_open,           \* [End -> Seq(SubstreamId)]: substreams for poll_inbound
    close_rx,               \* [End -> Seq(SubstreamId)]: remotely closed, for poll_close
    \* Fields of the Substreams.
    substream,              \* queued in inbound_open, held by the application, dropped
    inbound_rx,             \* [End -> [SubstreamId -> Seq(data)]]
    close_signal,           \* the oneshot close_rx holds a value
    closed,                 \* [End -> [SubstreamId -> BOOLEAN]]
    \* The link, and what the applications have done.
    sent,                   \* [End -> Seq(Message or Hole)]: indexed by nonce
    handled,                \* [End -> Nat]: messages that Connection::poll has taken
    written,                \* [End -> [SubstreamId -> Nat]]: writes so far
    read,                   \* [End -> [SubstreamId -> Nat]]: the data read last
    \* Errors and panics that no peer running this code should cause.
    alarms

muxerVars == <<muxer, pending_substreams, substream_inbound_txs, substream_close_txs,
               inbound_open, close_rx>>
substreamVars == <<substream, inbound_rx, close_signal, closed>>
appVars == <<written, read>>
vars == <<muxerVars, substreamVars, sent, handled, appVars, alarms>>

TypeOK ==
    /\ muxer \in [End -> {"open", "failed", "dropped"}]
    /\ pending_substreams \in [End -> SUBSET SubstreamId]
    /\ substream_inbound_txs \in [End -> SUBSET SubstreamId]
    /\ substream_close_txs \in [End -> SUBSET SubstreamId]
    /\ inbound_open \in [End -> Seq(SubstreamId)]
    /\ close_rx \in [End -> Seq(SubstreamId)]
    /\ substream \in [End -> [SubstreamId -> {"none", "queued", "held", "dropped"}]]
    /\ inbound_rx \in [End -> [SubstreamId -> Seq(1 .. MaxData)]]
    /\ close_signal \in [End -> [SubstreamId -> BOOLEAN]]
    /\ closed \in [End -> [SubstreamId -> BOOLEAN]]
    /\ sent \in [End -> Seq(Message \cup {Hole})]
    /\ handled \in [End -> Nat]
    /\ written \in [End -> [SubstreamId -> 0 .. MaxData]]
    /\ read \in [End -> [SubstreamId -> 0 .. MaxData]]
    /\ alarms \subseteq {"SubstreamIdExists", "SubstreamIdDoesNotExist",
                         "must have a substream channel"}

\* Connection::new at both ends.
Init ==
    /\ muxer = [e \in End |-> "open"]
    /\ pending_substreams = [e \in End |-> {}]
    /\ substream_inbound_txs = [e \in End |-> {}]
    /\ substream_close_txs = [e \in End |-> {}]
    /\ inbound_open = [e \in End |-> <<>>]
    /\ close_rx = [e \in End |-> <<>>]
    /\ substream = [e \in End |-> [s \in SubstreamId |-> "none"]]
    /\ inbound_rx = [e \in End |-> [s \in SubstreamId |-> <<>>]]
    /\ close_signal = [e \in End |-> [s \in SubstreamId |-> FALSE]]
    /\ closed = [e \in End |-> [s \in SubstreamId |-> FALSE]]
    /\ sent = [e \in End |-> <<>>]
    /\ handled = [e \in End |-> 0]
    /\ written = [e \in End |-> [s \in SubstreamId |-> 0]]
    /\ read = [e \in End |-> [s \in SubstreamId |-> 0]]
    /\ alarms = {}

\* message_nonce.fetch_add(1), then a send on the outbound channel.
Send(e, msg) == sent' = [sent EXCEPT ![e] = Append(@, msg)]
-----------------------------------------------------------------------------
(***************************************************************************)
(* The StreamMuxer methods that the application calls.                     *)
(***************************************************************************)

\* new_substream: the channels of a new substream, and the substream itself.
NewSubstream(e, s, where) ==
    /\ substream_inbound_txs' = [substream_inbound_txs EXCEPT ![e] = @ \cup {s}]
    /\ substream_close_txs' = [substream_close_txs EXCEPT ![e] = @ \cup {s}]
    /\ substream' = [substream EXCEPT ![e][s] = where]

\* poll_outbound: a substream with a fresh random ID, usable at once.
PollOutbound(e, s) ==
    /\ muxer[e] = "open"
    /\ \A f \in End : substream[f][s] = "none"
    /\ NewSubstream(e, s, "held")
    /\ pending_substreams' = [pending_substreams EXCEPT ![e] = @ \cup {s}]
    /\ Send(e, [type |-> "OpenRequest", id |-> s])
    /\ UNCHANGED <<muxer, inbound_open, close_rx, inbound_rx, close_signal, closed, handled,
                   appVars, alarms>>

\* poll_inbound: a substream that the remote end opened.
PollInbound(e) ==
    /\ muxer[e] = "open"
    /\ inbound_open[e] # <<>>
    /\ inbound_open' = [inbound_open EXCEPT ![e] = Tail(@)]
    /\ substream' = [substream EXCEPT ![e][Head(inbound_open[e])] = "held"]
    /\ UNCHANGED <<muxer, pending_substreams, substream_inbound_txs, substream_close_txs, close_rx,
                   inbound_rx, close_signal, closed, sent, handled, appVars, alarms>>

\* poll_close: ready whenever some substream was closed by the remote end.
PollClose(e) ==
    /\ muxer[e] = "open"
    /\ close_rx[e] # <<>>
    /\ close_rx' = [close_rx EXCEPT ![e] = Tail(@)]
    /\ UNCHANGED <<muxer, pending_substreams, substream_inbound_txs, substream_close_txs,
                   inbound_open, substreamVars, sent, handled, appVars, alarms>>

\* The application drops the Connection, or loses it to an error or a panic: the
\* channels to the substreams go, and so do the substreams nobody has taken.
DropConnection(e) ==
    /\ muxer[e] # "dropped"
    /\ muxer' = [muxer EXCEPT ![e] = "dropped"]
    /\ pending_substreams' = [pending_substreams EXCEPT ![e] = {}]
    /\ substream_inbound_txs' = [substream_inbound_txs EXCEPT ![e] = {}]
    /\ substream_close_txs' = [substream_close_txs EXCEPT ![e] = {}]
    /\ inbound_open' = [inbound_open EXCEPT ![e] = <<>>]
    /\ close_rx' = [close_rx EXCEPT ![e] = <<>>]
    /\ substream' = [substream EXCEPT ![e] =
                        [s \in SubstreamId |-> IF @[s] = "queued" THEN "dropped" ELSE @[s]]]
    /\ UNCHANGED <<inbound_rx, close_signal, closed, sent, handled, appVars, alarms>>
-----------------------------------------------------------------------------
(***************************************************************************)
(* Connection::poll takes the messages of the inbound channel.             *)
(***************************************************************************)

\* A Connection that takes no message while a substream waits for poll_inbound.
HasInbound_HoldsBack(e) ==
    /\ muxer[e] = "open"
    /\ inbound_open[e] = <<>>
    /\ handled[e] < Len(sent[Other(e)])
    /\ sent[Other(e)][handled[e] + 1] # Hole

\* The link has a message for e.
HasInbound(e) ==
    /\ muxer[e] = "open"
    /\ handled[e] < Len(sent[Other(e)])
    /\ sent[Other(e)][handled[e] + 1] # Hole

\* OpenRequest: new_substream, the OpenResponse, and the substream goes to poll_inbound.
HandleOpenRequest(e, msg) ==
    /\ msg.type = "OpenRequest"
    /\ IF msg.id \in substream_inbound_txs[e]
         THEN /\ muxer' = [muxer EXCEPT ![e] = "failed"]
              /\ alarms' = alarms \cup {"SubstreamIdExists"}
              /\ UNCHANGED <<substream_inbound_txs, substream_close_txs, substream, sent,
                             inbound_open>>
         ELSE /\ NewSubstream(e, msg.id, "queued")
              /\ Send(e, [type |-> "OpenResponse", id |-> msg.id])
              /\ inbound_open' = [inbound_open EXCEPT ![e] = Append(@, msg.id)]
              /\ UNCHANGED <<muxer, alarms>>
    /\ UNCHANGED <<pending_substreams, close_rx, inbound_rx, close_signal, closed>>

\* OpenResponse that only looks the substream up.
HandleOpenResponse_NoRemove(e, msg) ==
    /\ msg.type = "OpenResponse"
    /\ UNCHANGED <<muxerVars, substreamVars, sent, alarms>>

\* OpenResponse: the substream is no longer pending.
HandleOpenResponse(e, msg) ==
    /\ msg.type = "OpenResponse"
    /\ pending_substreams' = [pending_substreams EXCEPT ![e] = @ \ {msg.id}]
    /\ UNCHANGED <<muxer, substream_inbound_txs, substream_close_txs, inbound_open, close_rx,
                   substreamVars, sent, alarms>>

\* handle_close that leaves the sender of the close signal in its map.
HandleClose_KeepsCloseTx(e, msg) ==
    /\ msg.type = "Close"
    /\ substream_inbound_txs' = [substream_inbound_txs EXCEPT ![e] = @ \ {msg.id}]
    /\ close_signal' = [close_signal EXCEPT ![e][msg.id] = TRUE]
    /\ close_rx' = [close_rx EXCEPT ![e] = Append(@, msg.id)]
    /\ UNCHANGED <<muxer, alarms, substream_close_txs, pending_substreams, inbound_open, substream,
                   inbound_rx, closed, sent>>

\* handle_close: an unknown ID is an error.  A known one loses both channels, and its
\* substream is told, unless that is gone: then the unwrap on the oneshot send panics.
HandleClose(e, msg) ==
    /\ msg.type = "Close"
    /\ substream_inbound_txs' = [substream_inbound_txs EXCEPT ![e] = @ \ {msg.id}]
    /\ substream_close_txs' = [substream_close_txs EXCEPT ![e] =
                                  IF msg.id \in substream_inbound_txs[e] THEN @ \ {msg.id} ELSE @]
    /\ IF msg.id \in substream_inbound_txs[e] /\ substream[e][msg.id] # "dropped"
         THEN /\ close_signal' = [close_signal EXCEPT ![e][msg.id] = TRUE]
              /\ close_rx' = [close_rx EXCEPT ![e] = Append(@, msg.id)]
              /\ UNCHANGED muxer
         ELSE /\ muxer' = [muxer EXCEPT ![e] = "failed"]
              /\ UNCHANGED <<close_signal, close_rx>>
    /\ alarms' = IF msg.id \in substream_inbound_txs[e] THEN alarms
                 ELSE alarms \cup {"SubstreamIdDoesNotExist"}
    /\ UNCHANGED <<pending_substreams, inbound_open, substream, inbound_rx, closed, sent>>

\* Data for a substream that poll_inbound has not returned yet is thrown away.
HandleData_OnlyAccepted(e, msg) ==
    /\ msg.type = "Data"
    /\ inbound_rx' = [inbound_rx EXCEPT ![e][msg.id] =
                         IF substream[e][msg.id] = "held" THEN Append(@, msg.data) ELSE @]
    /\ UNCHANGED <<muxerVars, substream, close_signal, closed, sent, alarms>>

\* Data: to the substream's channel; that the substream may be gone is ignored.
HandleData(e, msg) ==
    /\ msg.type = "Data"
    /\ inbound_rx' = [inbound_rx EXCEPT ![e][msg.id] =
                         IF msg.id \in substream_inbound_txs[e] /\ substream[e][msg.id] # "dropped"
                           THEN Append(@, msg.data) ELSE @]
    /\ IF msg.id \in substream_inbound_txs[e]
         THEN UNCHANGED <<muxer, alarms>>
         ELSE /\ muxer' = [muxer EXCEPT ![e] = "failed"]
              /\ alarms' = alarms \cup {"must have a substream channel"}
    /\ UNCHANGED <<pending_substreams, substream_inbound_txs, substream_close_txs, inbound_open,
                   close_rx, substream, close_signal, closed, sent>>

\* One turn of the loop in Connection::poll.
Poll(e) ==
    /\ HasInbound(e)
    /\ handled' = [handled EXCEPT ![e] = @ + 1]
    /\ LET msg == sent[Other(e)][handled[e] + 1]
       IN  \/ HandleOpenRequest(e, msg)
           \/ HandleOpenResponse(e, msg)
           \/ HandleClose(e, msg)
           \/ HandleData(e, msg)
    /\ UNCHANGED appVars
-----------------------------------------------------------------------------
(***************************************************************************)
(* The substreams in the application's hands.  They outlive the Connection.*)
(***************************************************************************)

\* check_closed left out.
MayGoOn_Unchecked(e, s) == substream[e][s] = "held"

\* check_closed lets a read, a write or a flush go on.
MayGoOn(e, s) == substream[e][s] = "held" /\ ~ closed[e][s] /\ ~ close_signal[e][s]

\* check_closed takes the signal: the read, write or flush fails, and so do all later ones.
LearnClosed(e, s) ==
    /\ substream[e][s] = "held"
    /\ close_signal[e][s]
    /\ close_signal' = [close_signal EXCEPT ![e][s] = FALSE]
    /\ closed' = [closed EXCEPT ![e][s] = TRUE]
    /\ UNCHANGED <<muxerVars, substream, inbound_rx, sent, handled, appVars, alarms>>

\* poll_read returns data.
PollRead(e, s) ==
    /\ MayGoOn(e, s)
    /\ inbound_rx[e][s] # <<>>
    /\ inbound_rx' = [inbound_rx EXCEPT ![e][s] = Tail(@)]
    /\ read' = [read EXCEPT ![e][s] = Head(inbound_rx[e][s])]
    /\ UNCHANGED <<muxerVars, substream, close_signal, closed, sent, handled, written, alarms>>

\* The k-th write of a substream; the number k stands for its bytes.
DataOf(e, s) == [type |-> "Data", id |-> s, data |-> written[e][s] + 1]

\* poll_write.
PollWrite(e, s) ==
    /\ MayGoOn(e, s)
    /\ written[e][s] < MaxData
    /\ written' = [written EXCEPT ![e][s] = @ + 1]
    /\ Send(e, DataOf(e, s))
    /\ UNCHANGED <<muxerVars, substreamVars, handled, read, alarms>>

\* poll_close that ends the stream with an empty write, number 0, in place of a Close.
PollCloseSubstream_EmptyWrite(e, s) ==
    /\ substream[e][s] = "held"
    /\ ~ closed[e][s]
    /\ closed' = [closed EXCEPT ![e][s] = TRUE]
    /\ Send(e, [type |-> "Data", id |-> s, data |-> 0])
    /\ UNCHANGED <<muxerVars, substream, inbound_rx, close_signal, handled, appVars, alarms>>

\* poll_close that sends Close again on a closed substream.
PollCloseSubstream_Again(e, s) ==
    /\ substream[e][s] = "held"
    /\ closed' = [closed EXCEPT ![e][s] = TRUE]
    /\ Len(sent[e]) < 3 + MaxData
    /\ Send(e, [type |-> "Close", id |-> s])
    /\ UNCHANGED <<muxerVars, substream, inbound_rx, close_signal, handled, appVars, alarms>>

\* poll_close of the substream: a nonce is fetched first, and wasted if the
\* substream turns out to be closed.  A close signal is not looked at.
PollCloseSubstream(e, s) ==
    /\ substream[e][s] = "held"
    /\ \/ /\ ~ closed[e][s]
          /\ closed' = [closed EXCEPT ![e][s] = TRUE]
          /\ Send(e, [type |-> "Close", id |-> s])
       \/ /\ closed[e][s]
          /\ Len(SelectSeq(sent[e], LAMBDA m : m = Hole)) < MaxHoles
          /\ Send(e, Hole)
          /\ UNCHANGED closed
    /\ UNCHANGED <<muxerVars, substream, inbound_rx, close_signal, handled, appVars, alarms>>

\* Nothing is sent when a substream is dropped.
DropSubstream(e, s) ==
    /\ substream[e][s] = "held"
    /\ substream' = [substream EXCEPT ![e][s] = "dropped"]
    /\ inbound_rx' = [inbound_rx EXCEPT ![e][s] = <<>>]
    /\ close_signal' = [close_signal EXCEPT ![e][s] = FALSE]
    /\ UNCHANGED <<muxerVars, closed, sent, handled, appVars, alarms>>
-----------------------------------------------------------------------------
Next ==
    \/ \E e \in End : PollInbound(e) \/ PollClose(e) \/ DropConnection(e) \/ Poll(e)
    \/ \E e \in End, s \in SubstreamId :
          \/ PollOutbound(e, s) \/ LearnClosed(e, s) \/ PollRead(e, s) \/ PollWrite(e, s)
          \/ PollCloseSubstream(e, s) \/ DropSubstream(e, s)

Spec == Init /\ [][Next]_vars

\* The swarm polls a Connection whenever its inbound channel wakes it.
FairSpec == Spec /\ \A e \in End : WF_vars(Poll(e))
-----------------------------------------------------------------------------
\* What Connection::poll has taken from the link at e.
Taken(e) == {sent[Other(e)][n] : n \in 1 .. handled[e]}

HasHole(e) == \E n \in 1 .. Len(sent[e]) : sent[e][n] = Hole

CloseOf(s) == [type |-> "Close", id |-> s]

\* The expect("must have a substream channel") of Connection::poll, the
\* SubstreamIdDoesNotExist of handle_close and the SubstreamIdExists of
\* new_substream never strike: data never comes before its OpenRequest or
\* after the Close that takes the channel away, whatever the two ends open,
\* write, close and drop at the same time.
NoAlarms == alarms = {}

\* An end says nothing more about a substream after its Close, however
\* check_closed, poll_close and the remote end's own Close interleave.
CloseIsLast ==
    \A e \in End : \A m, n \in 1 .. Len(sent[e]) :
        (m < n /\ sent[e][m].type = "Close" /\ sent[e][n] # Hole)
            => sent[e][n].id # sent[e][m].id

\* Reads of a substream return the remote end's writes in their order, none of them left
\* out, those from before poll_inbound returned the substream included.  This is about
\* whole writes: Connection::poll passes them on, and the substream takes them, in order.
\* How poll_read cuts them into buffers, and what its count leaves out, is in Substream.
ReadInOrder ==
    \A e \in End, s \in SubstreamId :
        /\ \A k \in 1 .. Len(inbound_rx[e][s]) : inbound_rx[e][s][k] = read[e][s] + k
        /\ read[e][s] + Len(inbound_rx[e][s]) <= written[Other(e)][s]

\* A Connection keeps both channels of a substream until the remote end's Close
\* and no longer: the unwrap of the close channel in handle_close finds one, and
\* neither map outgrows the other.
ChannelsUntilRemoteClose ==
    \A e \in End : muxer[e] = "open" =>
        LET live == {s \in SubstreamId : substream[e][s] # "none" /\ CloseOf(s) \notin Taken(e)}
        IN  substream_inbound_txs[e] = live /\ substream_close_txs[e] = live

\* The comment on TransportMessage.nonce (message.rs:86): it "increments by 1 for
\* every TransportMessage sent over a connection", so no nonce is left out.
NoNonceIsSkipped == \A e \in End : ~ HasHole(e)

\* The comment in Connection::poll (connection.rs:248): that a substream "might
\* have been closed/dropped" when a message for it comes is fine.
DroppedSubstreamsAreFine == \A e \in End : muxer[e] # "failed"

\* Under FairSpec, a substream that was opened is answered, unless a Connection
\* has gone or a wasted nonce blocks the link.
OpenIsAnswered ==
    \A e \in End, s \in SubstreamId :
        s \in pending_substreams[e]
            ~> (s \notin pending_substreams[e] \/ \E f \in End : muxer[f] # "open" \/ HasHole(f))

\* Under FairSpec, a Close reaches the remote Connection, unless that one has
\* gone or a wasted nonce blocks the link.
CloseArrives ==
    \A e \in End, s \in SubstreamId :
        (\E n \in 1 .. Len(sent[e]) : sent[e][n] = CloseOf(s))
            ~> (CloseOf(s) \in Taken(Other(e)) \/ muxer[Other(e)] # "open" \/ HasHole(e))
=============================================================================
