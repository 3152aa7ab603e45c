------------------------------- MODULE Mixnet -------------------------------
(***************************************************************************)
(* The task of src/src/mixnet.rs that stands between a NymTransport and    *)
(* its Nym client: it asks the client for the transport's own address,     *)
(* then turns websocket frames into messages on the inbound channel and    *)
(* messages of the outbound channel into websocket frames.                 *)
(*                                                                         *)
(* Each round of its loop races check_inbound against check_outbound in a  *)
(* select!, and drops the one that has not finished.  check_inbound awaits *)
(* nothing after it has a frame.  check_outbound, after it took a message, *)
(* awaits the websocket's sink: a SplitSink of the futures crate, which    *)
(* keeps one frame in a slot of its own until the websocket takes it.      *)
(*                                                                         *)
(* The messages are addressed to the transport itself, as in the test of   *)
(* mixnet.rs: what is written comes back, in any order, between frames     *)
(* from elsewhere.                                                         *)
(***************************************************************************)
EXTENDS Message, FiniteSets, SequencesExt

CONSTANTS
    Outgoing,     \* the messages that the transport sends
    Known,        \* the messages that are looked for in the frames
    MaxSent,      \* bound: messages sent
    Foreign       \* bound: which frames the first, the second, ... from elsewhere may be

(***************************************************************************)
(* A frame of the websocket is a ServerResponse, or Unreadable: an error   *)
(* of the stream, a frame that carries no data, such as a ping, or one     *)
(* that does not deserialize.  Other stands for the responses that neither *)
(* function expects.                                                       *)
(***************************************************************************)
Frame == [kind : {"SelfAddress", "Received", "Error", "Other", "Unreadable"}, bytes : Seq(Byte)]
Received(bytes) == [kind |-> "Received", bytes |-> bytes]
SelfAddress == [kind |-> "SelfAddress", bytes |-> <<>>]

ASSUME MixnetAssumption ==
    /\ \A m \in Outgoing \cup Known : m \in Message
    /\ MaxSent \in Nat
    /\ Foreign \in Seq(SUBSET Frame)
    /\ \A k \in DOMAIN Foreign : \A f \in Foreign[k] : f.kind # "SelfAddress"

VARIABLES
    phase,      \* of initialize_mixnet: starting (in get_self_address), running, or failed
    \* The websocket.
    websocket,  \* open or closed
    frames,     \* all that the Nym client sent
    read,       \* how many of them were read
    written,    \* all that the websocket took, encoded
    arrived,    \* the positions in written that the mixnet has brought back
    \* The inbound channel.
    listening,  \* its receiver, inbound_rx, exists
    inbound,    \* all that was sent on it
    \* The outbound channel.
    sent,       \* history: all that was sent on it
    outbound,   \* the messages in it
    \* check_outbound.
    stage,      \* idle (in recv), ready (waits for the sink to take a frame) or flush
    in_hand,    \* the frame that waits, as a sequence of at most one
    slot        \* the slot of the SplitSink, likewise

streamVars == <<websocket, frames, read>>
netVars == <<written, arrived>>
inVars == <<listening, inbound>>
sendVars == <<stage, in_hand, slot>>
outVars == <<sent, outbound>>
vars == <<phase, streamVars, netVars, inVars, outVars, sendVars>>

AtMostOne(S) == {<<>>} \cup {<<x>> : x \in S}
Encodings == {MessageToBytes(m) : m \in Outgoing}

TypeOK ==
    /\ phase \in {"starting", "running", "failed"}
    /\ websocket \in {"open", "closed"}
    /\ frames \in Seq(Frame) /\ read \in 0 .. Len(frames)
    /\ written \in Seq(Encodings) /\ arrived \subseteq 1 .. Len(written)
    /\ listening \in BOOLEAN /\ inbound \in Seq(Message)
    /\ sent \in Seq(Outgoing) /\ outbound \in Seq(Outgoing)
    /\ stage \in {"idle", "ready", "flush"}
    /\ in_hand \in AtMostOne(Encodings) /\ slot \in AtMostOne(Encodings)
    /\ stage = "ready" <=> in_hand # <<>>

\* The websocket is connected and the request for the address is sent.
Init ==
    /\ phase = "starting"
    /\ websocket = "open" /\ frames = <<>> /\ read = 0
    /\ written = <<>> /\ arrived = {}
    /\ listening = TRUE /\ inbound = <<>>
    /\ sent = <<>> /\ outbound = <<>>
    /\ stage = "idle" /\ in_hand = <<>> /\ slot = <<>>
-----------------------------------------------------------------------------
(***************************************************************************)
(* get_self_address.                                                       *)
(***************************************************************************)
\* A frame is read only when no message is being written.
HasFrame_NotWhileSending == stage = "idle" /\ read < Len(frames)

HasFrame == read < Len(frames)
NextFrame == frames[read + 1]
StreamEnded == websocket = "closed" /\ ~HasFrame

\* A response that is not the address is taken for a failure.
AfterStartFrame_NoLoop(f) == IF f.kind = "SelfAddress" THEN "running" ELSE "failed"

AfterStartFrame(f) ==
    CASE f.kind = "SelfAddress" -> "running"
      [] f.kind \in {"Error", "Unreadable"} -> "failed"
      [] OTHER -> "starting"

\* One frame of its loop; a message received before the address is dropped.
GetSelfAddress ==
    /\ phase = "starting"
    /\ HasFrame
    /\ read' = read + 1
    /\ phase' = AfterStartFrame(NextFrame)
    /\ UNCHANGED <<websocket, frames, netVars, inVars, outVars, sendVars>>

StartWithoutAddress ==
    /\ phase = "starting"
    /\ StreamEnded
    /\ phase' = "failed"
    /\ UNCHANGED <<streamVars, netVars, inVars, outVars, sendVars>>
-----------------------------------------------------------------------------
(***************************************************************************)
(* The task's loop.                                                        *)
(***************************************************************************)

\* The sink is dropped with the future.
DropCheckOutbound_Sink ==
    stage' = "idle" /\ in_hand' = <<>> /\ slot' = <<>>

\* check_inbound finished first.  The sink, and its slot, outlive the future.
DropCheckOutbound ==
    stage' = "idle" /\ in_hand' = <<>> /\ UNCHANGED slot

\* check_inbound and handle_inbound; all their errors are ignored by the loop.
CheckInbound ==
    /\ phase = "running"
    /\ HasFrame
    /\ read' = read + 1
    /\ inbound' = IF NextFrame.kind = "Received" /\ ParseMessageData(NextFrame.bytes) # Error
                     /\ listening
                  THEN Append(inbound, ParseMessageData(NextFrame.bytes))
                  ELSE inbound
    /\ DropCheckOutbound
    /\ UNCHANGED <<phase, websocket, frames, netVars, listening, outVars>>

\* The stream has ended: check_inbound fails at once, now and in every later round.
CheckInboundEnded ==
    /\ phase = "running"
    /\ StreamEnded
    /\ DropCheckOutbound
    /\ UNCHANGED <<phase, streamVars, netVars, inVars, outVars>>

\* A frame is put into the slot whether or not that is free, or only when it is.
Offer_NoReady(frame) == slot' = slot \o frame /\ stage' = "flush" /\ UNCHANGED in_hand
Offer_WhenFree(frame) == slot = <<>> /\ slot' = frame /\ stage' = "flush" /\ UNCHANGED in_hand

\* The sink takes a frame if its slot is free; otherwise the frame waits.
Offer(frame) ==
    IF slot = <<>>
      THEN slot' = frame /\ stage' = "flush" /\ UNCHANGED in_hand
      ELSE in_hand' = frame /\ stage' = "ready" /\ UNCHANGED slot

\* The message stays in the channel until it is written, so that a dropped future loses
\* none.
RecvOutbound_Peeks == UNCHANGED outbound

\* outbound_rx.recv: the message is out of the channel before it is written.
RecvOutbound == outbound' = Tail(outbound)

\* check_outbound receives a message and encodes it.
CheckOutbound ==
    /\ phase = "running"
    /\ stage = "idle"
    /\ outbound # <<>>
    /\ RecvOutbound
    /\ Offer(<<MessageToBytes(Head(outbound))>>)
    /\ UNCHANGED <<phase, streamVars, netVars, inVars, sent>>

\* The websocket takes the slot, the slot the waiting frame.
TakeSlot == written' = written \o slot /\ slot' = in_hand

\* write_bytes goes on.
FlushSlot ==
    /\ stage # "idle"
    /\ slot # <<>>
    /\ websocket = "open"
    /\ TakeSlot
    /\ in_hand' = <<>>
    /\ stage' = "flush"
    /\ UNCHANGED <<phase, streamVars, arrived, inVars, outVars>>

\* The websocket is flushed, and check_outbound returns.
FinishSend ==
    /\ stage = "flush"
    /\ slot = <<>>
    /\ stage' = "idle"
    /\ UNCHANGED <<phase, streamVars, netVars, inVars, outVars, in_hand, slot>>

\* The websocket is closed: the error is ignored, and the frame may be left in the slot.
FailSend ==
    /\ stage # "idle"
    /\ websocket = "closed"
    /\ stage' = "idle"
    /\ in_hand' = <<>>
    /\ slot' \in {slot, <<>>}
    /\ UNCHANGED <<phase, streamVars, netVars, inVars, outVars>>

Task ==
    \/ GetSelfAddress \/ StartWithoutAddress
    \/ CheckInbound \/ CheckInboundEnded
    \/ CheckOutbound \/ FlushSlot \/ FinishSend \/ FailSend
-----------------------------------------------------------------------------
(***************************************************************************)
(* The transport and its Connections, with their ends of the channels.     *)
(***************************************************************************)
SendOutbound(m) ==
    /\ phase = "running"
    /\ Len(sent) < MaxSent
    /\ sent' = Append(sent, m)
    /\ outbound' = Append(outbound, m)
    /\ UNCHANGED <<phase, streamVars, netVars, inVars, sendVars>>

\* The NymTransport is dropped; its Connections may keep their clones of outbound_tx.
DropTransport ==
    /\ phase = "running"
    /\ listening
    /\ listening' = FALSE
    /\ UNCHANGED <<phase, streamVars, netVars, inbound, outVars, sendVars>>
-----------------------------------------------------------------------------
(***************************************************************************)
(* The Nym client and the mixnet.                                          *)
(***************************************************************************)
Answered == \E k \in DOMAIN frames : frames[k].kind = "SelfAddress"

Deliver(f) ==
    /\ websocket = "open"
    /\ frames' = Append(frames, f)
    /\ UNCHANGED <<phase, websocket, read, written, inVars, outVars, sendVars>>

AnswerAddress ==
    /\ ~Answered
    /\ Deliver(SelfAddress)
    /\ UNCHANGED arrived

\* What was written comes back.
Arrive(k) ==
    /\ k \notin arrived
    /\ arrived' = arrived \cup {k}
    /\ Deliver(Received(written[k]))

ForeignFrames == Len(frames) - Cardinality(arrived) - (IF Answered THEN 1 ELSE 0)

DeliverForeign ==
    /\ ForeignFrames < Len(Foreign)
    /\ \E f \in Foreign[ForeignFrames + 1] : Deliver(f)
    /\ UNCHANGED arrived

CloseWebsocket ==
    /\ websocket = "open"
    /\ websocket' = "closed"
    /\ UNCHANGED <<phase, frames, read, netVars, inVars, outVars, sendVars>>
-----------------------------------------------------------------------------
Next ==
    \/ Task
    \/ \E m \in Outgoing : SendOutbound(m)
    \/ DropTransport
    \/ AnswerAddress
    \/ \E k \in DOMAIN written : Arrive(k)
    \/ DeliverForeign
    \/ CloseWebsocket

Spec == Init /\ [][Next]_vars

(***************************************************************************)
(* select! polls both futures whenever the task is woken, in random order, *)
(* so a frame in the stream is read however long the sink is blocked.  The *)
(* Nym client answers, and the mixnet delivers.  Nothing is assumed of the *)
(* sink: the client need not read what is written.                         *)
(***************************************************************************)
FairSpec ==
    /\ Spec
    /\ WF_vars(GetSelfAddress \/ StartWithoutAddress \/ CheckInbound)
    /\ WF_vars(AnswerAddress)
    /\ WF_vars(\E k \in DOMAIN written : Arrive(k))

\* The Nym client reads what is written, and the task goes on with a send.
SinkIsFair == WF_vars(CheckOutbound \/ FlushSlot \/ FinishSend \/ FailSend)
-----------------------------------------------------------------------------
(***************************************************************************)
(* Properties.                                                             *)
(***************************************************************************)

\* What handle_inbound sends on the inbound channel are the messages that the frames read
\* since the address was known say, in the frames' order, unaltered, and all of them:
\* parse_message_data (message.rs) reads from a frame what was written into it and refuses
\* what says nothing, and the loop skips neither.  A dropped transport gets a prefix.
Heard ==
    {j \in 1 .. read : /\ frames[j].kind = "Received"
                       /\ \E i \in 1 .. j - 1 : frames[i].kind = "SelfAddress"}
InboundMatchesFrames ==
    \E at \in [DOMAIN inbound -> Heard] :
        /\ \A j, k \in DOMAIN at : j < k => at[j] < at[k]
        /\ \A k \in DOMAIN at : Says(frames[at[k]].bytes, inbound[k])
        /\ \A j \in Heard, m \in Known :
              Says(frames[j].bytes, m) /\ (listening \/ \E k \in DOMAIN at : j < at[k])
              => \E k \in DOMAIN at : at[k] = j /\ inbound[k] = m

\* The task writes the messages of the outbound channel in their order, each at most once.
\* Holds although a frame can be left in the sink's slot while the next one waits.
Pipeline == written \o slot \o in_hand \o [k \in DOMAIN outbound |-> MessageToBytes(outbound[k])]
WrittenInOrder ==
    \E at \in [DOMAIN Pipeline -> DOMAIN sent] :
        /\ \A j, k \in DOMAIN at : j < k => at[j] < at[k]
        /\ \A k \in DOMAIN at : Pipeline[k] = MessageToBytes(sent[at[k]])

\* While the websocket is open, the loop's select! loses a message in one situation only:
\* a frame is read while the sink still holds an earlier message.  Only the later one is lost.
LostOnlyWhenBlocked ==
    [][Len(Pipeline') < Len(Pipeline) /\ websocket = "open" =>
        /\ read' = read + 1
        /\ slot # <<>> /\ slot' = slot
        /\ Len(Pipeline') = Len(Pipeline) - 1]_vars

\* No message that the transport sent is lost while the websocket is open: the task
\* "writes outbound messages to the endpoint" (mixnet.rs:21).  The select! breaks this.
NothingIsLost == websocket = "open" => Len(Pipeline) = Len(sent)

\* initialize_mixnet fails only for a cause: get_self_address read an error or something
\* unreadable, or the websocket closed.  A message that arrives first is no cause.
StartFailsForCause ==
    phase = "failed" =>
        \/ websocket = "closed"
        \/ \E k \in 1 .. read : frames[k].kind \in {"Error", "Unreadable"}

\* A written message comes back on the inbound channel even when the sink is blocked for
\* ever: a pending send does not keep check_inbound from reading.
InboundIsNotBlocked ==
    \A m \in {o \in Outgoing : ~EmptyData(o)} :
        MessageToBytes(m) \in ToSet(written)
            ~> m \in ToSet(inbound) \/ ~listening \/ websocket = "closed"

\* If the Nym client keeps reading, no message stays in the outbound channel, or waits for
\* the sink, for ever: however many frames interrupt its send, check_outbound goes on.
\* The last one may still be left in the sink's slot.
OutboundDrains ==
    SinkIsFair => <>[](outbound = <<>> /\ stage = "idle")
=============================================================================
