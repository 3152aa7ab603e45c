----------------------------- MODULE Substream -----------------------------
(***************************************************************************)
(* The reading side of one Substream (src/src/substream.rs): poll_read at  *)
(* the level of bytes, between the Connection that feeds and closes the    *)
(* substream and the task that reads it, and what the writing side does to *)
(* it: poll_write and poll_flush look at the same close signal, and        *)
(* poll_close closes the substream from this end.  What they send is in    *)
(* Connection.                                                             *)
(*                                                                         *)
(* The remote end writes the bytes 1, 2, 3, ..., so that a byte also says  *)
(* where it belongs.  The reader polls again as soon as a read returns and *)
(* sleeps when it is pending, until the channel wakes it.                  *)
(***************************************************************************)
EXTENDS Integers, Sequences, SequencesExt

CONSTANTS
    DataLen,    \* the lengths of a Data message; an empty one is never decoded
    BufLen,     \* the lengths of the reader's buffer
    MaxBytes,   \* bound: bytes written
    SameTask    \* one task polls the Connection and reads the substream

ASSUME SubstreamAssumption ==
    /\ DataLen \subseteq Nat \ {0}
    /\ BufLen \subseteq Nat \ {0}
    /\ MaxBytes \in Nat
    /\ SameTask \in BOOLEAN

VARIABLES
    \* The Connection's side of the substream.
    fed,          \* number of bytes the Connection has sent on inbound_tx
    connection,   \* open, closing (in the middle of handle_close), closed, or dropped
    \* The fields of the Substream.
    inbound_rx,   \* the channel: a sequence of byte sequences
    signal,       \* the oneshot close_rx holds a value
    closed,
    unread_data,
    \* The reader.
    reader,       \* ready to poll, checked (past check_closed), asleep, or failed
    waker,        \* the channel holds the reader's waker
    woken,        \* the reader was woken and has not polled since
    closed_here,  \* history: poll_close closed the substream, from this end
    copied,       \* history: the bytes that poll_read wrote to buffers
    reported      \* history: the bytes that its return values covered

subVars == <<inbound_rx, signal, closed, unread_data>>
readVars == <<copied, reported>>
vars == <<fed, connection, subVars, reader, waker, woken, closed_here, readVars>>

Bytes == Seq(1 .. MaxBytes)

TypeOK ==
    /\ fed \in 0 .. MaxBytes
    /\ connection \in {"open", "closing", "closed", "dropped"}
    /\ inbound_rx \in Seq(Bytes)
    /\ signal \in BOOLEAN /\ closed \in BOOLEAN
    /\ unread_data \in Bytes
    /\ reader \in {"ready", "checked", "asleep", "failed"}
    /\ waker \in BOOLEAN /\ woken \in BOOLEAN
    /\ closed_here \in BOOLEAN
    /\ copied \in Bytes /\ reported \in Bytes

\* Substream::new
Init ==
    /\ fed = 0
    /\ connection = "open"
    /\ inbound_rx = <<>>
    /\ signal = FALSE /\ closed = FALSE
    /\ unread_data = <<>>
    /\ reader = "ready"
    /\ waker = FALSE /\ woken = FALSE
    /\ closed_here = FALSE
    /\ copied = <<>> /\ reported = <<>>
-----------------------------------------------------------------------------
(***************************************************************************)
(* The Connection.                                                         *)
(***************************************************************************)

\* A send on the channel, and the drop of its sender, wake who waits for it.
WakeReader == woken' = (woken \/ waker) /\ waker' = FALSE

\* If one task does both, the Connection is not polled in the middle of a read.
ConnectionRuns == SameTask => reader # "checked"

\* Data that begins one byte too early.
NextBytes_OffByOne(n) == [k \in 1 .. n |-> fed + k - 1]

\* The next n bytes that the remote end wrote.
NextBytes(n) == [k \in 1 .. n |-> fed + k]

\* Connection::poll passes on a Data message.
Feed(n) ==
    /\ ConnectionRuns
    /\ connection = "open"
    /\ fed + n <= MaxBytes
    /\ fed' = fed + n
    /\ inbound_rx' = Append(inbound_rx, NextBytes(n))
    /\ WakeReader
    /\ UNCHANGED <<connection, signal, closed, unread_data, reader, closed_here, readVars>>

\* handle_close drops inbound_tx ...
RemoveSender ==
    /\ ConnectionRuns
    /\ connection = "open"
    /\ connection' = "closing"
    /\ WakeReader
    /\ UNCHANGED <<fed, subVars, reader, closed_here, readVars>>

\* ... and then sends the close signal, which wakes nobody: try_recv leaves no waker.
SendClose ==
    /\ connection = "closing"
    /\ connection' = "closed"
    /\ signal' = TRUE
    /\ UNCHANGED <<fed, inbound_rx, closed, unread_data, reader, waker, woken, closed_here,
                   readVars>>

\* The Connection is dropped: both senders go, and no signal is sent.
DropConnection ==
    /\ ConnectionRuns
    /\ connection = "open"
    /\ connection' = "dropped"
    /\ WakeReader
    /\ UNCHANGED <<fed, subVars, reader, closed_here, readVars>>
-----------------------------------------------------------------------------
(***************************************************************************)
(* The application.  poll_read looks at the close signal first and at the  *)
(* channel afterwards.                                                     *)
(***************************************************************************)

\* If one task does both, the substream is not polled in the middle of handle_close.
ReaderRuns == SameTask => connection # "closing"

\* Every operation takes the substream as Pin<&mut Self>: none begins in the middle of a
\* poll_read.
Exclusive == ReaderRuns /\ reader # "checked"

\* The result of try_recv ignored, or an error of it taken for a close.
ReceivedClosed_Ignored == FALSE
ReceivedClosed_DroppedIsClosed == signal \/ connection = "dropped"

\* close_rx.try_recv: an empty channel and one whose sender is gone are both an error.
ReceivedClosed == signal

\* check_closed without the flag: a signal is seen only by the operation that takes it.
CheckClosed_SignalOnly == signal' = FALSE /\ closed' = ReceivedClosed

\* check_closed takes the signal, whoever called it; it is an error if closed'.
CheckClosed == signal' = FALSE /\ closed' = (closed \/ ReceivedClosed)

\* poll_read up to check_closed.  It fails once the substream is closed, even if there
\* are bytes left, and the application may try again.
StartRead ==
    /\ Exclusive
    /\ reader \in {"ready", "failed"}
    /\ CheckClosed
    /\ reader' = IF closed' THEN "failed" ELSE "checked"
    /\ UNCHANGED <<fed, connection, inbound_rx, unread_data, waker, woken, closed_here, readVars>>

\* What poll_write and poll_flush do to the reading side; neither leaves a waker.
PollWrite ==
    /\ Exclusive
    /\ CheckClosed
    /\ UNCHANGED <<fed, connection, inbound_rx, unread_data, reader, waker, woken, closed_here,
                   readVars>>

\* poll_close sets closed, without a look at the signal, and wakes no reader.  A second
\* one is an error.
PollClose ==
    /\ Exclusive
    /\ ~closed
    /\ closed' = TRUE
    /\ closed_here' = TRUE
    /\ UNCHANGED <<fed, connection, inbound_rx, signal, unread_data, reader, waker, woken,
                   readVars>>

Least(m, n) == IF m < n THEN m ELSE n

\* How many unread bytes go to a buffer of length len.
FilledLen(unread, len) == Least(Len(unread), len)

\* How many bytes of new data go to the room that is left.
CopiedLen(unread, data, len) == Least(len - FilledLen(unread, len), Len(data))

\* The buffer after poll_read.
Buffer(unread, data, len) ==
    SubSeq(unread, 1, FilledLen(unread, len)) \o SubSeq(data, 1, CopiedLen(unread, data, len))

\* unread_data if the buffer is taken from its front without removing that.
UnreadAfter_NotConsumed(unread, data, len) ==
    unread \o SubSeq(data, CopiedLen(unread, data, len) + 1, Len(data))

\* unread_data if new data replaces the old.
UnreadAfter_Replaced(unread, data, len) ==
    IF data = <<>> THEN SubSeq(unread, FilledLen(unread, len) + 1, Len(unread))
    ELSE SubSeq(data, CopiedLen(unread, data, len) + 1, Len(data))

\* unread_data after poll_read: the bytes that found no room.
UnreadAfter(unread, data, len) ==
    SubSeq(unread, FilledLen(unread, len) + 1, Len(unread))
        \o SubSeq(data, CopiedLen(unread, data, len) + 1, Len(data))

\* The count that poll_read returns.  With new data and room left it is the
\* length of the new data's part alone.
ReturnedLen(unread, data, len) ==
    IF data # <<>> /\ FilledLen(unread, len) < len THEN CopiedLen(unread, data, len)
    ELSE FilledLen(unread, len)

\* poll_read with a channel that is polled without leaving a waker.
PollRecv_NoWaker ==
    /\ inbound_rx' = IF inbound_rx = <<>> THEN <<>> ELSE Tail(inbound_rx)
    /\ UNCHANGED waker

\* inbound_rx.poll_recv: it leaves the waker if the channel is empty, unless the
\* sender is gone.
PollRecv ==
    /\ inbound_rx' = IF inbound_rx = <<>> THEN <<>> ELSE Tail(inbound_rx)
    /\ waker' = (waker \/ (inbound_rx = <<>> /\ connection = "open"))

\* The rest of poll_read, with a buffer of length len.
Copy(len) ==
    LET data == IF inbound_rx = <<>> THEN <<>> ELSE Head(inbound_rx)
        n == ReturnedLen(unread_data, data, len)
    IN  /\ ReaderRuns
        /\ reader = "checked"
        /\ PollRecv
        /\ unread_data' = UnreadAfter(unread_data, data, len)
        /\ copied' = copied \o Buffer(unread_data, data, len)
        /\ reported' = reported \o SubSeq(Buffer(unread_data, data, len), 1, n)
        /\ reader' = IF n = 0 THEN "asleep" ELSE "ready"
        /\ UNCHANGED <<fed, connection, signal, closed, woken, closed_here>>

\* The executor polls a task that was woken.
WakeUp ==
    /\ reader = "asleep"
    /\ woken
    /\ reader' = "ready"
    /\ woken' = FALSE
    /\ UNCHANGED <<fed, connection, subVars, waker, closed_here, readVars>>
-----------------------------------------------------------------------------
Read == StartRead \/ \E len \in BufLen : Copy(len)

Next ==
    \/ \E n \in DataLen : Feed(n)
    \/ RemoveSender \/ SendClose \/ DropConnection
    \/ Read \/ WakeUp \/ PollWrite \/ PollClose

Spec == Init /\ [][Next]_vars

\* The executor runs a task until it is pending, and again when it was woken.
FairSpec == Spec /\ WF_vars(SendClose) /\ WF_vars(Read) /\ WF_vars(WakeUp)
-----------------------------------------------------------------------------
\* The bytes written are those copied to the reader's buffers, then those in
\* unread_data, then those in the channel: with every length of buffer and of
\* data, poll_read neither loses a byte nor repeats or reorders one on its way
\* to a buffer.
NoByteIsLost == copied \o unread_data \o FlattenSeq(inbound_rx) = [k \in 1 .. fed |-> k]

\* A read fails only after the remote end has closed the substream or poll_close has,
\* as the tests do (substream.rs:367, transport.rs:841): check_closed does not take the error of a close_rx whose sender was dropped, with the Connection,
\* for a close, and does not fail between the two steps of handle_close.
FailsOnlyWhenClosed == reader = "failed" => connection = "closed" \/ closed_here

\* "try to read/write to closed substream; should error" (substream.rs:369): once the
\* substream is closed, from either end and whichever operation took the signal, it
\* stays so and no later step gives the reader a byte.
ClosedForGood == [][closed => closed' /\ UNCHANGED readVars]_vars

\* The bytes that poll_read reports are in the order in which they were written,
\* and none is reported twice.
ReportedInOrder ==
    \A k \in 1 .. Len(reported) - 1 : reported[k] < reported[k + 1]

\* The test of poll_read (substream.rs:305-308) reads the bytes that were written,
\* one after the other, with no gap where a buffer was larger than what was unread.
ReportedWithoutGap == \A k \in 1 .. Len(reported) : reported[k] = k

\* Under FairSpec, a byte that reached the channel is copied to a buffer, or the
\* substream has been closed before, from either end: no wakeup is lost.
DataIsRead ==
    \A n \in 1 .. MaxBytes :
        fed >= n ~> (Len(copied) >= n \/ connection \in {"closing", "closed"} \/ closed_here)

\* "notify substream that it's closed" (connection.rs:155): under FairSpec the
\* reader learns that the remote end has closed the substream.
CloseIsNoticed == connection = "closed" ~> reader = "failed"
=============================================================================
