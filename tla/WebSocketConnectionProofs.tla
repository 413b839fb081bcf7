--------------------- MODULE WebSocketConnectionProofs ----------------------
(***************************************************************************)
(* What a connection keeps of its wire, its queue and its close, for every *)
(* number of messages, pings and chunks; what its reader tells; and what   *)
(* the gate that its compressions share with those of others keeps.        *)
(*                                                                         *)
(* LoopInv is a predicate of the connection's record that each method      *)
(* preserves and that holds between two rounds of the flush loop; CInv     *)
(* adds what a suspended compression holds, for the turns of the event     *)
(* loop between which a flush waits.                                       *)
(*                                                                         *)
(* ReadInv, in the second part, says of a reader what the frames it has    *)
(* handled determine: the bytes consumed, the message left open, the       *)
(* events told.  The bytes are sums over sets of frames; what adding one   *)
(* frame does to a sum is proved first, by induction over finite sets.     *)
(*                                                                         *)
(* GateInv, in the third, says of the gate that its counter is the number  *)
(* of compressions inside, that its array holds those that wait, that one  *)
(* of them is always about to be woken, and that a compressor closed       *)
(* elsewhere than at the gate stays out of it.                             *)
(***************************************************************************)
EXTENDS WebSocketConnection, FrameReader, CompressionGate,
        FiniteSetTheorems, SequenceTheorems, WellFoundedInduction, TLAPS

Frames == [type : {"data", "ping", "pong", "close"}, id : 0 .. MaxSends]

\* What is on the wire.
Sorted(wire) ==
  \A i, j \in DOMAIN wire :
    i < j /\ wire[i].type = "data" /\ wire[j].type = "data" => wire[i].id < wire[j].id
CloseLast(wire) == \A i \in DOMAIN wire : wire[i].type = "close" => i = Len(wire)
HasClose(wire) == \E i \in DOMAIN wire : wire[i].type = "close"
Before(wire, id) == \A i \in DOMAIN wire : wire[i].type = "data" => wire[i].id < id
Has(wire, id) == \E i \in DOMAIN wire : wire[i] = Data(id)

\* The messages in the queue that are still to be written.
Waits(c, id) == \E i \in DOMAIN c.queue : i > c.index /\ c.queue[i] = id

WireRight(c) ==
  /\ Sorted(c.wire) /\ CloseLast(c.wire)
  /\ HasClose(c.wire) => c.writable # "open" \/ c.destroyed
  /\ Before(c.wire, c.sent + 1)

\* Who closed the connection, and what is left to do about it.
ClosingRight(c) ==
  /\ c.reported => c.state # OPEN /\ ~c.pendingClose /\ ~c.timer
  /\ c.pendingClose => c.state # OPEN
  /\ c.closedBy # "nobody" => c.state # OPEN
  /\ c.closedBy = "application" => c.timer \/ c.reported \/ c.destroyed
  /\ c.closedBy = "application" => \A id \in 1 .. c.sent : Has(c.wire, id)

\* The queue is that of the messages sent, in their order, all behind those on the wire.
QueueRight(c) ==
  /\ ~c.deflate => c.flush = "off" /\ c.queue = <<>>
  /\ \A i, j \in DOMAIN c.queue : i < j => c.queue[i] < c.queue[j]
  /\ \A i \in DOMAIN c.queue : c.queue[i] <= c.sent
  /\ c.index <= Len(c.queue) \/ (c.queue = <<>> /\ c.index <= 1 /\ c.state # OPEN)
  /\ \A id \in 1 .. c.sent : Waits(c, id) => Before(c.wire, id)

\* As long as the connection can write, every message is on the wire or in the queue.
Accounted(c) ==
  ~c.destroyed /\ ~c.reported =>
    \A id \in 1 .. c.sent : Has(c.wire, id) \/ Waits(c, id)

\* The frame in compression is the next one of the queue, or of a queue that was dropped.
CompressingRight(c) ==
  c.flush = "compressing" =>
    /\ c.inflight \in 1 .. c.sent
    /\ Before(c.wire, c.inflight)
    /\ \/ c.index < Len(c.queue) /\ c.inflight = c.queue[c.index + 1]
       \/ c.queue = <<>> /\ c.index = 0 /\ c.state # OPEN

\* Between two rounds of the flush loop, and between two turns of the event loop.
LoopInv(c) ==
  c \in Connections /\ WireRight(c) /\ ClosingRight(c) /\ QueueRight(c) /\ Accounted(c)
CInv(c) == LoopInv(c) /\ CompressingRight(c)

-----------------------------------------------------------------------------
(* The wire.                                                               *)

LEMMA Appended ==
  ASSUME NEW wire \in Seq(Frames), NEW frame \in Frames
  PROVE  /\ Append(wire, frame) \in Seq(Frames)
         /\ Len(wire) \in Nat /\ Len(Append(wire, frame)) = Len(wire) + 1
         /\ DOMAIN wire = 1 .. Len(wire) /\ DOMAIN Append(wire, frame) = 1 .. Len(wire) + 1
         /\ \A i \in 1 .. Len(wire) : Append(wire, frame)[i] = wire[i] /\ wire[i] \in Frames
         /\ Append(wire, frame)[Len(wire) + 1] = frame
BY AppendProperties, LenProperties, ElementOfSeq

LEMMA WireWithControl ==
  ASSUME NEW wire \in Seq(Frames), NEW type \in {"ping", "pong", "close"}
  PROVE  LET after == Append(wire, Control(type)) IN
         /\ after \in Seq(Frames)
         /\ Sorted(wire) => Sorted(after)
         /\ CloseLast(wire) /\ ~HasClose(wire) => CloseLast(after)
         /\ HasClose(after) => HasClose(wire) \/ type = "close"
         /\ \A id : Before(wire, id) => Before(after, id)
         /\ \A id : Has(wire, id) => Has(after, id)
<1>. DEFINE frame == Control(type)
            after == Append(wire, frame)
            n == Len(wire)
<1>1. frame \in Frames /\ frame.type = type /\ frame.type # "data"
  BY ConnectionAssumption DEF Control, Frames
<1>2. /\ after \in Seq(Frames) /\ n \in Nat /\ Len(after) = n + 1
      /\ DOMAIN wire = 1 .. n /\ DOMAIN after = 1 .. n + 1
      /\ \A i \in 1 .. n : after[i] = wire[i]
      /\ after[n + 1] = frame
  BY <1>1, Appended
<1>. HIDE DEF frame, after, n
<1>3. \A i \in DOMAIN after : i \in DOMAIN wire \/ i = n + 1
  BY <1>2
<1>4. \A i \in DOMAIN wire : i \in DOMAIN after /\ after[i] = wire[i] /\ i \in Nat /\ i <= n
  BY <1>2
<1>5. Sorted(wire) => Sorted(after)
  BY <1>1, <1>2, <1>3, <1>4 DEF Sorted
<1>6. CloseLast(wire) /\ ~HasClose(wire) => CloseLast(after)
  BY <1>2, <1>3, <1>4 DEF CloseLast, HasClose
<1>7. HasClose(after) => HasClose(wire) \/ type = "close"
  BY <1>1, <1>2, <1>3, <1>4 DEF HasClose
<1>8. \A id : Before(wire, id) => Before(after, id)
  BY <1>1, <1>2, <1>3, <1>4 DEF Before
<1>9. \A id : Has(wire, id) => Has(after, id)
  BY <1>4 DEF Has
<1>. QED
  BY <1>2, <1>5, <1>6, <1>7, <1>8, <1>9 DEF after, frame

LEMMA WireWithData ==
  ASSUME NEW wire \in Seq(Frames), NEW id \in 1 .. MaxSends, Before(wire, id)
  PROVE  LET after == Append(wire, Data(id)) IN
         /\ after \in Seq(Frames)
         /\ Sorted(wire) => Sorted(after)
         /\ ~HasClose(wire) => CloseLast(after) /\ ~HasClose(after)
         /\ \A later \in Nat : Before(wire, later) /\ id < later => Before(after, later)
         /\ \A other : Has(wire, other) => Has(after, other)
         /\ Has(after, id)
<1>. DEFINE frame == Data(id)
            after == Append(wire, frame)
            n == Len(wire)
<1>1. frame \in Frames /\ frame.type = "data" /\ frame.id = id
  BY ConnectionAssumption DEF Data, Frames
<1>2. /\ after \in Seq(Frames) /\ n \in Nat /\ Len(after) = n + 1
      /\ DOMAIN wire = 1 .. n /\ DOMAIN after = 1 .. n + 1
      /\ \A i \in 1 .. n : after[i] = wire[i]
      /\ after[n + 1] = frame
  BY <1>1, Appended
<1>. HIDE DEF after, n
<1>3. \A i \in DOMAIN after : i \in DOMAIN wire \/ i = n + 1
  BY <1>2
<1>4. \A i \in DOMAIN wire : i \in DOMAIN after /\ after[i] = wire[i] /\ i \in Nat /\ i <= n
  BY <1>2
<1>9. Has(after, id)
  BY <1>2 DEF Has
<1>a. \A other : Has(wire, other) => Has(after, other)
  BY <1>4 DEF Has
<1>. HIDE DEF frame
<1>5. Sorted(wire) => Sorted(after)
  BY <1>1, <1>2, <1>3, <1>4 DEF Sorted, Before
<1>6. ~HasClose(wire) => ~HasClose(after)
  BY <1>1, <1>2, <1>3, <1>4 DEF HasClose
<1>7. ~HasClose(after) => CloseLast(after)
  BY DEF CloseLast, HasClose
<1>8. \A later \in Nat : Before(wire, later) /\ id < later => Before(after, later)
  BY <1>1, <1>2, <1>3, <1>4 DEF Before
<1>. QED
  BY <1>2, <1>5, <1>6, <1>7, <1>8, <1>9, <1>a DEF after, frame

-----------------------------------------------------------------------------
(* The record.                                                             *)

\* A step that touches neither the wire nor the queue, keeps what is closing, and lets the
\* timer go only with the socket.
LEMMA MildStep ==
  ASSUME NEW c, NEW d \in Connections, LoopInv(c),
         d.deflate = c.deflate, d.queue = c.queue, d.index = c.index, d.flush = c.flush,
         d.inflight = c.inflight, d.wire = c.wire, d.sent = c.sent, d.reported = c.reported,
         d.pendingClose = c.pendingClose, d.closedBy = c.closedBy,
         c.destroyed => d.destroyed,
         c.state # OPEN => d.state # OPEN,
         c.writable # "open" => d.writable # "open",
         d.timer => c.timer, c.timer => d.timer \/ d.destroyed
  PROVE  LoopInv(d) /\ (CompressingRight(c) => CompressingRight(d))
<1>1. WireRight(d)
  BY DEF LoopInv, WireRight
<1>2. ClosingRight(d)
  BY DEF LoopInv, ClosingRight
<1>3. QueueRight(d)
  BY DEF LoopInv, QueueRight, Waits
<1>4. Accounted(d)
  BY DEF LoopInv, Accounted, Waits
<1>5. CompressingRight(c) => CompressingRight(d)
  BY DEF CompressingRight
<1>. QED
  BY <1>1, <1>2, <1>3, <1>4, <1>5 DEF LoopInv

LEMMA Destroyed ==
  ASSUME NEW c, LoopInv(c)
  PROVE  LoopInv(Destroy(c)) /\ (CompressingRight(c) => CompressingRight(Destroy(c)))
<1>. DEFINE d == Destroy(c)
<1>1. c \in Connections
  BY DEF LoopInv
<1>2. /\ d \in Connections
      /\ d.deflate = c.deflate /\ d.queue = c.queue /\ d.index = c.index /\ d.flush = c.flush
      /\ d.inflight = c.inflight /\ d.wire = c.wire /\ d.sent = c.sent
      /\ d.reported = c.reported /\ d.pendingClose = c.pendingClose /\ d.closedBy = c.closedBy
      /\ d.destroyed /\ d.state = c.state /\ d.writable = c.writable /\ d.timer = c.timer
  BY <1>1 DEF Connections, Destroy
<1>. HIDE DEF d
<1>3. LoopInv(d) /\ (CompressingRight(c) => CompressingRight(d))
  BY <1>2, MildStep
<1>. QED
  BY <1>3 DEF d


\* A socket whose queue was dropped, for good.
LEMMA DroppedStep ==
  ASSUME NEW c, NEW d \in Connections, LoopInv(c),
         d.deflate = c.deflate, d.queue = <<>>, d.index = 0, d.flush = c.flush,
         d.inflight = c.inflight, d.wire = c.wire, d.sent = c.sent,
         ~d.pendingClose, d.closedBy = c.closedBy,
         c.destroyed => d.destroyed, d.destroyed \/ d.reported, d.state # OPEN,
         c.writable # "open" => d.writable # "open",
         d.reported => ~d.timer
  PROVE  LoopInv(d) /\ (CompressingRight(c) => CompressingRight(d))
<1>0. Len(d.queue) = 0 /\ DOMAIN d.queue = {}
  OBVIOUS
<1>1. WireRight(d)
  BY DEF LoopInv, WireRight
<1>2. ClosingRight(d)
  BY DEF LoopInv, ClosingRight
<1>3. QueueRight(d)
  BY <1>0 DEF LoopInv, QueueRight, Waits
<1>4. Accounted(d)
  BY <1>0, <1>2 DEF Accounted
<1>5. CompressingRight(c) => CompressingRight(d)
  BY DEF CompressingRight
<1>. QED
  BY <1>1, <1>2, <1>3, <1>4, <1>5 DEF LoopInv

LEMMA DropEffect ==
  ASSUME NEW c \in Connections
  PROVE  LET d == Drop(c) IN
         /\ d \in Connections
         /\ d.deflate = c.deflate /\ d.queue = <<>> /\ d.index = 0 /\ d.flush = c.flush
         /\ d.inflight = c.inflight /\ d.wire = c.wire /\ d.sent = c.sent
         /\ ~d.pendingClose /\ d.closedBy = c.closedBy /\ d.destroyed = c.destroyed
         /\ d.state = c.state /\ d.writable = c.writable /\ d.reported = c.reported
         /\ d.timer = c.timer
<1>1. <<>> \in Seq(1 .. MaxSends)
  BY EmptySeq
<1>. QED
  BY <1>1 DEF Connections, Drop

LEMMA Terminated ==
  ASSUME NEW c, CInv(c)
  PROVE  /\ CInv(Terminate(c))
         /\ CInv(Terminate([c EXCEPT !.timer = FALSE]))
<1>0. c \in Connections
  BY DEF CInv, LoopInv
<1>1. ASSUME NEW b, b \in Connections, b = c \/ b = [c EXCEPT !.timer = FALSE]
      PROVE  CInv(Terminate(b))
  <2>. DEFINE d == Terminate(b)
  <2>1. /\ d \in Connections
        /\ d.deflate = b.deflate /\ d.queue = <<>> /\ d.index = 0 /\ d.flush = b.flush
        /\ d.inflight = b.inflight /\ d.wire = b.wire /\ d.sent = b.sent
        /\ ~d.pendingClose /\ d.closedBy = b.closedBy /\ d.destroyed /\ d.state = CLOSED
        /\ d.writable = b.writable /\ d.reported = b.reported /\ d.timer = b.timer
    <3>. DEFINE e == Drop(b)
    <3>1. /\ e \in Connections
          /\ e.deflate = b.deflate /\ e.queue = <<>> /\ e.index = 0 /\ e.flush = b.flush
          /\ e.inflight = b.inflight /\ e.wire = b.wire /\ e.sent = b.sent
          /\ ~e.pendingClose /\ e.closedBy = b.closedBy
          /\ e.writable = b.writable /\ e.reported = b.reported /\ e.timer = b.timer
      BY <1>1, DropEffect
    <3>2. d = [[e EXCEPT !.state = CLOSED] EXCEPT !.destroyed = TRUE]
      BY DEF Terminate, Destroy
    <3>. HIDE DEF d, e
    <3>. QED
      BY <3>1, <3>2 DEF Connections
  <2>2. /\ b.deflate = c.deflate /\ b.flush = c.flush /\ b.inflight = c.inflight
        /\ b.wire = c.wire /\ b.sent = c.sent /\ b.closedBy = c.closedBy
        /\ b.writable = c.writable /\ b.reported = c.reported /\ (b.timer => c.timer)
    BY <1>0, <1>1 DEF Connections
  <2>3. c.reported => ~c.timer
    BY DEF CInv, LoopInv, ClosingRight
  <2>. HIDE DEF d
  <2>4. d.state # OPEN
    BY <2>1 DEF OPEN, CLOSED
  <2>5. LoopInv(d) /\ (CompressingRight(c) => CompressingRight(d))
    BY <2>1, <2>2, <2>3, <2>4, DroppedStep DEF CInv
  <2>. QED
    BY <2>5 DEF CInv, d
<1>2. [c EXCEPT !.timer = FALSE] \in Connections
  BY <1>0 DEF Connections
<1>. QED
  BY <1>0, <1>1, <1>2

LEMMA CloseHandled ==
  ASSUME NEW c, CInv(c)
  PROVE  CInv(HandleClose(c))
<1>0. c \in Connections
  BY DEF CInv, LoopInv
<1>1. CASE c.reported
  BY <1>1 DEF HandleClose
<1>2. CASE ~c.reported
  <2>. DEFINE d == HandleClose(c)
  <2>1. /\ d \in Connections
        /\ d.deflate = c.deflate /\ d.queue = <<>> /\ d.index = 0 /\ d.flush = c.flush
        /\ d.inflight = c.inflight /\ d.wire = c.wire /\ d.sent = c.sent
        /\ ~d.pendingClose /\ d.closedBy = c.closedBy /\ d.destroyed = c.destroyed
        /\ d.state = CLOSED
        /\ d.writable = c.writable /\ d.reported /\ ~d.timer
    <3>. DEFINE e == Drop(c)
    <3>1. /\ e \in Connections
          /\ e.deflate = c.deflate /\ e.queue = <<>> /\ e.index = 0 /\ e.flush = c.flush
          /\ e.inflight = c.inflight /\ e.wire = c.wire /\ e.sent = c.sent
          /\ ~e.pendingClose /\ e.closedBy = c.closedBy /\ e.destroyed = c.destroyed
          /\ e.writable = c.writable /\ e.reported = c.reported
      BY <1>0, DropEffect
    <3>2. d = [e EXCEPT !.reported = TRUE, !.timer = FALSE, !.state = CLOSED]
      BY <1>2 DEF HandleClose
    <3>. HIDE DEF d, e
    <3>. QED
      BY <3>1, <3>2 DEF Connections
  <2>. HIDE DEF d
  <2>2. d.state # OPEN
    BY <2>1 DEF OPEN, CLOSED
  <2>3. LoopInv(d) /\ (CompressingRight(c) => CompressingRight(d))
    BY <2>1, <2>2, DroppedStep DEF CInv
  <2>. QED
    BY <2>3 DEF CInv, d
<1>. QED
  BY <1>1, <1>2

-----------------------------------------------------------------------------
(* What is written.                                                        *)

\* The frame is written, or the socket is destroyed for good.
LEMMA WriteEffect ==
  ASSUME NEW c \in Connections, NEW frame \in Frames, NEW full \in BOOLEAN
  PROVE  LET d == Write(c, frame, full) IN
         /\ d \in Connections
         /\ d.deflate = c.deflate /\ d.queue = c.queue /\ d.index = c.index /\ d.flush = c.flush
         /\ d.inflight = c.inflight /\ d.sent = c.sent /\ d.reported = c.reported
         /\ d.pendingClose = c.pendingClose /\ d.closedBy = c.closedBy /\ d.state = c.state
         /\ d.writable = c.writable /\ d.timer = c.timer /\ d.sentClose = c.sentClose
         /\ \/ d.wire = c.wire /\ d.destroyed
            \/ /\ d.wire = Append(c.wire, frame) /\ c.writable = "open"
               /\ ~c.destroyed /\ ~d.destroyed
<1>0. c.wire \in Seq(Frames)
  BY DEF Connections, Frames
<1>1. Append(c.wire, frame) \in Seq(Frames)
  BY <1>0, Appended
<1>2. CASE c.destroyed
  BY <1>2 DEF Write
<1>3. CASE ~c.destroyed /\ c.writable # "open"
  BY <1>3 DEF Write, Connections
<1>4. CASE ~c.destroyed /\ c.writable = "open"
  <2>1. [c EXCEPT !.wire = Append(@, frame), !.needDrain = @ \/ full] \in Connections
    BY <1>1, <1>4 DEF Connections, Frames
  <2>. QED
    BY <1>4, <2>1 DEF Write, Connections
<1>. QED
  BY <1>2, <1>3, <1>4

\* ping(), pong(), and the pong of the connection's own.
LEMMA ControlWritten ==
  ASSUME NEW c, CInv(c), NEW type \in {"ping", "pong"}, NEW full \in BOOLEAN
  PROVE  CInv(Write(c, Control(type), full))
<1>. DEFINE d == Write(c, Control(type), full)
<1>0. c \in Connections /\ Control(type) \in Frames /\ c.wire \in Seq(Frames)
  BY ConnectionAssumption DEF CInv, LoopInv, Control, Frames, Connections
<1>1. /\ d \in Connections
      /\ d.deflate = c.deflate /\ d.queue = c.queue /\ d.index = c.index /\ d.flush = c.flush
      /\ d.inflight = c.inflight /\ d.sent = c.sent /\ d.reported = c.reported
      /\ d.pendingClose = c.pendingClose /\ d.closedBy = c.closedBy /\ d.state = c.state
      /\ d.writable = c.writable /\ d.timer = c.timer
      /\ \/ d.wire = c.wire /\ d.destroyed
         \/ /\ d.wire = Append(c.wire, Control(type)) /\ c.writable = "open"
            /\ ~c.destroyed /\ ~d.destroyed
  BY <1>0, WriteEffect
<1>2. CASE d.wire = c.wire /\ d.destroyed
  BY <1>1, <1>2, MildStep DEF CInv
<1>3. CASE d.wire = Append(c.wire, Control(type)) /\ c.writable = "open" /\ ~c.destroyed /\ ~d.destroyed
  <2>. HIDE DEF d
  <2>1. /\ Sorted(c.wire) /\ CloseLast(c.wire) /\ ~HasClose(c.wire) /\ Before(c.wire, c.sent + 1)
    BY <1>3 DEF CInv, LoopInv, WireRight
  <2>2. /\ Sorted(d.wire) /\ CloseLast(d.wire) /\ ~HasClose(d.wire)
        /\ \A id : Before(c.wire, id) => Before(d.wire, id)
        /\ \A id : Has(c.wire, id) => Has(d.wire, id)
    BY <1>0, <1>3, <2>1, WireWithControl
  <2>3. WireRight(d)
    BY <1>1, <2>1, <2>2 DEF WireRight
  <2>4. ClosingRight(d)
    BY <1>1, <1>3, <2>2 DEF CInv, LoopInv, ClosingRight
  <2>5. QueueRight(d)
    BY <1>1, <2>2 DEF CInv, LoopInv, QueueRight, Waits
  <2>6. Accounted(d)
    BY <1>1, <1>3, <2>2 DEF CInv, LoopInv, Accounted, Waits
  <2>7. CompressingRight(d)
    BY <1>1, <2>2 DEF CInv, CompressingRight
  <2>. QED
    BY <1>1, <2>3, <2>4, <2>5, <2>6, <2>7 DEF CInv, LoopInv, d
<1>. QED
  BY <1>1, <1>2, <1>3

\* The close frame of close(), with nothing left to flush.
LEMMA CloseFrameWritten ==
  ASSUME NEW c, LoopInv(c), c.flush # "compressing", c.index >= Len(c.queue),
         ~c.reported, c.state # OPEN
  PROVE  LET d == WriteCloseFrame(c) IN
         /\ CInv(d) /\ d.flush = c.flush /\ d.queue = c.queue /\ d.index = c.index
         /\ d.pendingClose = c.pendingClose /\ d.sent = c.sent
<1>. DEFINE b == [c EXCEPT !.sentClose = TRUE]
            e == Write(b, Control("close"), FALSE)
            by == IF Wrote(c, FALSE) THEN "application" ELSE c.closedBy
            f == [e EXCEPT !.timer = TRUE,
                           !.closedBy = IF Wrote(c, FALSE) THEN "application" ELSE @]
            d == EndRaw(f)
<1>0. c \in Connections /\ Control("close") \in Frames /\ c.wire \in Seq(Frames)
  BY ConnectionAssumption DEF LoopInv, Control, Frames, Connections
<1>1. /\ b \in Connections
      /\ b.deflate = c.deflate /\ b.queue = c.queue /\ b.index = c.index /\ b.flush = c.flush
      /\ b.inflight = c.inflight /\ b.sent = c.sent /\ b.reported = c.reported
      /\ b.pendingClose = c.pendingClose /\ b.closedBy = c.closedBy /\ b.state = c.state
      /\ b.writable = c.writable /\ b.timer = c.timer
      /\ b.wire = c.wire /\ b.destroyed = c.destroyed
  BY <1>0 DEF Connections
<1>2. /\ e \in Connections
      /\ e.deflate = c.deflate /\ e.queue = c.queue /\ e.index = c.index /\ e.flush = c.flush
      /\ e.inflight = c.inflight /\ e.sent = c.sent /\ e.reported = c.reported
      /\ e.pendingClose = c.pendingClose /\ e.closedBy = c.closedBy /\ e.state = c.state
      /\ e.writable = c.writable
      /\ \/ e.wire = c.wire /\ e.destroyed
         \/ /\ e.wire = Append(c.wire, Control("close")) /\ c.writable = "open"
            /\ ~c.destroyed /\ ~e.destroyed
  <2>. HIDE DEF b
  <2>1. /\ e \in Connections
        /\ e.deflate = b.deflate /\ e.queue = b.queue /\ e.index = b.index /\ e.flush = b.flush
        /\ e.inflight = b.inflight /\ e.sent = b.sent /\ e.reported = b.reported
        /\ e.pendingClose = b.pendingClose /\ e.closedBy = b.closedBy /\ e.state = b.state
        /\ e.writable = b.writable
        /\ \/ e.wire = b.wire /\ e.destroyed
           \/ /\ e.wire = Append(b.wire, Control("close")) /\ b.writable = "open"
              /\ ~b.destroyed /\ ~e.destroyed
    BY <1>0, <1>1, WriteEffect
  <2>. HIDE DEF e
  <2>. QED
    BY <1>1, <2>1
<1>. HIDE DEF e
<1>3. /\ f \in Connections
      /\ f.deflate = c.deflate /\ f.queue = c.queue /\ f.index = c.index /\ f.flush = c.flush
      /\ f.inflight = c.inflight /\ f.sent = c.sent /\ f.reported = c.reported
      /\ f.pendingClose = c.pendingClose /\ f.closedBy = by /\ f.state = c.state
      /\ f.writable = c.writable /\ f.timer /\ f.destroyed = e.destroyed /\ f.wire = e.wire
  BY <1>2 DEF Connections
<1>. HIDE DEF f
<1>4. /\ d \in Connections
      /\ d.deflate = c.deflate /\ d.queue = c.queue /\ d.index = c.index /\ d.flush = c.flush
      /\ d.inflight = c.inflight /\ d.sent = c.sent /\ d.reported = c.reported
      /\ d.pendingClose = c.pendingClose /\ d.closedBy = by /\ d.state = c.state
      /\ d.timer /\ d.destroyed = e.destroyed /\ d.wire = e.wire
      /\ d.writable # "open" \/ d.destroyed
  <2>1. CASE f.destroyed \/ f.writable # "open"
    BY <1>3, <2>1 DEF EndRaw
  <2>2. CASE ~(f.destroyed \/ f.writable # "open")
    <3>1. d = [f EXCEPT !.writable = "ended"]
      BY <2>2 DEF EndRaw
    <3>. HIDE DEF d
    <3>. QED
      BY <1>3, <3>1 DEF Connections
  <2>. QED
    BY <2>1, <2>2
<1>5. d = WriteCloseFrame(c)
  BY DEF WriteCloseFrame, e, f
<1>w. Wrote(c, FALSE) <=> c.writable = "open" /\ ~c.destroyed
  BY DEF Wrote
<1>. HIDE DEF d
<1>6. /\ Sorted(c.wire) /\ CloseLast(c.wire) /\ Before(c.wire, c.sent + 1)
      /\ HasClose(c.wire) => c.writable # "open" \/ c.destroyed
  BY DEF LoopInv, WireRight
<1>7. /\ Sorted(d.wire) /\ CloseLast(d.wire)
      /\ \A id : Before(c.wire, id) => Before(d.wire, id)
      /\ \A id : Has(c.wire, id) => Has(d.wire, id)
  <2>1. CASE e.wire = c.wire
    BY <1>4, <1>6, <2>1
  <2>2. CASE e.wire = Append(c.wire, Control("close")) /\ c.writable = "open" /\ ~c.destroyed
    <3>1. ~HasClose(c.wire) /\ d.wire = Append(c.wire, Control("close"))
      BY <1>4, <1>6, <2>2
    <3>. QED
      BY <1>0, <1>6, <3>1, WireWithControl
  <2>. QED
    BY <1>2, <2>1, <2>2
<1>8. WireRight(d)
  BY <1>4, <1>6, <1>7 DEF WireRight
<1>9. ~c.destroyed => \A id \in 1 .. c.sent : Has(c.wire, id)
  <2>1. \A id : ~Waits(c, id)
    BY <1>0 DEF Waits, Connections
  <2>. QED
    BY <2>1 DEF LoopInv, Accounted
<1>10. ClosingRight(d)
  <2>1. /\ c.pendingClose => c.state # OPEN
        /\ c.closedBy = "application" => \A id \in 1 .. c.sent : Has(c.wire, id)
    BY DEF LoopInv, ClosingRight
  <2>2. d.closedBy = "application" => \A id \in 1 .. d.sent : Has(d.wire, id)
    BY <1>4, <1>7, <1>9, <1>w, <2>1
  <2>. QED
    BY <1>4, <2>1, <2>2 DEF ClosingRight
<1>11. QueueRight(d)
  BY <1>4, <1>7 DEF LoopInv, QueueRight, Waits
<1>12. Accounted(d)
  <2>1. d.destroyed \/ ~c.destroyed
    BY <1>2, <1>4
  <2>. QED
    BY <1>4, <1>7, <1>9, <2>1 DEF Accounted
<1>13. CompressingRight(d)
  BY <1>4 DEF CompressingRight
<1>. QED
  BY <1>4, <1>5, <1>8, <1>10, <1>11, <1>12, <1>13 DEF CInv, LoopInv

-----------------------------------------------------------------------------
(* The flush loop.                                                         *)

\* Forgetting the close that waits changes nothing else the invariant speaks of.
LEMMA PendingCloseCleared ==
  ASSUME NEW c, CInv(c)
  PROVE  CInv([c EXCEPT !.pendingClose = FALSE])
<1>. DEFINE d == [c EXCEPT !.pendingClose = FALSE]
<1>0. c \in Connections
  BY DEF CInv, LoopInv
<1>1. /\ d \in Connections
      /\ d.deflate = c.deflate /\ d.queue = c.queue /\ d.index = c.index /\ d.flush = c.flush
      /\ d.inflight = c.inflight /\ d.wire = c.wire /\ d.sent = c.sent
      /\ d.reported = c.reported /\ ~d.pendingClose /\ d.closedBy = c.closedBy
      /\ d.destroyed = c.destroyed /\ d.state = c.state /\ d.writable = c.writable
      /\ d.timer = c.timer
  BY <1>0 DEF Connections
<1>. HIDE DEF d
<1>2. WireRight(d) /\ ClosingRight(d)
  BY <1>1 DEF CInv, LoopInv, WireRight, ClosingRight
<1>3. QueueRight(d) /\ Accounted(d)
  BY <1>1 DEF CInv, LoopInv, QueueRight, Accounted, Waits
<1>4. CompressingRight(d)
  BY <1>1 DEF CInv, CompressingRight
<1>. QED
  BY <1>1, <1>2, <1>3, <1>4 DEF CInv, LoopInv, d

\* The loop ends, with the queue empty or kept; the close frame that waited is written.
LEMMA FlushEnded ==
  ASSUME NEW c, LoopInv(c)
  PROVE  CInv(FlushEnds(c))
<1>. DEFINE over == c.index >= Len(c.queue)
            d == IF over THEN [c EXCEPT !.queue = <<>>, !.index = 0, !.flush = "off"]
                 ELSE [c EXCEPT !.flush = "off"]
<1>0. c \in Connections /\ <<>> \in Seq(1 .. MaxSends) /\ Len(c.queue) \in Nat /\ c.index \in Nat
  BY EmptySeq DEF LoopInv, Connections
<1>1. /\ d \in Connections
      /\ d.deflate = c.deflate /\ d.flush = "off"
      /\ d.inflight = c.inflight /\ d.wire = c.wire /\ d.sent = c.sent
      /\ d.reported = c.reported /\ d.pendingClose = c.pendingClose /\ d.closedBy = c.closedBy
      /\ d.destroyed = c.destroyed /\ d.state = c.state /\ d.writable = c.writable
      /\ d.timer = c.timer
      /\ \/ over /\ d.queue = <<>> /\ d.index = 0
         \/ ~over /\ d.queue = c.queue /\ d.index = c.index
  BY <1>0 DEF Connections
<1>2. FlushEnds(c) = IF d.pendingClose /\ ~HasPendingCompressedFrames(d) /\ ~d.destroyed
                     THEN [WriteCloseFrame(d) EXCEPT !.pendingClose = FALSE]
                     ELSE d
  BY DEF FlushEnds
<1>. HIDE DEF d
<1>3. \A id : Waits(d, id) <=> Waits(c, id)
  <2>1. CASE over /\ d.queue = <<>> /\ d.index = 0
    BY <1>0, <2>1 DEF Waits, Connections
  <2>2. CASE ~over /\ d.queue = c.queue /\ d.index = c.index
    BY <2>2 DEF Waits
  <2>. QED
    BY <1>1, <2>1, <2>2
<1>4. WireRight(d) /\ ClosingRight(d)
  BY <1>1 DEF LoopInv, WireRight, ClosingRight
<1>5. QueueRight(d)
  <2>1. \A id \in 1 .. d.sent : Waits(d, id) => Before(d.wire, id)
    BY <1>1, <1>3 DEF LoopInv, QueueRight
  <2>2. CASE d.queue = <<>> /\ d.index = 0
    <3>1. DOMAIN d.queue = {} /\ Len(d.queue) = 0
      BY <2>2
    <3>. QED
      BY <1>1, <2>1, <2>2, <3>1 DEF QueueRight
  <2>3. CASE d.queue = c.queue /\ d.index = c.index
    BY <1>1, <2>1, <2>3 DEF LoopInv, QueueRight
  <2>. QED
    BY <1>1, <2>2, <2>3
<1>6. Accounted(d)
  BY <1>1, <1>3 DEF LoopInv, Accounted
<1>7. CompressingRight(d)
  BY <1>1 DEF CompressingRight
<1>8. LoopInv(d) /\ CInv(d)
  BY <1>1, <1>4, <1>5, <1>6, <1>7 DEF LoopInv, CInv
<1>9. CASE d.pendingClose /\ ~HasPendingCompressedFrames(d) /\ ~d.destroyed
  <2>1. d.flush # "compressing" /\ d.index >= Len(d.queue) /\ ~d.reported /\ d.state # OPEN
    <3>1. d.index \in Nat /\ Len(d.queue) \in Nat
      BY <1>1 DEF Connections
    <3>. QED
      BY <1>4, <1>9, <3>1 DEF HasPendingCompressedFrames, ClosingRight
  <2>2. CInv(WriteCloseFrame(d))
    BY <1>8, <2>1, CloseFrameWritten
  <2>. QED
    BY <1>2, <1>9, <2>2, PendingCloseCleared
<1>. QED
  BY <1>2, <1>8, <1>9

LEMMA FlushLoops ==
  ASSUME NEW c, LoopInv(c), c.deflate
  PROVE  CInv(FlushLoop(c))
<1>0. /\ c \in Connections /\ c.queue \in Seq(1 .. MaxSends) /\ Len(c.queue) \in Nat
      /\ c.index \in Nat /\ DOMAIN c.queue = 1 .. Len(c.queue) /\ c.sent \in Nat
      /\ c.sent <= MaxSends
  BY ConnectionAssumption DEF LoopInv, Connections
<1>1. CASE c.index < Len(c.queue) /\ ~c.destroyed
  <2>. DEFINE id == c.queue[c.index + 1]
              d == [c EXCEPT !.flush = "compressing", !.inflight = id]
  <2>1. /\ c.index + 1 \in DOMAIN c.queue /\ id \in 1 .. MaxSends /\ id \in 0 .. MaxSends
    <3>1. c.index + 1 \in 1 .. Len(c.queue)
      BY <1>0, <1>1
    <3>2. id \in 1 .. MaxSends
      BY <1>0, <3>1, ElementOfSeq
    <3>. QED
      BY <1>0, <3>1, <3>2, ConnectionAssumption
  <2>2. /\ d \in Connections
        /\ d.deflate = c.deflate /\ d.queue = c.queue /\ d.index = c.index
        /\ d.flush = "compressing"
        /\ d.inflight = id /\ d.wire = c.wire /\ d.sent = c.sent
        /\ d.reported = c.reported /\ d.pendingClose = c.pendingClose /\ d.closedBy = c.closedBy
        /\ d.destroyed = c.destroyed /\ d.state = c.state /\ d.writable = c.writable
        /\ d.timer = c.timer
    <3>. HIDE DEF id
    <3>. QED
      BY <1>0, <2>1 DEF Connections
  <2>3. FlushLoop(c) = d
    BY <1>1 DEF FlushLoop
  <2>4. id \in 1 .. c.sent
    BY <1>0, <2>1 DEF LoopInv, QueueRight
  <2>5. Waits(c, id)
    BY <1>0, <2>1 DEF Waits
  <2>6. Before(c.wire, id)
    BY <2>4, <2>5 DEF LoopInv, QueueRight
  <2>. HIDE DEF d
  <2>7. WireRight(d) /\ ClosingRight(d)
    BY <2>2 DEF LoopInv, WireRight, ClosingRight
  <2>8. QueueRight(d) /\ Accounted(d)
    BY <2>2 DEF LoopInv, QueueRight, Accounted, Waits
  <2>9. CompressingRight(d)
    BY <1>1, <2>2, <2>4, <2>6 DEF CompressingRight
  <2>. QED
    BY <2>2, <2>3, <2>7, <2>8, <2>9 DEF CInv, LoopInv
<1>2. CASE ~(c.index < Len(c.queue) /\ ~c.destroyed)
  BY <1>2, FlushEnded DEF FlushLoop
<1>. QED
  BY <1>1, <1>2

LEMMA FlushStarted ==
  ASSUME NEW c, CInv(c), c.deflate
  PROVE  CInv(FlushCompressedQueue(c))
BY FlushLoops DEF FlushCompressedQueue, CInv

LEMMA FlushFails ==
  ASSUME NEW c, LoopInv(c)
  PROVE  CInv(FlushFailed(c))
BY Destroyed, FlushEnded DEF FlushFailed

\* The frame in compression is written: what it was in the queue, it is on the wire.
LEMMA InflightWritten ==
  ASSUME NEW c, CInv(c), c.flush = "compressing", NEW full \in BOOLEAN
  PROVE  LET e == Write([c EXCEPT !.index = @ + 1], Data(c.inflight), full) IN
         LoopInv(e) /\ e.deflate
<1>. DEFINE id == c.inflight
            d == [c EXCEPT !.index = @ + 1]
            e == Write(d, Data(id), full)
<1>0. /\ c \in Connections /\ c.queue \in Seq(1 .. MaxSends) /\ Len(c.queue) \in Nat
      /\ c.index \in Nat /\ DOMAIN c.queue = 1 .. Len(c.queue) /\ c.sent \in Nat
      /\ c.sent <= MaxSends /\ c.wire \in Seq(Frames)
  BY ConnectionAssumption DEF CInv, LoopInv, Connections, Frames
<1>c. /\ id \in 1 .. c.sent /\ id \in 1 .. MaxSends
      /\ Before(c.wire, id)
      /\ \/ c.index < Len(c.queue) /\ id = c.queue[c.index + 1]
         \/ c.queue = <<>> /\ c.index = 0 /\ c.state # OPEN
  BY <1>0, ConnectionAssumption DEF CInv, CompressingRight
<1>1. /\ d \in Connections
      /\ d.deflate = c.deflate /\ d.queue = c.queue /\ d.index = c.index + 1 /\ d.flush = c.flush
      /\ d.inflight = c.inflight /\ d.sent = c.sent /\ d.reported = c.reported
      /\ d.pendingClose = c.pendingClose /\ d.closedBy = c.closedBy /\ d.state = c.state
      /\ d.writable = c.writable /\ d.timer = c.timer
      /\ d.wire = c.wire /\ d.destroyed = c.destroyed
  <2>1. c.index + 1 \in Nat
    BY <1>0
  <2>. QED
    BY <1>0, <2>1 DEF Connections
<1>f. Data(id) \in Frames
  BY <1>c DEF Data, Frames
<1>. HIDE DEF d
<1>2. /\ e \in Connections
      /\ e.deflate = d.deflate /\ e.queue = d.queue /\ e.index = d.index /\ e.flush = d.flush
      /\ e.sent = d.sent /\ e.reported = d.reported
      /\ e.pendingClose = d.pendingClose /\ e.closedBy = d.closedBy /\ e.state = d.state
      /\ e.writable = d.writable /\ e.timer = d.timer
      /\ \/ e.wire = d.wire /\ e.destroyed
         \/ /\ e.wire = Append(d.wire, Data(id)) /\ d.writable = "open"
            /\ ~d.destroyed /\ ~e.destroyed
  BY <1>1, <1>f, WriteEffect
<1>. HIDE DEF e
<1>3. /\ e.deflate = c.deflate /\ e.queue = c.queue /\ e.index = c.index + 1
      /\ e.flush = c.flush /\ e.sent = c.sent /\ e.reported = c.reported
      /\ e.pendingClose = c.pendingClose /\ e.closedBy = c.closedBy /\ e.state = c.state
      /\ e.writable = c.writable /\ e.timer = c.timer
      /\ \/ e.wire = c.wire /\ e.destroyed
         \/ /\ e.wire = Append(c.wire, Data(id)) /\ c.writable = "open"
            /\ ~c.destroyed /\ ~e.destroyed
  BY <1>1, <1>2
<1>4. /\ Sorted(c.wire) /\ CloseLast(c.wire) /\ Before(c.wire, c.sent + 1)
      /\ HasClose(c.wire) => c.writable # "open" \/ c.destroyed
  BY DEF CInv, LoopInv, WireRight
<1>5. /\ Sorted(e.wire) /\ CloseLast(e.wire)
      /\ HasClose(e.wire) => e.writable # "open" \/ e.destroyed
      /\ \A later \in Nat : Before(c.wire, later) /\ id < later => Before(e.wire, later)
      /\ \A other : Has(c.wire, other) => Has(e.wire, other)
      /\ e.destroyed \/ Has(e.wire, id)
  <2>1. CASE e.wire = c.wire /\ e.destroyed
    BY <1>4, <2>1
  <2>2. CASE e.wire = Append(c.wire, Data(id)) /\ c.writable = "open" /\ ~c.destroyed
    <3>1. ~HasClose(c.wire)
      BY <1>4, <2>2
    <3>. QED
      BY <1>0, <1>c, <1>4, <2>2, <3>1, WireWithData
  <2>. QED
    BY <1>3, <2>1, <2>2
<1>w. ASSUME NEW other \in 1 .. c.sent
      PROVE  /\ Waits(e, other) => Waits(c, other) /\ id < other
             /\ Waits(c, other) => Waits(e, other) \/ other = id
  <2>1. CASE c.queue = <<>>
    BY <1>3, <2>1 DEF Waits
  <2>2. CASE c.index < Len(c.queue) /\ id = c.queue[c.index + 1]
    <3>1. c.index + 1 \in DOMAIN c.queue
      BY <1>0, <2>2
    <3>2. \A i, j \in DOMAIN c.queue : i < j => c.queue[i] < c.queue[j]
      BY DEF CInv, LoopInv, QueueRight
    <3>3. \A i \in DOMAIN c.queue : i > c.index + 1 => id < c.queue[i] /\ i > c.index
      BY <1>0, <2>2, <3>1, <3>2
    <3>4. \A i \in DOMAIN c.queue : i > c.index => i > c.index + 1 \/ i = c.index + 1
      BY <1>0
    <3>. QED
      BY <1>3, <2>2, <3>3, <3>4 DEF Waits
  <2>. QED
    BY <1>c, <2>1, <2>2
<1>6. WireRight(e)
  <2>1. Before(e.wire, e.sent + 1)
    BY <1>0, <1>c, <1>3, <1>4, <1>5
  <2>. QED
    BY <1>5, <2>1 DEF WireRight
<1>7. ClosingRight(e)
  <2>1. ClosingRight(c) /\ (c.destroyed => e.destroyed)
    BY <1>3 DEF CInv, LoopInv
  <2>. QED
    BY <1>3, <1>5, <2>1 DEF ClosingRight
<1>8. QueueRight(e)
  <2>1. \A other \in 1 .. e.sent : Waits(e, other) => Before(e.wire, other)
    <3>. SUFFICES ASSUME NEW other \in 1 .. c.sent, Waits(e, other) PROVE Before(e.wire, other)
      BY <1>3
    <3>1. Before(c.wire, other) /\ id < other /\ other \in Nat
      BY <1>0, <1>w DEF CInv, LoopInv, QueueRight
    <3>. QED
      BY <1>5, <3>1
  <2>2. e.index <= Len(e.queue) \/ (e.queue = <<>> /\ e.index <= 1 /\ e.state # OPEN)
    BY <1>0, <1>c, <1>3
  <2>. QED
    BY <1>3, <2>1, <2>2 DEF CInv, LoopInv, QueueRight
<1>9. Accounted(e)
  <2>1. c.destroyed => e.destroyed
    BY <1>3
  <2>. QED
    BY <1>3, <1>5, <1>w, <2>1 DEF CInv, LoopInv, Accounted
<1>10. e.deflate
  BY <1>3 DEF CInv, LoopInv, QueueRight, Connections
<1>. QED
  BY <1>2, <1>6, <1>7, <1>8, <1>9, <1>10 DEF LoopInv, e, d

\* compress() resolved.
LEMMA CompressedFlushed ==
  ASSUME NEW c, CInv(c), c.flush = "compressing", NEW full \in BOOLEAN
  PROVE  CInv(FlushCompressed(c, full))
<1>. DEFINE b == [c EXCEPT !.index = @ + 1]
            e == Write(b, Data(c.inflight), full)
            d == [e EXCEPT !.flush = "draining"]
<1>1. LoopInv(e) /\ e.deflate
  BY InflightWritten
<1>2. FlushCompressed(c, full) = IF Wrote(b, full) \/ e.destroyed THEN FlushLoop(e) ELSE d
  BY DEF FlushCompressed
<1>. HIDE DEF e
<1>3. CInv(FlushLoop(e))
  BY <1>1, FlushLoops
<1>4. CInv(d)
  <2>0. e \in Connections
    BY <1>1 DEF LoopInv
  <2>1. /\ d \in Connections
        /\ d.deflate /\ d.queue = e.queue /\ d.index = e.index /\ d.flush = "draining"
        /\ d.inflight = e.inflight /\ d.wire = e.wire /\ d.sent = e.sent
        /\ d.reported = e.reported /\ d.pendingClose = e.pendingClose /\ d.closedBy = e.closedBy
        /\ d.destroyed = e.destroyed /\ d.state = e.state /\ d.writable = e.writable
        /\ d.timer = e.timer
    BY <1>1, <2>0 DEF Connections
  <2>. HIDE DEF d
  <2>2. WireRight(d) /\ ClosingRight(d)
    BY <1>1, <2>1 DEF LoopInv, WireRight, ClosingRight
  <2>3. QueueRight(d) /\ Accounted(d)
    BY <1>1, <2>1 DEF LoopInv, QueueRight, Accounted, Waits
  <2>4. CompressingRight(d)
    BY <2>1 DEF CompressingRight
  <2>. QED
    BY <2>1, <2>2, <2>3, <2>4 DEF CInv, LoopInv
<1>. QED
  BY <1>2, <1>3, <1>4

-----------------------------------------------------------------------------
(* The calls of the application.                                           *)

LEMMA BeforeLater ==
  ASSUME NEW wire \in Seq(Frames), NEW id \in Nat, Before(wire, id)
  PROVE  Before(wire, id + 1)
<1>1. \A i \in DOMAIN wire : wire[i] \in Frames
  BY ElementOfSeq, LenProperties
<1>2. \A i \in DOMAIN wire : wire[i].id \in Nat
  BY <1>1, ConnectionAssumption DEF Frames
<1>. QED
  BY <1>2 DEF Before

\* A message goes into the queue.
LEMMA MessageQueued ==
  ASSUME NEW c, CInv(c), c.state = OPEN, c.sent < MaxSends, c.deflate
  PROVE  LET d == [c EXCEPT !.sent = @ + 1]
             e == [d EXCEPT !.queue = Append(@, d.sent)]
         IN  CInv(e) /\ e.deflate
<1>. DEFINE n == Len(c.queue)
            d == [c EXCEPT !.sent = @ + 1]
            e == [d EXCEPT !.queue = Append(@, d.sent)]
<1>0. /\ c \in Connections /\ c.queue \in Seq(1 .. MaxSends) /\ n \in Nat
      /\ c.index \in Nat /\ DOMAIN c.queue = 1 .. n /\ c.sent \in Nat
      /\ c.sent <= MaxSends /\ c.wire \in Seq(Frames) /\ MaxSends \in Nat
  BY ConnectionAssumption DEF CInv, LoopInv, Connections, Frames
<1>1. c.sent + 1 \in 0 .. MaxSends /\ c.sent + 1 \in 1 .. MaxSends
  BY <1>0
<1>2. /\ d \in Connections /\ d.sent = c.sent + 1
      /\ d.deflate = c.deflate /\ d.index = c.index /\ d.flush = c.flush /\ d.queue = c.queue
      /\ d.inflight = c.inflight /\ d.wire = c.wire
      /\ d.reported = c.reported /\ d.pendingClose = c.pendingClose /\ d.closedBy = c.closedBy
      /\ d.destroyed = c.destroyed /\ d.state = c.state /\ d.writable = c.writable
      /\ d.timer = c.timer
  BY <1>0, <1>1 DEF Connections
<1>. HIDE DEF d
<1>3. /\ Append(c.queue, c.sent + 1) \in Seq(1 .. MaxSends)
      /\ Len(Append(c.queue, c.sent + 1)) = n + 1
      /\ DOMAIN Append(c.queue, c.sent + 1) = 1 .. n + 1
      /\ \A i \in 1 .. n : Append(c.queue, c.sent + 1)[i] = c.queue[i]
      /\ Append(c.queue, c.sent + 1)[n + 1] = c.sent + 1
  BY <1>0, <1>1, AppendProperties, LenProperties
<1>4. e.queue = Append(c.queue, c.sent + 1)
  BY <1>2 DEF Connections
<1>5. /\ e \in Connections /\ e.sent = c.sent + 1
      /\ e.deflate = c.deflate /\ e.index = c.index /\ e.flush = c.flush
      /\ e.inflight = c.inflight /\ e.wire = c.wire
      /\ e.reported = c.reported /\ e.pendingClose = c.pendingClose /\ e.closedBy = c.closedBy
      /\ e.destroyed = c.destroyed /\ e.state = c.state /\ e.writable = c.writable
      /\ e.timer = c.timer
  BY <1>2, <1>3 DEF Connections
<1>. HIDE DEF e
<1>6. /\ Len(e.queue) = n + 1 /\ DOMAIN e.queue = 1 .. n + 1
      /\ \A i \in 1 .. n : e.queue[i] = c.queue[i]
      /\ e.queue[n + 1] = c.sent + 1
  BY <1>3, <1>4
<1>. HIDE DEF n
<1>7. c.index <= n
  BY DEF CInv, LoopInv, QueueRight, n
<1>8. \A i \in DOMAIN c.queue : c.queue[i] \in Nat /\ c.queue[i] <= c.sent
  <2>1. \A i \in DOMAIN c.queue : c.queue[i] \in 1 .. MaxSends
    BY <1>0, ElementOfSeq DEF n
  <2>. QED
    BY <1>0, <2>1 DEF CInv, LoopInv, QueueRight
<1>w. \A id : Waits(e, id) <=> Waits(c, id) \/ id = c.sent + 1
  <2>1. n + 1 \in DOMAIN e.queue /\ n + 1 > c.index
    BY <1>0, <1>6, <1>7
  <2>2. \A i \in DOMAIN e.queue : i \in DOMAIN c.queue \/ i = n + 1
    BY <1>0, <1>6
  <2>3. \A i \in DOMAIN c.queue : i \in DOMAIN e.queue /\ e.queue[i] = c.queue[i]
    BY <1>0, <1>6
  <2>. QED
    BY <1>5, <1>6, <2>1, <2>2, <2>3 DEF Waits
<1>9. WireRight(e)
  <2>1. Before(c.wire, c.sent + 1)
    BY DEF CInv, LoopInv, WireRight
  <2>2. Before(e.wire, e.sent + 1)
    BY <1>0, <1>5, <2>1, BeforeLater
  <2>. QED
    BY <1>5, <2>2 DEF CInv, LoopInv, WireRight
<1>10. ClosingRight(e)
  BY <1>5 DEF CInv, LoopInv, ClosingRight
<1>11. QueueRight(e)
  <2>1. \A i, j \in DOMAIN e.queue : i < j => e.queue[i] < e.queue[j]
    <3>. SUFFICES ASSUME NEW i \in DOMAIN e.queue, NEW j \in DOMAIN e.queue, i < j
                  PROVE  e.queue[i] < e.queue[j]
      OBVIOUS
    <3>1. i \in DOMAIN c.queue /\ e.queue[i] = c.queue[i]
      BY <1>0, <1>6
    <3>2. CASE j \in DOMAIN c.queue
      BY <1>0, <1>6, <3>1, <3>2 DEF CInv, LoopInv, QueueRight
    <3>3. CASE j = n + 1
      BY <1>0, <1>6, <1>8, <3>1, <3>3
    <3>. QED
      BY <1>0, <1>6, <3>2, <3>3
  <2>2. \A i \in DOMAIN e.queue : e.queue[i] <= e.sent
    <3>. SUFFICES ASSUME NEW i \in DOMAIN e.queue PROVE e.queue[i] <= c.sent + 1
      BY <1>5
    <3>1. CASE i \in DOMAIN c.queue
      <4>1. e.queue[i] = c.queue[i] /\ c.queue[i] \in Nat /\ c.queue[i] <= c.sent
        BY <1>0, <1>6, <1>8, <3>1
      <4>. QED
        BY <1>0, <4>1
    <3>2. CASE i = n + 1
      BY <1>0, <1>6, <3>2
    <3>. QED
      BY <1>0, <1>6, <3>1, <3>2
  <2>3. e.index <= Len(e.queue)
    BY <1>0, <1>5, <1>6, <1>7
  <2>4. \A id \in 1 .. e.sent : Waits(e, id) => Before(e.wire, id)
    <3>. SUFFICES ASSUME NEW id \in 1 .. e.sent, Waits(e, id) PROVE Before(e.wire, id)
      OBVIOUS
    <3>1. CASE id = c.sent + 1
      BY <1>5, <3>1 DEF CInv, LoopInv, WireRight
    <3>2. CASE id # c.sent + 1
      <4>1. id \in 1 .. c.sent /\ Waits(c, id)
        BY <1>0, <1>5, <1>w, <3>2
      <4>. QED
        BY <1>5, <4>1 DEF CInv, LoopInv, QueueRight
    <3>. QED
      BY <3>1, <3>2
  <2>. QED
    BY <1>5, <2>1, <2>2, <2>3, <2>4 DEF QueueRight
<1>12. Accounted(e)
  <2>1. \A id \in 1 .. e.sent : id \in 1 .. c.sent \/ id = c.sent + 1
    BY <1>0, <1>5
  <2>. QED
    BY <1>5, <1>w, <2>1 DEF CInv, LoopInv, Accounted
<1>13. CompressingRight(e)
  <2>. SUFFICES ASSUME c.flush = "compressing"
                PROVE  /\ c.inflight \in 1 .. c.sent + 1 /\ Before(c.wire, c.inflight)
                       /\ c.index < n + 1 /\ c.inflight = e.queue[c.index + 1]
    BY <1>5, <1>6 DEF CompressingRight
  <2>1. /\ c.inflight \in 1 .. c.sent /\ Before(c.wire, c.inflight)
        /\ c.index < n /\ c.inflight = c.queue[c.index + 1]
    BY DEF CInv, CompressingRight, n
  <2>2. c.index + 1 \in 1 .. n /\ c.index < n + 1
    BY <1>0, <2>1
  <2>3. c.inflight = e.queue[c.index + 1]
    BY <1>6, <2>1, <2>2
  <2>4. c.inflight \in 1 .. c.sent + 1
    BY <1>0, <2>1
  <2>. QED
    BY <2>1, <2>2, <2>3, <2>4
<1>. QED
  BY <1>5, <1>9, <1>10, <1>11, <1>12, <1>13 DEF CInv, LoopInv, e, d

\* A message goes to the wire at once.
LEMMA MessageWritten ==
  ASSUME NEW c, CInv(c), c.state = OPEN, c.sent < MaxSends, ~c.deflate, NEW full \in BOOLEAN
  PROVE  LET d == [c EXCEPT !.sent = @ + 1] IN CInv(Write(d, Data(d.sent), full))
<1>. DEFINE id == c.sent + 1
            d == [c EXCEPT !.sent = @ + 1]
            e == Write(d, Data(d.sent), full)
<1>0. /\ c \in Connections /\ c.sent \in Nat /\ c.wire \in Seq(Frames) /\ MaxSends \in Nat
      /\ c.sent <= MaxSends /\ c.index \in Nat
  BY ConnectionAssumption DEF CInv, LoopInv, Connections, Frames
<1>1. id \in 0 .. MaxSends /\ id \in 1 .. MaxSends
  BY <1>0
<1>2. /\ d \in Connections /\ d.sent = id
      /\ d.deflate = c.deflate /\ d.index = c.index /\ d.flush = c.flush /\ d.queue = c.queue
      /\ d.inflight = c.inflight /\ d.wire = c.wire
      /\ d.reported = c.reported /\ d.pendingClose = c.pendingClose /\ d.closedBy = c.closedBy
      /\ d.destroyed = c.destroyed /\ d.state = c.state /\ d.writable = c.writable
      /\ d.timer = c.timer
  BY <1>0, <1>1 DEF Connections
<1>f. Data(id) \in Frames
  BY <1>1 DEF Data, Frames
<1>. HIDE DEF d
<1>3. /\ e \in Connections
      /\ e.deflate = d.deflate /\ e.queue = d.queue /\ e.index = d.index /\ e.flush = d.flush
      /\ e.sent = d.sent /\ e.reported = d.reported
      /\ e.pendingClose = d.pendingClose /\ e.closedBy = d.closedBy /\ e.state = d.state
      /\ e.writable = d.writable /\ e.timer = d.timer
      /\ \/ e.wire = d.wire /\ e.destroyed
         \/ /\ e.wire = Append(d.wire, Data(id)) /\ d.writable = "open"
            /\ ~d.destroyed /\ ~e.destroyed
  BY <1>2, <1>f, WriteEffect
<1>. HIDE DEF e
<1>4. /\ e.deflate = c.deflate /\ e.queue = c.queue /\ e.index = c.index /\ e.flush = c.flush
      /\ e.sent = c.sent + 1 /\ e.reported = c.reported
      /\ e.pendingClose = c.pendingClose /\ e.closedBy = c.closedBy /\ e.state = c.state
      /\ e.writable = c.writable /\ e.timer = c.timer
      /\ \/ e.wire = c.wire /\ e.destroyed
         \/ /\ e.wire = Append(c.wire, Data(id)) /\ c.writable = "open"
            /\ ~c.destroyed /\ ~e.destroyed
  BY <1>2, <1>3
<1>5. /\ Sorted(c.wire) /\ CloseLast(c.wire) /\ Before(c.wire, id)
      /\ HasClose(c.wire) => c.writable # "open" \/ c.destroyed
  BY DEF CInv, LoopInv, WireRight
<1>6. /\ Sorted(e.wire) /\ CloseLast(e.wire)
      /\ HasClose(e.wire) => e.writable # "open" \/ e.destroyed
      /\ Before(e.wire, id + 1)
      /\ \A other : Has(c.wire, other) => Has(e.wire, other)
      /\ e.destroyed \/ Has(e.wire, id)
  <2>0. Before(c.wire, id + 1) /\ id < id + 1 /\ id + 1 \in Nat
    BY <1>0, <1>5, BeforeLater
  <2>1. CASE e.wire = c.wire /\ e.destroyed
    BY <1>5, <2>0, <2>1
  <2>2. CASE e.wire = Append(c.wire, Data(id)) /\ c.writable = "open" /\ ~c.destroyed
    <3>1. ~HasClose(c.wire)
      BY <1>5, <2>2
    <3>. HIDE DEF id
    <3>. QED
      BY <1>0, <1>1, <1>5, <2>0, <2>2, <3>1, WireWithData
  <2>. QED
    BY <1>4, <2>1, <2>2
<1>7. WireRight(e)
  BY <1>4, <1>6 DEF WireRight
<1>8. ClosingRight(e)
  BY <1>4 DEF CInv, LoopInv, ClosingRight
<1>q. c.queue = <<>> /\ c.flush = "off" /\ DOMAIN c.queue = {} /\ Len(c.queue) = 0 /\ c.index <= 0
  BY DEF CInv, LoopInv, QueueRight
<1>9. QueueRight(e)
  BY <1>4, <1>q DEF QueueRight, Waits
<1>10. Accounted(e)
  <2>1. \A other \in 1 .. e.sent : other \in 1 .. c.sent \/ other = id
    BY <1>0, <1>4
  <2>2. \A other : ~Waits(c, other)
    BY <1>q DEF Waits
  <2>3. c.destroyed => e.destroyed
    BY <1>4
  <2>. QED
    BY <1>4, <1>6, <2>1, <2>2, <2>3 DEF CInv, LoopInv, Accounted
<1>11. CompressingRight(e)
  BY <1>4, <1>q DEF CompressingRight
<1>. QED
  BY <1>3, <1>7, <1>8, <1>9, <1>10, <1>11 DEF CInv, LoopInv, e, d

LEMMA MessageSent ==
  ASSUME NEW c, CInv(c), c.state = OPEN, c.sent < MaxSends, NEW full \in BOOLEAN
  PROVE  CInv(Send(c, full))
<1>. DEFINE d == [c EXCEPT !.sent = @ + 1]
            e == [d EXCEPT !.queue = Append(@, d.sent)]
<1>1. CASE c.deflate
  <2>1. CInv(e) /\ e.deflate
    BY <1>1, MessageQueued
  <2>2. Send(c, full) = FlushCompressedQueue(e)
    BY <1>1 DEF Send
  <2>. HIDE DEF e
  <2>. QED
    BY <2>1, <2>2, FlushStarted
<1>2. CASE ~c.deflate
  BY <1>2, MessageWritten DEF Send
<1>. QED
  BY <1>1, <1>2

\* close() of an open socket.
LEMMA SocketClosed ==
  ASSUME NEW c, CInv(c), c.state = OPEN
  PROVE  CInv(CloseSocket(c))
<1>. DEFINE d == [c EXCEPT !.state = CLOSING]
            e == [d EXCEPT !.pendingClose = TRUE]
<1>0. c \in Connections /\ CLOSING \in {OPEN, CLOSING, CLOSED} /\ CLOSING # OPEN
  BY DEF CInv, LoopInv, OPEN, CLOSING, CLOSED
<1>1. /\ d \in Connections /\ d.state # OPEN
      /\ d.deflate = c.deflate /\ d.queue = c.queue /\ d.index = c.index /\ d.flush = c.flush
      /\ d.inflight = c.inflight /\ d.wire = c.wire /\ d.sent = c.sent
      /\ d.reported = c.reported /\ d.pendingClose = c.pendingClose /\ d.closedBy = c.closedBy
      /\ d.destroyed = c.destroyed /\ d.writable = c.writable /\ d.timer = c.timer
  BY <1>0 DEF Connections
<1>2. CloseSocket(c) = IF HasPendingCompressedFrames(d) THEN FlushCompressedQueue(e)
                       ELSE WriteCloseFrame(d)
  BY DEF CloseSocket
<1>r. ~c.reported /\ c.closedBy = "nobody"
  BY DEF CInv, LoopInv, ClosingRight
<1>. HIDE DEF d
<1>3. CInv(d)
  BY <1>1, MildStep DEF CInv
<1>4. CASE HasPendingCompressedFrames(d)
  <2>1. /\ e \in Connections /\ e.state = d.state
        /\ e.deflate = d.deflate /\ e.queue = d.queue /\ e.index = d.index /\ e.flush = d.flush
        /\ e.inflight = d.inflight /\ e.wire = d.wire /\ e.sent = d.sent
        /\ e.reported = d.reported /\ e.closedBy = d.closedBy
        /\ e.destroyed = d.destroyed /\ e.writable = d.writable /\ e.timer = d.timer
    BY <1>1 DEF Connections
  <2>. HIDE DEF e
  <2>2. WireRight(e) /\ ClosingRight(e)
    BY <1>1, <1>3, <1>r, <2>1 DEF CInv, LoopInv, WireRight, ClosingRight
  <2>3. QueueRight(e) /\ Accounted(e)
    BY <1>3, <2>1 DEF CInv, LoopInv, QueueRight, Accounted, Waits
  <2>4. CompressingRight(e)
    BY <1>3, <2>1 DEF CInv, CompressingRight
  <2>5. CInv(e)
    BY <2>1, <2>2, <2>3, <2>4 DEF CInv, LoopInv
  <2>6. e.deflate
    <3>1. d.index \in Nat
      BY <1>1 DEF Connections
    <3>2. ~d.deflate => Len(d.queue) = 0 /\ d.flush = "off"
      BY <1>3 DEF CInv, LoopInv, QueueRight
    <3>. QED
      BY <1>1, <1>4, <2>1, <3>1, <3>2 DEF HasPendingCompressedFrames, Connections
  <2>. QED
    BY <1>2, <1>4, <2>5, <2>6, FlushStarted
<1>5. CASE ~HasPendingCompressedFrames(d)
  <2>1. d.flush # "compressing" /\ d.index >= Len(d.queue)
    <3>1. d.index \in Nat /\ Len(d.queue) \in Nat
      BY <1>1 DEF Connections
    <3>. QED
      BY <1>5, <3>1 DEF HasPendingCompressedFrames
  <2>. QED
    BY <1>1, <1>2, <1>3, <1>5, <1>r, <2>1, CloseFrameWritten DEF CInv
<1>. QED
  BY <1>4, <1>5

-----------------------------------------------------------------------------
(* The frames of the peer, and the events of the socket.                   *)

\* The connection's own close frame, in answer to the peer's or to what it broke.  After it
\* the socket is ended or destroyed.
LEMMA OwnCloseWritten ==
  ASSUME NEW c, NEW d \in Connections, CInv(c),
         d.deflate = c.deflate, d.queue = c.queue, d.index = c.index, d.flush = c.flush,
         d.inflight = c.inflight, d.sent = c.sent, d.reported = c.reported,
         d.timer = c.timer, d.pendingClose => c.pendingClose,
         d.closedBy = c.closedBy \/ d.closedBy \in {"peer", "failure"},
         d.state # OPEN,
         d.writable # "open" \/ d.destroyed,
         \/ d.wire = c.wire /\ (c.destroyed => d.destroyed)
         \/ d.wire = Append(c.wire, Control("close")) /\ c.writable = "open" /\ ~c.destroyed
  PROVE  CInv(d)
<1>0. c.wire \in Seq(Frames)
  BY DEF CInv, LoopInv, Connections, Frames
<1>1. /\ Sorted(c.wire) /\ CloseLast(c.wire) /\ Before(c.wire, c.sent + 1)
      /\ HasClose(c.wire) => c.writable # "open" \/ c.destroyed
  BY DEF CInv, LoopInv, WireRight
<1>2. /\ Sorted(d.wire) /\ CloseLast(d.wire)
      /\ \A id : Before(c.wire, id) => Before(d.wire, id)
      /\ \A id : Has(c.wire, id) => Has(d.wire, id)
  <2>1. CASE d.wire = c.wire
    BY <1>1, <2>1
  <2>2. CASE d.wire = Append(c.wire, Control("close")) /\ c.writable = "open" /\ ~c.destroyed
    <3>1. ~HasClose(c.wire)
      BY <1>1, <2>2
    <3>. QED
      BY <1>0, <1>1, <2>2, <3>1, WireWithControl
  <2>. QED
    BY <2>1, <2>2
<1>3. WireRight(d)
  BY <1>1, <1>2 DEF WireRight
<1>4. ClosingRight(d)
  <2>1. c.destroyed => d.destroyed
    OBVIOUS
  <2>2. ClosingRight(c)
    BY DEF CInv, LoopInv
  <2>3. d.closedBy = "application" => c.closedBy = "application"
    OBVIOUS
  <2>. QED
    BY <1>2, <2>1, <2>2, <2>3 DEF ClosingRight
<1>5. QueueRight(d)
  BY <1>2 DEF CInv, LoopInv, QueueRight, Waits
<1>6. Accounted(d)
  <2>1. c.destroyed => d.destroyed
    OBVIOUS
  <2>. QED
    BY <1>2, <2>1 DEF CInv, LoopInv, Accounted, Waits
<1>7. CompressingRight(d)
  BY <1>2 DEF CInv, CompressingRight
<1>. QED
  BY <1>3, <1>4, <1>5, <1>6, <1>7 DEF CInv, LoopInv

LEMMA WriteOwnCloseEffect ==
  ASSUME NEW c \in Connections, NEW by \in {"peer", "failure"}
  PROVE  LET d == WriteOwnClose(c, by) IN
         /\ d \in Connections
         /\ d.deflate = c.deflate /\ d.queue = c.queue /\ d.index = c.index /\ d.flush = c.flush
         /\ d.inflight = c.inflight /\ d.sent = c.sent /\ d.reported = c.reported
         /\ d.pendingClose = c.pendingClose /\ d.state = c.state
         /\ d.writable = c.writable /\ d.timer = c.timer
         /\ d.closedBy = c.closedBy \/ d.closedBy = by
         /\ \/ d.wire = c.wire /\ d.destroyed
            \/ /\ d.wire = Append(c.wire, Control("close")) /\ c.writable = "open"
               /\ ~c.destroyed /\ ~d.destroyed
<1>. DEFINE b == [c EXCEPT !.sentClose = TRUE]
            e == Write(b, Control("close"), FALSE)
            d == WriteOwnClose(c, by)
<1>0. Control("close") \in Frames
  BY ConnectionAssumption DEF Control, Frames
<1>1. /\ b \in Connections
      /\ b.deflate = c.deflate /\ b.queue = c.queue /\ b.index = c.index /\ b.flush = c.flush
      /\ b.inflight = c.inflight /\ b.sent = c.sent /\ b.reported = c.reported
      /\ b.pendingClose = c.pendingClose /\ b.closedBy = c.closedBy /\ b.state = c.state
      /\ b.writable = c.writable /\ b.timer = c.timer
      /\ b.wire = c.wire /\ b.destroyed = c.destroyed
  BY DEF Connections
<1>2. d = [e EXCEPT !.closedBy = IF Wrote(c, FALSE) THEN by ELSE @]
  BY DEF WriteOwnClose
<1>. HIDE DEF b
<1>3. /\ e \in Connections
      /\ e.deflate = b.deflate /\ e.queue = b.queue /\ e.index = b.index /\ e.flush = b.flush
      /\ e.inflight = b.inflight /\ e.sent = b.sent /\ e.reported = b.reported
      /\ e.pendingClose = b.pendingClose /\ e.closedBy = b.closedBy /\ e.state = b.state
      /\ e.writable = b.writable /\ e.timer = b.timer
      /\ \/ e.wire = b.wire /\ e.destroyed
         \/ /\ e.wire = Append(b.wire, Control("close")) /\ b.writable = "open"
            /\ ~b.destroyed /\ ~e.destroyed
  BY <1>0, <1>1, WriteEffect
<1>. HIDE DEF e, d
<1>4. /\ d \in Connections
      /\ d.deflate = e.deflate /\ d.queue = e.queue /\ d.index = e.index /\ d.flush = e.flush
      /\ d.inflight = e.inflight /\ d.sent = e.sent /\ d.reported = e.reported
      /\ d.pendingClose = e.pendingClose /\ d.state = e.state
      /\ d.writable = e.writable /\ d.timer = e.timer
      /\ d.wire = e.wire /\ d.destroyed = e.destroyed
      /\ d.closedBy = e.closedBy \/ d.closedBy = by
  BY <1>2, <1>3 DEF Connections
<1>. QED
  BY <1>1, <1>3, <1>4 DEF d

LEMMA EndRawEffect ==
  ASSUME NEW c \in Connections
  PROVE  LET d == EndRaw(c) IN
         /\ d \in Connections
         /\ d.deflate = c.deflate /\ d.queue = c.queue /\ d.index = c.index /\ d.flush = c.flush
         /\ d.inflight = c.inflight /\ d.sent = c.sent /\ d.reported = c.reported
         /\ d.pendingClose = c.pendingClose /\ d.state = c.state /\ d.closedBy = c.closedBy
         /\ d.timer = c.timer /\ d.wire = c.wire /\ d.destroyed = c.destroyed
         /\ d.writable # "open" \/ d.destroyed
<1>. DEFINE d == EndRaw(c)
<1>1. CASE c.destroyed \/ c.writable # "open"
  BY <1>1 DEF EndRaw
<1>2. CASE ~(c.destroyed \/ c.writable # "open")
  <2>1. d = [c EXCEPT !.writable = "ended"]
    BY <1>2 DEF EndRaw
  <2>. HIDE DEF d
  <2>2. /\ d \in Connections
        /\ d.deflate = c.deflate /\ d.queue = c.queue /\ d.index = c.index /\ d.flush = c.flush
        /\ d.inflight = c.inflight /\ d.sent = c.sent /\ d.reported = c.reported
        /\ d.pendingClose = c.pendingClose /\ d.state = c.state /\ d.closedBy = c.closedBy
        /\ d.timer = c.timer /\ d.wire = c.wire /\ d.destroyed = c.destroyed
        /\ d.writable # "open"
    BY <2>1 DEF Connections
  <2>. QED
    BY <2>2 DEF d
<1>. QED
  BY <1>1, <1>2

\* A valid close frame of the peer is answered, unless the connection had sent its own.
LEMMA CloseFrameHandled ==
  ASSUME NEW c, CInv(c)
  PROVE  CInv(HandleCloseFrame(c))
<1>. DEFINE d == [c EXCEPT !.gotClose = TRUE]
            b == [d EXCEPT !.pendingClose = FALSE]
            e == IF d.sentClose THEN d ELSE WriteOwnClose(b, "peer")
            f == [e EXCEPT !.state = CLOSING]
            h == EndRaw(f)
<1>0. c \in Connections /\ CLOSING \in {OPEN, CLOSING, CLOSED} /\ CLOSING # OPEN
  BY DEF CInv, LoopInv, OPEN, CLOSING, CLOSED
<1>1. /\ d \in Connections
      /\ d.deflate = c.deflate /\ d.queue = c.queue /\ d.index = c.index /\ d.flush = c.flush
      /\ d.inflight = c.inflight /\ d.sent = c.sent /\ d.reported = c.reported
      /\ d.pendingClose = c.pendingClose /\ d.closedBy = c.closedBy
      /\ d.writable = c.writable /\ d.timer = c.timer
      /\ d.wire = c.wire /\ d.destroyed = c.destroyed
  BY <1>0 DEF Connections
<1>2. /\ b \in Connections
      /\ b.deflate = c.deflate /\ b.queue = c.queue /\ b.index = c.index /\ b.flush = c.flush
      /\ b.inflight = c.inflight /\ b.sent = c.sent /\ b.reported = c.reported
      /\ ~b.pendingClose /\ b.closedBy = c.closedBy
      /\ b.writable = c.writable /\ b.timer = c.timer
      /\ b.wire = c.wire /\ b.destroyed = c.destroyed
  <2>. HIDE DEF d
  <2>. QED
    BY <1>1 DEF Connections
<1>3. HandleCloseFrame(c) = h
  BY DEF HandleCloseFrame
<1>. HIDE DEF d, b
<1>4. /\ e \in Connections
      /\ e.deflate = c.deflate /\ e.queue = c.queue /\ e.index = c.index /\ e.flush = c.flush
      /\ e.inflight = c.inflight /\ e.sent = c.sent /\ e.reported = c.reported
      /\ e.pendingClose => c.pendingClose
      /\ e.closedBy = c.closedBy \/ e.closedBy = "peer"
      /\ e.writable = c.writable /\ e.timer = c.timer
      /\ \/ e.wire = c.wire /\ (c.destroyed => e.destroyed)
         \/ e.wire = Append(c.wire, Control("close")) /\ c.writable = "open" /\ ~c.destroyed
  <2>1. CASE d.sentClose
    BY <1>1, <2>1
  <2>2. CASE ~d.sentClose
    <3>1. e = WriteOwnClose(b, "peer")
      BY <2>2
    <3>. DEFINE g == WriteOwnClose(b, "peer")
    <3>2. /\ g \in Connections
          /\ g.deflate = b.deflate /\ g.queue = b.queue /\ g.index = b.index /\ g.flush = b.flush
          /\ g.inflight = b.inflight /\ g.sent = b.sent /\ g.reported = b.reported
          /\ g.pendingClose = b.pendingClose
          /\ g.writable = b.writable /\ g.timer = b.timer
          /\ g.closedBy = b.closedBy \/ g.closedBy = "peer"
          /\ \/ g.wire = b.wire /\ g.destroyed
             \/ g.wire = Append(b.wire, Control("close")) /\ b.writable = "open" /\ ~b.destroyed
      BY <1>2, WriteOwnCloseEffect
    <3>. HIDE DEF g
    <3>3. e = g
      BY <3>1 DEF g
    <3>. HIDE DEF e
    <3>. QED
      BY <1>2, <3>2, <3>3
  <2>. QED
    BY <2>1, <2>2
<1>. HIDE DEF e
<1>5. /\ f \in Connections
      /\ f.deflate = e.deflate /\ f.queue = e.queue /\ f.index = e.index /\ f.flush = e.flush
      /\ f.inflight = e.inflight /\ f.sent = e.sent /\ f.reported = e.reported
      /\ f.pendingClose = e.pendingClose /\ f.closedBy = e.closedBy
      /\ f.writable = e.writable /\ f.timer = e.timer
      /\ f.wire = e.wire /\ f.destroyed = e.destroyed /\ f.state = CLOSING
  BY <1>0, <1>4 DEF Connections
<1>. HIDE DEF f
<1>6. /\ h \in Connections
      /\ h.deflate = f.deflate /\ h.queue = f.queue /\ h.index = f.index /\ h.flush = f.flush
      /\ h.inflight = f.inflight /\ h.sent = f.sent /\ h.reported = f.reported
      /\ h.pendingClose = f.pendingClose /\ h.state = f.state /\ h.closedBy = f.closedBy
      /\ h.timer = f.timer /\ h.wire = f.wire /\ h.destroyed = f.destroyed
      /\ h.writable # "open" \/ h.destroyed
  BY <1>5, EndRawEffect
<1>. HIDE DEF h
<1>7. CInv(h)
  BY <1>0, <1>4, <1>5, <1>6, OwnCloseWritten
<1>. QED
  BY <1>3, <1>7

\* What the peer may not send destroys the socket, after a close frame if that was due.
LEMMA Failed ==
  ASSUME NEW c, CInv(c)
  PROVE  CInv(Fail(c))
<1>0. c \in Connections /\ CLOSING \in {OPEN, CLOSING, CLOSED} /\ CLOSING # OPEN
  BY DEF CInv, LoopInv, OPEN, CLOSING, CLOSED
<1>1. CASE ~(~c.sentClose /\ c.state < CLOSING)
  BY <1>1, Destroyed DEF Fail, CInv
<1>2. CASE ~c.sentClose /\ c.state < CLOSING
  <2>. DEFINE b == [c EXCEPT !.state = CLOSING]
              e == WriteOwnClose(b, "failure")
              d == [e EXCEPT !.destroyed = TRUE]
  <2>1. /\ b \in Connections
        /\ b.deflate = c.deflate /\ b.queue = c.queue /\ b.index = c.index /\ b.flush = c.flush
        /\ b.inflight = c.inflight /\ b.sent = c.sent /\ b.reported = c.reported
        /\ b.pendingClose = c.pendingClose /\ b.closedBy = c.closedBy /\ b.state = CLOSING
        /\ b.writable = c.writable /\ b.timer = c.timer
        /\ b.wire = c.wire /\ b.destroyed = c.destroyed
    BY <1>0 DEF Connections
  <2>2. Fail(c) = d
    BY <1>2 DEF Fail, Destroy
  <2>. HIDE DEF b
  <2>3. /\ e \in Connections
        /\ e.deflate = b.deflate /\ e.queue = b.queue /\ e.index = b.index /\ e.flush = b.flush
        /\ e.inflight = b.inflight /\ e.sent = b.sent /\ e.reported = b.reported
        /\ e.pendingClose = b.pendingClose /\ e.state = b.state /\ e.timer = b.timer
        /\ e.closedBy = b.closedBy \/ e.closedBy = "failure"
        /\ \/ e.wire = b.wire
           \/ e.wire = Append(b.wire, Control("close")) /\ b.writable = "open" /\ ~b.destroyed
    BY <2>1, WriteOwnCloseEffect
  <2>. HIDE DEF e
  <2>4. /\ d \in Connections
        /\ d.deflate = e.deflate /\ d.queue = e.queue /\ d.index = e.index /\ d.flush = e.flush
        /\ d.inflight = e.inflight /\ d.sent = e.sent /\ d.reported = e.reported
        /\ d.pendingClose = e.pendingClose /\ d.state = e.state /\ d.timer = e.timer
        /\ d.closedBy = e.closedBy /\ d.wire = e.wire /\ d.destroyed
    BY <2>3 DEF Connections
  <2>. HIDE DEF d
  <2>5. CInv(d)
    BY <1>0, <2>1, <2>3, <2>4, OwnCloseWritten
  <2>. QED
    BY <2>2, <2>5
<1>. QED
  BY <1>1, <1>2

\* Fields of the raw socket that the invariant does not speak of, or only in one direction.
SocketMoves(c, d) ==
  \/ \E paused \in BOOLEAN : d = [c EXCEPT !.paused = paused, !.rawPaused = paused]
  \/ d = [c EXCEPT !.gotClose = TRUE]
  \/ d = [c EXCEPT !.needDrain = FALSE]
  \/ d = [c EXCEPT !.rawClosed = TRUE]
  \/ d = [c EXCEPT !.readEnded = TRUE, !.state = IF @ < CLOSING THEN CLOSING ELSE @]
  \/ d = [c EXCEPT !.writable = "finished", !.needDrain = FALSE]

LEMMA SocketMoved ==
  ASSUME NEW c, NEW d, CInv(c), SocketMoves(c, d)
  PROVE  CInv(d)
<1>0. c \in Connections /\ CLOSING \in {OPEN, CLOSING, CLOSED} /\ CLOSING # OPEN
  BY DEF CInv, LoopInv, OPEN, CLOSING, CLOSED
<1>1. /\ d \in Connections
      /\ d.deflate = c.deflate /\ d.queue = c.queue /\ d.index = c.index /\ d.flush = c.flush
      /\ d.inflight = c.inflight /\ d.wire = c.wire /\ d.sent = c.sent
      /\ d.reported = c.reported /\ d.pendingClose = c.pendingClose /\ d.closedBy = c.closedBy
      /\ d.destroyed = c.destroyed /\ d.timer = c.timer
      /\ d.state = c.state \/ d.state = CLOSING
      /\ d.writable = c.writable \/ d.writable # "open"
  <2>1. CASE \E paused \in BOOLEAN : d = [c EXCEPT !.paused = paused, !.rawPaused = paused]
    BY <1>0, <2>1 DEF Connections
  <2>2. CASE d = [c EXCEPT !.gotClose = TRUE]
    BY <1>0, <2>2 DEF Connections
  <2>5. CASE d = [c EXCEPT !.needDrain = FALSE]
    BY <1>0, <2>5 DEF Connections
  <2>6. CASE d = [c EXCEPT !.rawClosed = TRUE]
    BY <1>0, <2>6 DEF Connections
  <2>3. CASE d = [c EXCEPT !.readEnded = TRUE, !.state = IF @ < CLOSING THEN CLOSING ELSE @]
    <3>1. CASE c.state < CLOSING
      <4>1. d = [c EXCEPT !.readEnded = TRUE, !.state = CLOSING]
        BY <2>3, <3>1
      <4>. QED
        BY <1>0, <4>1 DEF Connections
    <3>2. CASE ~(c.state < CLOSING)
      <4>1. d = [c EXCEPT !.readEnded = TRUE, !.state = c.state]
        BY <2>3, <3>2
      <4>. QED
        BY <1>0, <4>1 DEF Connections
    <3>. QED
      BY <3>1, <3>2
  <2>4. CASE d = [c EXCEPT !.writable = "finished", !.needDrain = FALSE]
    BY <1>0, <2>4 DEF Connections
  <2>. QED
    BY <2>1, <2>2, <2>3, <2>4, <2>5, <2>6 DEF SocketMoves
<1>. QED
  BY <1>0, <1>1, MildStep DEF CInv

LEMMA AutoDestroyed ==
  ASSUME NEW c, CInv(c)
  PROVE  CInv(AutoDestroy(c))
BY Destroyed DEF AutoDestroy, CInv

-----------------------------------------------------------------------------
(* The invariant.                                                          *)

ConnectionInv ==
  CInv(conn) /\ input \in Seq(Steps) /\ callback \in BOOLEAN /\ chunks \in 0 .. MaxChunks

LEMMA InitConnectionInv == Init => ConnectionInv
<1>. SUFFICES ASSUME Init PROVE ConnectionInv
  OBVIOUS
<1>1. PICK negotiated \in PerMessageDeflate :
        conn = [deflate |-> negotiated, state |-> OPEN, sentClose |-> FALSE, gotClose |-> FALSE,
             reported |-> FALSE, pendingClose |-> FALSE, timer |-> FALSE,
             paused |-> FALSE, rawPaused |-> FALSE,
             queue |-> <<>>, index |-> 0, flush |-> "off", inflight |-> 0,
             writable |-> "open", readEnded |-> FALSE, needDrain |-> FALSE,
             destroyed |-> FALSE, rawClosed |-> FALSE, wire |-> <<>>,
             sent |-> 0, closedBy |-> "nobody"]
  BY DEF Init
<1>2. /\ <<>> \in Seq(1 .. MaxSends) /\ <<>> \in Seq(Frames) /\ 0 \in 0 .. MaxSends
      /\ <<>> \in Seq(Steps) /\ 0 \in 0 .. MaxChunks
  BY EmptySeq, ConnectionAssumption
<1>3. conn \in Connections
  BY <1>1, <1>2 DEF Connections, Frames
<1>4. /\ conn.queue = <<>> /\ conn.index = 0 /\ conn.wire = <<>> /\ conn.flush = "off"
      /\ conn.sent = 0 /\ ~conn.reported /\ ~conn.pendingClose /\ conn.closedBy = "nobody"
      /\ DOMAIN conn.queue = {} /\ DOMAIN conn.wire = {} /\ Len(conn.queue) = 0
  BY <1>1
<1>5. WireRight(conn)
  BY <1>4 DEF WireRight, Sorted, CloseLast, HasClose, Before
<1>6. ClosingRight(conn)
  BY <1>4 DEF ClosingRight
<1>7. QueueRight(conn) /\ Accounted(conn)
  BY <1>4 DEF QueueRight, Accounted
<1>8. CompressingRight(conn)
  BY <1>4 DEF CompressingRight
<1>. QED
  BY <1>2, <1>3, <1>5, <1>6, <1>7, <1>8 DEF ConnectionInv, CInv, LoopInv, Init

LEMMA ApplicationStep ==
  ASSUME CInv(conn), Application
  PROVE  CInv(conn')
<1>1. CASE ApplicationSends
  BY <1>1, MessageSent DEF ApplicationSends
<1>2. CASE ApplicationPings
  BY <1>2, ControlWritten DEF ApplicationPings
<1>3. CASE ApplicationPauses \/ ApplicationResumes
  <2>1. SocketMoves(conn, conn')
    BY <1>3 DEF ApplicationPauses, ApplicationResumes, SocketMoves
  <2>. QED
    BY <2>1, SocketMoved
<1>4. CASE ApplicationCloses
  <2>1. conn.state = OPEN
    BY <1>4 DEF ApplicationCloses, CInv, LoopInv, Connections, OPEN, CLOSING, CLOSED
  <2>. QED
    BY <1>4, <2>1, SocketClosed DEF ApplicationCloses
<1>5. CASE ApplicationTerminates
  BY <1>5, Terminated DEF ApplicationTerminates
<1>. QED
  BY <1>1, <1>2, <1>3, <1>4, <1>5 DEF Application

LEMMA EventStep ==
  ASSUME CInv(conn), EventLoop
  PROVE  CInv(conn')
<1>1. CASE ChunkArrives
  BY <1>1 DEF ChunkArrives
<1>2. CASE CompressResolves
  BY <1>2, CompressedFlushed DEF CompressResolves
<1>3. CASE CompressRejects
  BY <1>3, FlushFails DEF CompressRejects, CInv
<1>4. CASE RawDrain
  <2>. DEFINE d == [conn EXCEPT !.needDrain = FALSE]
  <2>1. conn' = IF d.flush = "draining" THEN FlushLoop(d) ELSE d
    BY <1>4 DEF RawDrain
  <2>2. CInv(d)
    BY SocketMoved DEF SocketMoves
  <2>. HIDE DEF d
  <2>3. d.flush = "draining" => d.deflate
    BY <2>2 DEF CInv, LoopInv, QueueRight, Connections
  <2>. QED
    BY <2>1, <2>2, <2>3, FlushLoops DEF CInv
<1>5. CASE RawEnd
  <2>. DEFINE d == [conn EXCEPT !.readEnded = TRUE,
                                !.state = IF @ < CLOSING THEN CLOSING ELSE @]
  <2>1. conn' = AutoDestroy(HandleClose(d))
    BY <1>5 DEF RawEnd
  <2>2. CInv(d)
    BY SocketMoved DEF SocketMoves
  <2>. HIDE DEF d
  <2>. QED
    BY <2>1, <2>2, CloseHandled, AutoDestroyed
<1>6. CASE RawFinish
  <2>. DEFINE d == [conn EXCEPT !.writable = "finished", !.needDrain = FALSE]
  <2>1. conn' = AutoDestroy(IF d.state < CLOSING THEN d ELSE HandleClose(d))
    BY <1>6 DEF RawFinish
  <2>2. CInv(d)
    BY SocketMoved DEF SocketMoves
  <2>. HIDE DEF d
  <2>. QED
    BY <2>1, <2>2, CloseHandled, AutoDestroyed
<1>7. CASE RawError
  <2>. DEFINE d == Destroy(conn)
  <2>1. conn' = IF d.flush = "draining" THEN FlushFailed(d) ELSE d
    BY <1>7 DEF RawError
  <2>2. CInv(d)
    BY Destroyed DEF CInv
  <2>. HIDE DEF d
  <2>. QED
    BY <2>1, <2>2, FlushFails DEF CInv
<1>8. CASE RawClose
  <2>. DEFINE b == [conn EXCEPT !.rawClosed = TRUE]
              d == HandleClose(b)
  <2>1. conn' = IF d.flush = "draining" THEN FlushFailed(d) ELSE d
    BY <1>8 DEF RawClose
  <2>2. CInv(b)
    BY SocketMoved DEF SocketMoves
  <2>. HIDE DEF b
  <2>3. CInv(d)
    BY <2>2, CloseHandled
  <2>. HIDE DEF d
  <2>. QED
    BY <2>1, <2>3, FlushFails DEF CInv
<1>9. CASE CloseTimerFires
  BY <1>9, Terminated DEF CloseTimerFires
<1>. QED
  BY <1>1, <1>2, <1>3, <1>4, <1>5, <1>6, <1>7, <1>8, <1>9 DEF EventLoop

LEMMA FrameStep ==
  ASSUME CInv(conn), HandleFrame
  PROVE  CInv(conn')
<1>1. CASE OnData \/ OnPing
  BY <1>1 DEF OnData, OnPing
<1>2. CASE OnAutoPong
  BY <1>2, ControlWritten DEF OnAutoPong
<1>3. CASE OnClose
  BY <1>3, CloseFrameHandled DEF OnClose
<1>4. CASE OnInvalid
  <2>1. conn' = conn \/ conn' = [conn EXCEPT !.gotClose = TRUE]
    BY <1>4 DEF OnInvalid
  <2>2. conn' # conn => SocketMoves(conn, conn')
    BY <2>1 DEF SocketMoves
  <2>. QED
    BY <2>2, SocketMoved
<1>5. CASE OnFail
  BY <1>5, Failed DEF OnFail
<1>. QED
  BY <1>1, <1>2, <1>3, <1>4, <1>5 DEF HandleFrame

\* What is left of a chunk is a sequence of steps.
LEMMA InputTyped ==
  ASSUME ConnectionInv, Next
  PROVE  input' \in Seq(Steps) /\ callback' \in BOOLEAN /\ chunks' \in 0 .. MaxChunks
<1>0. input \in Seq(Steps) /\ callback \in BOOLEAN /\ chunks \in 0 .. MaxChunks
  BY DEF ConnectionInv
<1>1. CASE HandleFrame
  <2>1. input # <<>> /\ callback' \in BOOLEAN /\ chunks' = chunks
    BY <1>1 DEF HandleFrame, OnData, OnPing, OnAutoPong, OnClose, OnInvalid, OnFail, NextFrame
  <2>2. Tail(input) \in Seq(Steps) /\ <<>> \in Seq(Steps)
    BY <1>0, <2>1, EmptySeq, HeadTailProperties
  <2>3. <<"autoPong">> \in Seq(Steps) /\ <<"fail">> \in Seq(Steps)
    BY DEF Steps
  <2>4. <<"autoPong">> \o Tail(input) \in Seq(Steps)
    BY <2>2, <2>3, ConcatProperties
  <2>5. input' \in {Tail(input), <<"autoPong">> \o Tail(input), <<"fail">>, <<>>}
    BY <1>1 DEF HandleFrame, OnData, OnPing, OnAutoPong, OnClose, OnInvalid, OnFail, NextFrame
  <2>. QED
    BY <1>0, <2>1, <2>2, <2>3, <2>4, <2>5
<1>2. CASE ChunkArrives
  <2>1. PeerChunks \subseteq Seq({"data", "ping", "close", "invalid", "invalidClose"})
    BY ConnectionAssumption
  <2>2. ASSUME NEW s \in Seq({"data", "ping", "close", "invalid", "invalidClose"})
        PROVE  s \in Seq(Steps)
    BY <2>2 DEF Steps
  <2>3. chunks' \in 0 .. MaxChunks
    BY <1>0, <1>2, ConnectionAssumption DEF ChunkArrives
  <2>. QED
    BY <1>2, <2>1, <2>2, <2>3 DEF ChunkArrives
<1>3. CASE Application \/ (EventLoop /\ ~ChunkArrives)
  <2>1. UNCHANGED <<input, callback, chunks>>
    BY <1>3
    DEF Application, ApplicationSends, ApplicationPings, ApplicationPauses, ApplicationResumes,
        ApplicationCloses, ApplicationTerminates, ApplicationRuns, EventLoop, CompressResolves,
        CompressRejects, RawDrain, RawEnd, RawFinish, RawError, RawClose, CloseTimerFires,
        EventLoopTurn
  <2>. QED
    BY <1>0, <2>1
<1>. QED
  BY <1>1, <1>2, <1>3 DEF Next

LEMMA ConnectionInvStep == ConnectionInv /\ [Next]_vars => ConnectionInv'
<1>. SUFFICES ASSUME ConnectionInv, [Next]_vars PROVE ConnectionInv'
  OBVIOUS
<1>1. CASE UNCHANGED vars
  <2>1. conn' = conn /\ input' = input /\ callback' = callback /\ chunks' = chunks
    BY <1>1 DEF vars
  <2>2. CInv(conn')
    BY <2>1 DEF ConnectionInv
  <2>. QED
    BY <2>1, <2>2 DEF ConnectionInv
<1>2. CASE Next
  <2>1. CInv(conn')
    BY <1>2, ApplicationStep, EventStep, FrameStep DEF ConnectionInv, Next
  <2>. QED
    BY <1>2, <2>1, InputTyped DEF ConnectionInv
<1>. QED
  BY <1>1, <1>2

LEMMA ConnectionInvAlways == Spec => []ConnectionInv
BY InitConnectionInv, ConnectionInvStep, PTL DEF Spec

\* The connection, the rest of its chunk and the flush loop keep their types, for any number
\* of messages, pings and chunks.
THEOREM ConnectionTyped == Spec => []TypeOK
<1>1. ConnectionInv => TypeOK
  <2>. SUFFICES ASSUME ConnectionInv PROVE conn.index <= Len(conn.queue) + 1
    BY DEF ConnectionInv, CInv, LoopInv, TypeOK
  <2>1. conn.index \in Nat /\ Len(conn.queue) \in Nat
    BY DEF ConnectionInv, CInv, LoopInv, Connections
  <2>2. conn.index <= Len(conn.queue) \/ (conn.queue = <<>> /\ conn.index <= 1)
    BY DEF ConnectionInv, CInv, LoopInv, QueueRight
  <2>. QED
    BY <2>1, <2>2
<1>. QED
  BY <1>1, ConnectionInvAlways, PTL

\* Messages leave in the order of send(), each once, and a close frame comes last, however
\* compression, close(), the peer's close frame and its errors interleave.
THEOREM WireKeepsOrder == Spec => []WireOrderly
<1>1. ConnectionInv => WireOrderly
  BY DEF ConnectionInv, CInv, LoopInv, WireRight, Sorted, CloseLast, WireOrderly, WireInOrder,
         CloseFrameLast
<1>. QED
  BY <1>1, ConnectionInvAlways, PTL

\* The close frame of close() comes after every message sent before it.
THEOREM CloseComesAfterMessages == Spec => []FlushedBeforeClose
<1>1. ConnectionInv => FlushedBeforeClose
  BY DEF ConnectionInv, CInv, LoopInv, ClosingRight, Has, FlushedBeforeClose, OnWire
<1>. QED
  BY <1>1, ConnectionInvAlways, PTL

\* A close frame that waits for its answer is guarded by the close timer, which goes with the
\* report of the close.
THEOREM CloseIsGuarded == Spec => []TimerGuardsClose
<1>1. ConnectionInv => TimerGuardsClose
  BY DEF ConnectionInv, CInv, LoopInv, ClosingRight, TimerGuardsClose
<1>. QED
  BY <1>1, ConnectionInvAlways, PTL

-----------------------------------------------------------------------------
(* Sums over finite sets, as SumFunctionOnSet chooses and adds.           *)

\* A set of natural numbers with 0 that is closed under successor has them all.
LEMMA SetInduction ==
  ASSUME NEW N \in SUBSET Nat, 0 \in N, \A n \in N : n + 1 \in N
  PROVE  \A n \in Nat : n \in N
<1>. SUFFICES ASSUME Nat \ N # {} PROVE FALSE
  OBVIOUS
<1>. DEFINE R == OpToRel(<, Nat)
            T == Nat \ N
<1>1. IsWellFoundedOn(R, Nat)
  BY NatLessThanWellFounded
<1>2. \A x, y \in Nat : x < y => <<x, y>> \in R
  BY DEF OpToRel
<1>. HIDE DEF R
<1>3. PICK x \in T : \A y \in T : ~ (<<y, x>> \in R)
  <2>1. T \subseteq Nat /\ T # {}
    OBVIOUS
  <2>. HIDE DEF T
  <2>. QED
    BY <1>1, <2>1, WFMin
<1>4. x # 0 /\ x - 1 \in Nat
  BY <1>3
<1>5. x - 1 \notin T
  <2>1. x \in Nat /\ x - 1 < x
    BY <1>4
  <2>2. <<x - 1, x>> \in R
    BY <1>2, <1>4, <2>1
  <2>. HIDE DEF T
  <2>. QED
    BY <1>3, <2>2
<1>6. (x - 1) + 1 \in N
  BY <1>4, <1>5
<1>. QED
  BY <1>3, <1>6

\* The element that CHOOSE takes.
Pick(s) == CHOOSE x \in s : TRUE

\* g sums f over the subsets of S, as SumFunctionOnSet does.
Sums(f, S, g) == g = [s \in SUBSET S |-> IF s = {} THEN 0 ELSE f[Pick(s)] + g[s \ {Pick(s)}]]

LEMMA SumIsChosen ==
  ASSUME NEW f, NEW S
  PROVE  SumFunctionOnSet(f, S) = (CHOOSE g : Sums(f, S, g))[S]
BY Zenon DEF SumFunctionOnSet, FoldFunctionOnSet, MapThenFoldSet, Sums, Pick

\* Without its chosen element a set has one element less.
LEMMA Picked ==
  ASSUME NEW S, IsFiniteSet(S), NEW s \in SUBSET S, s # {}
  PROVE  /\ Pick(s) \in s
         /\ s \ {Pick(s)} \in SUBSET S
         /\ Cardinality(s) \in Nat /\ Cardinality(s \ {Pick(s)}) \in Nat
         /\ Cardinality(s \ {Pick(s)}) + 1 = Cardinality(s)
<1>1. Pick(s) \in s
  BY DEF Pick
<1>2. IsFiniteSet(s) /\ IsFiniteSet(s \ {Pick(s)})
  BY FS_Subset
<1>3. Cardinality(s) \in Nat /\ Cardinality(s \ {Pick(s)}) \in Nat
  BY <1>2, FS_CardinalityType
<1>. QED
  BY <1>1, <1>2, <1>3, FS_RemoveElement

\* There is such a g, with natural numbers for its values.
LEMMA SumsExist ==
  ASSUME NEW D, NEW f \in [D -> Nat], NEW S \in SUBSET D, IsFiniteSet(S)
  PROVE  \E g \in [SUBSET S -> Nat] : Sums(f, S, g)
<1>. DEFINE Small(n) == {s \in SUBSET S : Cardinality(s) <= n}
            Good(n, g) == \A s \in Small(n) :
                            g[s] = IF s = {} THEN 0 ELSE f[Pick(s)] + g[s \ {Pick(s)}]
            N == {n \in Nat : \E g \in [Small(n) -> Nat] : Good(n, g)}
<1>1. 0 \in N
  <2>. DEFINE g == [s \in Small(0) |-> 0]
  <2>1. \A s \in Small(0) : s = {}
    BY FS_EmptySet, FS_Subset, FS_CardinalityType
  <2>2. g \in [Small(0) -> Nat] /\ Good(0, g)
    BY <2>1
  <2>. QED
    BY <2>2
<1>2. ASSUME NEW n \in N PROVE n + 1 \in N
  <2>1. PICK g \in [Small(n) -> Nat] : Good(n, g)
    OBVIOUS
  <2>. DEFINE h == [s \in Small(n + 1) |-> IF s = {} THEN 0 ELSE f[Pick(s)] + g[s \ {Pick(s)}]]
  <2>2. ASSUME NEW s \in Small(n + 1), s # {}
        PROVE  s \ {Pick(s)} \in Small(n) /\ s \ {Pick(s)} \in Small(n + 1) /\ Pick(s) \in D
    BY <2>2, Picked
  <2>3. h \in [Small(n + 1) -> Nat]
    <3>1. ASSUME NEW s \in Small(n + 1)
          PROVE  (IF s = {} THEN 0 ELSE f[Pick(s)] + g[s \ {Pick(s)}]) \in Nat
      <4>1. CASE s = {}
        BY <4>1
      <4>2. CASE s # {}
        <5>1. g[s \ {Pick(s)}] \in Nat /\ f[Pick(s)] \in Nat
          BY <4>2, <2>1, <2>2
        <5>. QED
          BY <4>2, <5>1
      <4>. QED
        BY <4>1, <4>2
    <3>. QED
      BY <3>1
  <2>4. ASSUME NEW s \in Small(n) PROVE h[s] = g[s]
    <3>1. s \in Small(n + 1)
      BY FS_Subset, FS_CardinalityType
    <3>. QED
      BY <3>1, <2>1
  <2>5. Good(n + 1, h)
    BY <2>2, <2>4
  <2>. HIDE DEF h, Good, Small
  <2>. QED
    BY <2>3, <2>5
<1>3. Cardinality(S) \in N
  <2>. HIDE DEF N
  <2>1. N \subseteq Nat /\ Cardinality(S) \in Nat
    BY FS_CardinalityType DEF N
  <2>. QED
    BY <1>1, <1>2, <2>1, SetInduction
<1>4. Small(Cardinality(S)) = SUBSET S
  BY FS_Subset
<1>5. PICK g \in [SUBSET S -> Nat] : Good(Cardinality(S), g)
  BY <1>3, <1>4
<1>6. Sums(f, S, g)
  BY <1>4, <1>5 DEF Sums
<1>. QED
  BY <1>6

\* Two such functions agree on the subsets they share.
LEMMA SumsAgree ==
  ASSUME NEW f, NEW S, IsFiniteSet(S), NEW T \in SUBSET S,
         NEW g, Sums(f, S, g), NEW h, Sums(f, T, h)
  PROVE  g[T] = h[T]
<1>. DEFINE N == {n \in Nat : \A s \in SUBSET T : Cardinality(s) = n => g[s] = h[s]}
<1>0. IsFiniteSet(T)
  BY FS_Subset
<1>1. 0 \in N
  <2>1. ASSUME NEW s \in SUBSET T, Cardinality(s) = 0 PROVE g[s] = h[s]
    <3>1. s = {}
      BY <1>0, <2>1, FS_EmptySet, FS_Subset
    <3>. QED
      BY <3>1 DEF Sums
  <2>. QED
    BY <2>1
<1>2. ASSUME NEW n \in N PROVE n + 1 \in N
  <2>1. ASSUME NEW s \in SUBSET T, Cardinality(s) = n + 1 PROVE g[s] = h[s]
    <3>1. s # {}
      BY <2>1, FS_EmptySet
    <3>2. s \ {Pick(s)} \in SUBSET T /\ Cardinality(s \ {Pick(s)}) = n
      BY <1>0, <2>1, <3>1, Picked
    <3>3. g[s \ {Pick(s)}] = h[s \ {Pick(s)}]
      BY <3>2
    <3>4. g[s] = f[Pick(s)] + g[s \ {Pick(s)}]
      BY <3>1 DEF Sums
    <3>5. h[s] = f[Pick(s)] + h[s \ {Pick(s)}]
      BY <3>1 DEF Sums
    <3>. QED
      BY <3>3, <3>4, <3>5
  <2>. QED
    BY <2>1
<1>3. Cardinality(T) \in N
  <2>. HIDE DEF N
  <2>1. N \subseteq Nat /\ Cardinality(T) \in Nat
    BY <1>0, FS_CardinalityType DEF N
  <2>. QED
    BY <1>1, <1>2, <2>1, SetInduction
<1>. QED
  BY <1>3

\* The sum over a finite set takes out the chosen element.
LEMMA SumUnfolds ==
  ASSUME NEW D, NEW f \in [D -> Nat], NEW S \in SUBSET D, IsFiniteSet(S)
  PROVE  /\ SumFunctionOnSet(f, S) \in Nat
         /\ S = {} => SumFunctionOnSet(f, S) = 0
         /\ S # {} => SumFunctionOnSet(f, S) = f[Pick(S)] + SumFunctionOnSet(f, S \ {Pick(S)})
<1>1. ASSUME NEW T \in SUBSET S
      PROVE  \E g : Sums(f, T, g) /\ g \in [SUBSET T -> Nat] /\ SumFunctionOnSet(f, T) = g[T]
  <2>1. IsFiniteSet(T) /\ T \in SUBSET D
    BY FS_Subset
  <2>2. PICK h \in [SUBSET T -> Nat] : Sums(f, T, h)
    BY <2>1, SumsExist
  <2>. DEFINE g == CHOOSE g : Sums(f, T, g)
  <2>3. Sums(f, T, g)
    BY <2>2
  <2>4. SumFunctionOnSet(f, T) = g[T]
    BY SumIsChosen
  <2>. HIDE DEF g
  <2>5. g[T] = h[T]
    BY <2>1, <2>2, <2>3, SumsAgree
  <2>. QED
    BY <2>2, <2>4, <2>5
<1>2. PICK g : Sums(f, S, g) /\ g \in [SUBSET S -> Nat] /\ SumFunctionOnSet(f, S) = g[S]
  BY <1>1
<1>3. S = {} => g[S] = 0
  BY <1>2 DEF Sums
<1>4. ASSUME S # {}
      PROVE  g[S] = f[Pick(S)] + SumFunctionOnSet(f, S \ {Pick(S)})
  <2>. DEFINE T == S \ {Pick(S)}
  <2>1. g[S] = f[Pick(S)] + g[T]
    BY <1>2, <1>4 DEF Sums
  <2>2. PICK h : Sums(f, T, h) /\ SumFunctionOnSet(f, T) = h[T]
    BY <1>1
  <2>3. g[T] = h[T]
    BY <1>2, <2>2, SumsAgree
  <2>. QED
    BY <2>1, <2>2, <2>3
<1>. QED
  BY <1>2, <1>3, <1>4

\* The sum over a finite set takes out any element.
LEMMA SumRemoves ==
  ASSUME NEW D, NEW f \in [D -> Nat], NEW S \in SUBSET D, IsFiniteSet(S), NEW x \in S
  PROVE  SumFunctionOnSet(f, S) = f[x] + SumFunctionOnSet(f, S \ {x})
<1>. DEFINE Sum(s) == SumFunctionOnSet(f, s)
            N == {n \in Nat : \A s \in SUBSET S : \A y \in s :
                    Cardinality(s) = n => Sum(s) = f[y] + Sum(s \ {y})}
<1>1. ASSUME NEW s \in SUBSET S
      PROVE  /\ Sum(s) \in Nat
             /\ s # {} => Sum(s) = f[Pick(s)] + Sum(s \ {Pick(s)})
  BY FS_Subset, SumUnfolds
<1>. HIDE DEF Sum
<1>2. 0 \in N
  BY FS_Subset, FS_EmptySet
<1>3. ASSUME NEW n \in N PROVE n + 1 \in N
  <2>1. ASSUME NEW s \in SUBSET S, NEW y \in s, Cardinality(s) = n + 1
        PROVE  Sum(s) = f[y] + Sum(s \ {y})
    <3>. DEFINE c == Pick(s)
    <3>1. /\ c \in s
          /\ Sum(s) = f[c] + Sum(s \ {c})
          /\ Cardinality(s \ {c}) = n
      BY <1>1, <2>1, Picked
    <3>2. Cardinality(s \ {y}) = n
      <4>1. IsFiniteSet(s)
        BY FS_Subset
      <4>2. Cardinality(s \ {y}) = Cardinality(s) - 1
        BY <4>1, FS_RemoveElement
      <4>3. (n + 1) - 1 = n
        OBVIOUS
      <4>. QED
        BY <2>1, <4>2, <4>3
    <3>. HIDE DEF c
    <3>3. CASE c = y
      BY <3>1, <3>3
    <3>4. CASE c # y
      <4>1. Sum(s \ {c}) = f[y] + Sum((s \ {c}) \ {y})
        BY <3>1, <3>4
      <4>2. Sum(s \ {y}) = f[c] + Sum((s \ {y}) \ {c})
        BY <3>1, <3>2, <3>4
      <4>3. (s \ {y}) \ {c} = (s \ {c}) \ {y}
        OBVIOUS
      <4>4. Sum((s \ {c}) \ {y}) \in Nat
        BY <1>1
      <4>5. f[c] \in Nat /\ f[y] \in Nat
        BY <3>1
      <4>6. ASSUME NEW i \in Nat, NEW j \in Nat, NEW k \in Nat
            PROVE  i + (j + k) = j + (i + k)
        OBVIOUS
      <4>7. f[c] + (f[y] + Sum((s \ {c}) \ {y})) = f[y] + (f[c] + Sum((s \ {c}) \ {y}))
        BY <4>4, <4>5, <4>6
      <4>8. Sum(s) = f[c] + (f[y] + Sum((s \ {c}) \ {y}))
        BY <3>1, <4>1
      <4>9. Sum(s \ {y}) = f[c] + Sum((s \ {c}) \ {y})
        BY <4>2, <4>3
      <4>. QED
        BY <4>7, <4>8, <4>9
    <3>. QED
      BY <3>3, <3>4
  <2>. QED
    BY <2>1
<1>4. Cardinality(S) \in N
  <2>. HIDE DEF N
  <2>1. N \subseteq Nat /\ Cardinality(S) \in Nat
    BY FS_CardinalityType DEF N
  <2>. QED
    BY <1>2, <1>3, <2>1, SetInduction
<1>. QED
  BY <1>4 DEF Sum

\* The sum over a finite set and one more element.
LEMMA SumAdds ==
  ASSUME NEW D, NEW f \in [D -> Nat], NEW S \in SUBSET D, IsFiniteSet(S), NEW x \in D \ S
  PROVE  /\ SumFunctionOnSet(f, S) \in Nat
         /\ SumFunctionOnSet(f, S \cup {x}) = SumFunctionOnSet(f, S) + f[x]
<1>1. IsFiniteSet(S \cup {x}) /\ S \cup {x} \in SUBSET D /\ x \in S \cup {x}
  BY FS_AddElement
<1>2. (S \cup {x}) \ {x} = S
  OBVIOUS
<1>3. SumFunctionOnSet(f, S \cup {x}) = f[x] + SumFunctionOnSet(f, S)
  BY <1>1, <1>2, SumRemoves
<1>4. SumFunctionOnSet(f, S) \in Nat
  BY SumUnfolds
<1>. QED
  BY <1>3, <1>4

-----------------------------------------------------------------------------
(* What is said of the reading.                                            *)

\* The frames among the first n of a message that is not over.
Open(fs, n) ==
  {k \in 1..n : ~IsControl(fs[k]) /\ \A e \in k..n : IsControl(fs[e]) \/ ~fs[e].fin}

\* The bytes of the first n frames.
Total(fs, n) == SumFunctionOnSet([k \in DOMAIN fs |-> Size(fs[k])], 1..n)

\* What fragmentedOpcode and the rest hold after n frames: the message that is open, or nothing.
FragmentsRight(fr, fs, n) ==
  /\ Lists(fr.parts, Open(fs, n))
  /\ fr.length = Carried(fs, Open(fs, n))
  /\ IF Open(fs, n) = {} THEN fr = NoFragments
     ELSE /\ fr.opcode # "none"
          /\ fr.opcode = fs[Min(Open(fs, n))].opcode
          /\ fr.compressed = fs[Min(Open(fs, n))].rsv1

UpTo(S, i) == {e \in S : e <= i}

\* An event for each frame that ends one, in their order.
DeliveredRight(events, fs, n) ==
  /\ Len(events) = Cardinality(Finals(fs, n))
  /\ \A i \in Finals(fs, n) : IsEvent(events[Cardinality(UpTo(Finals(fs, n), i))], fs, i)

\* No frame was passed over that should be refused.
HandledRight(fs, o, n) == \A i \in 1..n : Reasons(fs, o, i) = {}

\* The inductive invariant of the reader.
ReadInv ==
  /\ ReaderTypeOK
  /\ consumed = Total(frames, handled)
  /\ FragmentsRight(fragments, frames, handled)
  /\ HandledRight(frames, options, handled)
  /\ failure # 0 => failure \in Reasons(frames, options, handled + 1)
  /\ DeliveredRight(delivered, frames, handled)

Fragments ==
  [opcode : {"none", "text", "binary"}, compressed : BOOLEAN, length : Nat, parts : Seq(DOMAIN frames)]

Event == [opcode : Opcodes, inflated : BOOLEAN, parts : Seq(DOMAIN frames)]

-----------------------------------------------------------------------------
(* Lemmas about frames, in any script.                                     *)

\* The message that frame n + 1 belongs to, and what it leaves open.
LEMMA OpenGrows ==
  ASSUME NEW fs, NEW n \in Nat
  PROVE  /\ Open(fs, n) \subseteq 1..n
         /\ Members(fs, n + 1) = IF IsControl(fs[n + 1]) THEN Open(fs, n) ELSE Open(fs, n) \cup {n + 1}
         /\ Open(fs, n + 1) = IF IsControl(fs[n + 1]) THEN Open(fs, n)
                              ELSE IF fs[n + 1].fin THEN {} ELSE Open(fs, n) \cup {n + 1}
<1>1. Open(fs, n) \subseteq 1..n
  BY DEF Open
<1>2. /\ 1..(n + 1) = (1..n) \cup {n + 1}
      /\ (n + 1) - 1 = n
      /\ (n + 1)..n = {} /\ (n + 1)..(n + 1) = {n + 1}
      /\ \A k \in 1..n : k..(n + 1) = (k..n) \cup {n + 1}
  OBVIOUS
<1>3. Members(fs, n + 1) = IF IsControl(fs[n + 1]) THEN Open(fs, n) ELSE Open(fs, n) \cup {n + 1}
  <2>1. Members(fs, n + 1) =
          {k \in (1..n) \cup {n + 1} : /\ ~IsControl(fs[k])
                                     /\ \A e \in k..n : IsControl(fs[e]) \/ ~fs[e].fin}
    BY <1>2 DEF Members
  <2>. QED
    BY <1>2, <2>1 DEF Open
<1>4. Open(fs, n + 1) = IF IsControl(fs[n + 1]) THEN Open(fs, n)
                        ELSE IF fs[n + 1].fin THEN {} ELSE Open(fs, n) \cup {n + 1}
  <2>1. Open(fs, n + 1) =
          {k \in (1..n) \cup {n + 1} : /\ ~IsControl(fs[k])
                                     /\ \A e \in k..(n + 1) : IsControl(fs[e]) \/ ~fs[e].fin}
    BY <1>2 DEF Open
  <2>. QED
    BY <1>2, <2>1 DEF Open
<1>. QED
  BY <1>1, <1>3, <1>4

\* The least element of a set of numbers.
LEMMA MinIs ==
  ASSUME NEW S \in SUBSET Nat, NEW x \in S, \A y \in S : x <= y
  PROVE  Min(S) = x
<1>1. \A z \in S : (\A y \in S : z =< y) => z = x
  OBVIOUS
<1>. QED
  BY <1>1 DEF Min

\* A list begins with the least of its numbers.
LEMMA FirstIsMin ==
  ASSUME NEW S \in SUBSET Nat, S # {}, NEW p \in Seq(Nat), Lists(p, S)
  PROVE  Len(p) > 0 /\ p[1] = Min(S) /\ Min(S) \in S
<1>1. /\ DOMAIN p = 1 .. Len(p) /\ Len(p) \in Nat
      /\ S = {p[a] : a \in DOMAIN p}
      /\ \A a, b \in DOMAIN p : a < b => p[a] < p[b]
  BY LenProperties DEF Lists, Range
<1>2. 1 \in DOMAIN p /\ p[1] \in S
  BY <1>1
<1>3. ASSUME NEW y \in S PROVE p[1] <= y
  <2>1. PICK b \in DOMAIN p : y = p[b]
    BY <1>1
  <2>2. b = 1 \/ 1 < b
    BY <1>1
  <2>. QED
    BY <1>1, <1>2, <2>1, <2>2
<1>4. Min(S) = p[1]
  BY <1>2, <1>3, MinIs
<1>5. Len(p) > 0
  BY <1>1, <1>2
<1>6. Min(S) \in S
  BY <1>2, <1>4, Zenon
<1>. QED
  BY <1>4, <1>5, <1>6

\* A list goes on with a number that is larger than those before it.
LEMMA ListGrows ==
  ASSUME NEW S \in SUBSET Nat, NEW p \in Seq(Nat), Lists(p, S), NEW m \in Nat, \A k \in S : k < m
  PROVE  Lists(Append(p, m), S \cup {m})
<1>1. /\ DOMAIN p = 1 .. Len(p) /\ Len(p) \in Nat
      /\ S = {p[a] : a \in DOMAIN p}
      /\ \A a, b \in DOMAIN p : a < b => p[a] < p[b]
  BY LenProperties DEF Lists, Range
<1>. DEFINE q == Append(p, m)
<1>2. /\ DOMAIN q = 1 .. (Len(p) + 1)
      /\ \A a \in 1 .. Len(p) : q[a] = p[a]
      /\ q[Len(p) + 1] = m
  BY <1>1
<1>. HIDE DEF q
<1>3. {q[a] : a \in DOMAIN q} = S \cup {m}
  <2>1. DOMAIN q = (1 .. Len(p)) \cup {Len(p) + 1}
    BY <1>1, <1>2
  <2>. QED
    BY <1>1, <1>2, <2>1
<1>4. ASSUME NEW a \in DOMAIN q, NEW b \in DOMAIN q, a < b PROVE q[a] < q[b]
  <2>1. a \in 1 .. Len(p)
    BY <1>1, <1>2, <1>4
  <2>2. CASE b = Len(p) + 1
    BY <1>1, <1>2, <2>1, <2>2
  <2>3. CASE b \in 1 .. Len(p)
    BY <1>1, <1>2, <1>4, <2>1, <2>3
  <2>. QED
    BY <1>1, <1>2, <2>2, <2>3
<1>. QED
  BY <1>3, <1>4 DEF Lists, Range, q

\* The bytes of the first n + 1 frames.
LEMMA TotalGrows ==
  ASSUME NEW fs \in Seq(FrameType), NEW n \in Nat, n + 1 \in DOMAIN fs
  PROVE  Total(fs, n) \in Nat /\ Total(fs, n + 1) = Total(fs, n) + Size(fs[n + 1])
<1>. DEFINE sizes == [k \in DOMAIN fs |-> Size(fs[k])]
<1>1. DOMAIN fs = 1 .. Len(fs) /\ Len(fs) \in Nat
  BY LenProperties
<1>2. ASSUME NEW k \in DOMAIN fs PROVE Size(fs[k]) \in Nat
  <2>1. fs[k] \in FrameType
    BY ElementOfSeq, <1>1
  <2>2. fs[k].form \in Nat /\ fs[k].length \in Nat
    BY <2>1 DEF FrameType
  <2>. QED
    BY <2>2 DEF Size
<1>3. sizes \in [DOMAIN fs -> Nat] /\ sizes[n + 1] = Size(fs[n + 1])
  BY <1>2
<1>4. /\ 1..n \in SUBSET DOMAIN fs /\ n + 1 \in DOMAIN fs \ (1..n)
      /\ (1..n) \cup {n + 1} = 1..(n + 1)
  BY <1>1
<1>5. IsFiniteSet(1..n)
  BY FS_Interval
<1>. DEFINE D == DOMAIN fs
            x == n + 1
            T == 1..n
<1>6. x \in D \ T /\ sizes \in [D -> Nat] /\ T \in SUBSET D /\ IsFiniteSet(T)
  BY <1>3, <1>4, <1>5
<1>. HIDE DEF sizes, D, x, T
<1>7. SumFunctionOnSet(sizes, T) \in Nat
  BY <1>6, SumAdds
<1>8. SumFunctionOnSet(sizes, T \cup {x}) = SumFunctionOnSet(sizes, T) + sizes[x]
  BY <1>6, SumAdds
<1>. QED
  BY <1>3, <1>4, <1>7, <1>8 DEF Total, sizes, x, T

\* The bytes of frames and of one more.
LEMMA CarriedGrows ==
  ASSUME NEW fs \in Seq(FrameType), NEW n \in Nat, n + 1 \in DOMAIN fs, NEW S \in SUBSET (1..n)
  PROVE  /\ Carried(fs, S) \in Nat
         /\ Carried(fs, S \cup {n + 1}) = Carried(fs, S) + fs[n + 1].length
<1>. DEFINE lengths == [k \in DOMAIN fs |-> fs[k].length]
<1>1. DOMAIN fs = 1 .. Len(fs) /\ Len(fs) \in Nat
  BY LenProperties
<1>2. ASSUME NEW k \in DOMAIN fs PROVE fs[k].length \in Nat
  <2>1. fs[k] \in FrameType
    BY ElementOfSeq, <1>1
  <2>. QED
    BY <2>1 DEF FrameType
<1>3. lengths \in [DOMAIN fs -> Nat] /\ lengths[n + 1] = fs[n + 1].length
  BY <1>2
<1>4. S \in SUBSET DOMAIN fs /\ n + 1 \in DOMAIN fs \ S
  BY <1>1
<1>5. IsFiniteSet(S)
  <2>1. IsFiniteSet(1..n)
    BY FS_Interval
  <2>. QED
    BY <2>1, FS_Subset
<1>. DEFINE D == DOMAIN fs
            x == n + 1
            T == S
<1>6. x \in D \ T /\ lengths \in [D -> Nat] /\ T \in SUBSET D /\ IsFiniteSet(T)
  BY <1>3, <1>4, <1>5
<1>. HIDE DEF lengths, D, x, T
<1>7. SumFunctionOnSet(lengths, T) \in Nat
  BY <1>6, SumAdds
<1>8. SumFunctionOnSet(lengths, T \cup {x}) = SumFunctionOnSet(lengths, T) + lengths[x]
  BY <1>6, SumAdds
<1>. QED
  BY <1>3, <1>4, <1>7, <1>8 DEF Carried, lengths, x, T

\* No frames, no bytes.
LEMMA NothingCarried ==
  ASSUME NEW fs \in Seq(FrameType)
  PROVE  Carried(fs, {}) = 0 /\ Total(fs, 0) = 0
<1>1. DOMAIN fs = 1 .. Len(fs) /\ Len(fs) \in Nat
  BY LenProperties
<1>2. ASSUME NEW f \in [DOMAIN fs -> Nat] PROVE SumFunctionOnSet(f, {}) = 0
  <2>1. {} \in SUBSET DOMAIN fs /\ IsFiniteSet({})
    BY FS_EmptySet
  <2>. QED
    BY <2>1, SumUnfolds
<1>3. \A k \in DOMAIN fs : fs[k].length \in Nat /\ Size(fs[k]) \in Nat
  <2> SUFFICES ASSUME NEW k \in DOMAIN fs PROVE fs[k].length \in Nat /\ Size(fs[k]) \in Nat
    OBVIOUS
  <2>1. fs[k] \in FrameType
    BY ElementOfSeq, <1>1
  <2>2. fs[k].form \in Nat /\ fs[k].length \in Nat
    BY <2>1 DEF FrameType
  <2>. QED
    BY <2>2 DEF Size
<1>4. 1..0 = {}
  OBVIOUS
<1>. QED
  BY <1>2, <1>3, <1>4 DEF Carried, Total

\* An event more, for the frame that ends it.
LEMMA DeliveredGrows ==
  ASSUME NEW fs, NEW n \in Nat, NEW E, NEW events \in Seq(E), DeliveredRight(events, fs, n)
  PROVE  IF IsControl(fs[n + 1]) \/ fs[n + 1].fin
         THEN \A event \in E : IsEvent(event, fs, n + 1) => DeliveredRight(Append(events, event), fs, n + 1)
         ELSE DeliveredRight(events, fs, n + 1)
<1>. DEFINE S == Finals(fs, n)
            final == IsControl(fs[n + 1]) \/ fs[n + 1].fin
<1>1. 1..(n + 1) = (1..n) \cup {n + 1}
  OBVIOUS
<1>2. /\ S \subseteq 1..n
      /\ Finals(fs, n + 1) = IF final THEN S \cup {n + 1} ELSE S
  BY <1>1 DEF Finals
<1>3. IsFiniteSet(S) /\ Cardinality(S) \in Nat
  <2>. HIDE DEF S
  <2>1. IsFiniteSet(1..n)
    BY FS_Interval
  <2>2. IsFiniteSet(S)
    BY <1>2, <2>1, FS_Subset
  <2>. QED
    BY <2>2, FS_CardinalityType
<1>4. /\ Len(events) = Cardinality(S)
      /\ \A i \in S : IsEvent(events[Cardinality(UpTo(S, i))], fs, i)
  BY DEF DeliveredRight
<1>5. CASE ~final
  BY <1>2, <1>4, <1>5 DEF DeliveredRight
<1>6. CASE final
  <2>. SUFFICES ASSUME NEW event \in E, IsEvent(event, fs, n + 1)
                PROVE  DeliveredRight(Append(events, event), fs, n + 1)
    BY <1>6
  <2>. DEFINE T == S \cup {n + 1}
              q == Append(events, event)
  <2>1. Cardinality(T) = Cardinality(S) + 1
    <3>1. n + 1 \notin S
      BY <1>2
    <3>. HIDE DEF S
    <3>. QED
      BY <1>3, <3>1, FS_AddElement
  <2>2. /\ Len(q) = Len(events) + 1
        /\ \A a \in 1 .. Len(events) : q[a] = events[a]
        /\ q[Len(events) + 1] = event
    BY AppendProperties, LenProperties
  <2>3. UpTo(T, n + 1) = T
    BY <1>2 DEF UpTo
  <2>4. ASSUME NEW i \in S
        PROVE  UpTo(T, i) = UpTo(S, i) /\ Cardinality(UpTo(S, i)) \in 1 .. Cardinality(S)
    <3>1. UpTo(T, i) = UpTo(S, i)
      BY <1>2 DEF UpTo
    <3>2. i \in UpTo(S, i) /\ UpTo(S, i) \in SUBSET S
      BY <1>2 DEF UpTo
    <3>3. /\ IsFiniteSet(UpTo(S, i))
          /\ Cardinality(UpTo(S, i)) <= Cardinality(S)
      BY <1>3, <3>2, FS_Subset
    <3>4. Cardinality(UpTo(S, i)) \in Nat /\ Cardinality(UpTo(S, i)) # 0
      BY <3>2, <3>3, FS_CardinalityType, FS_EmptySet
    <3>. QED
      BY <1>3, <3>1, <3>3, <3>4
  <2>. HIDE DEF q, S
  <2>5. ASSUME NEW i \in T PROVE IsEvent(q[Cardinality(UpTo(T, i))], fs, i)
    <3>1. CASE i = n + 1
      BY <1>4, <2>1, <2>2, <2>3, <3>1
    <3>2. CASE i \in S
      BY <1>4, <2>2, <2>4, <3>2
    <3>. QED
      BY <3>1, <3>2
  <2>. QED
    BY <1>2, <1>4, <1>6, <2>1, <2>2, <2>5 DEF DeliveredRight, q
<1>. QED
  BY <1>5, <1>6

-----------------------------------------------------------------------------
(* The frame that is read next.                                            *)

\* The types the leaves below use.
LEMMA ReaderTyped ==
  ASSUME ReaderTypeOK
  PROVE  /\ frames \in Seq(FrameType)
         /\ DOMAIN frames = 1 .. Len(frames) /\ Len(frames) \in Nat
         /\ handled \in Nat /\ handled <= Len(frames)
         /\ options.deflate \in BOOLEAN /\ options.skipUTF8Validation \in BOOLEAN
         /\ MaxControl \in Nat /\ MaxPayload \in Nat /\ MaxSafe \in Nat
         /\ fragments \in Fragments
         /\ Reading => /\ handled + 1 \in DOMAIN frames
                       /\ Next1 = frames[handled + 1]
                       /\ Next1 \in FrameType
<1>1. frames \in Seq(FrameType)
  BY ReaderAssumption DEF ReaderTypeOK
<1>2. DOMAIN frames = 1 .. Len(frames) /\ Len(frames) \in Nat
  BY <1>1, LenProperties
<1>3. handled \in Nat /\ handled <= Len(frames)
  BY <1>2 DEF ReaderTypeOK
<1>4. options.deflate \in BOOLEAN /\ options.skipUTF8Validation \in BOOLEAN
  BY ReaderAssumption DEF ReaderTypeOK
<1>5. MaxControl \in Nat /\ MaxPayload \in Nat /\ MaxSafe \in Nat
  BY ReaderAssumption
<1>6. fragments \in Fragments
  BY <1>5 DEF ReaderTypeOK, Fragments
<1>7. Reading => handled + 1 \in DOMAIN frames /\ Next1 = frames[handled + 1] /\ Next1 \in FrameType
  <2> SUFFICES ASSUME Reading
               PROVE  handled + 1 \in DOMAIN frames /\ Next1 = frames[handled + 1] /\ Next1 \in FrameType
    OBVIOUS
  <2>1. handled + 1 \in 1 .. Len(frames)
    BY <1>2, <1>3 DEF Reading
  <2>2. frames[handled + 1] \in FrameType
    BY <1>1, <2>1, ElementOfSeq
  <2>. QED
    BY <1>2, <2>1, <2>2 DEF Next1
<1>. QED
  BY <1>1, <1>2, <1>3, <1>4, <1>5, <1>6, <1>7

\* What fragments says is open, and where the next frame belongs.
LEMMA PlaceOf ==
  ASSUME ReadInv, Reading
  PROVE  /\ Open(frames, handled) \subseteq 1..handled
         /\ fragments.opcode = "none" <=> Open(frames, handled) = {}
         /\ IsControl(Next1) => Members(frames, handled + 1) = Open(frames, handled)
         /\ ~IsControl(Next1) => Members(frames, handled + 1) = Open(frames, handled) \cup {handled + 1}
         /\ ~IsControl(Next1) => (Members(frames, handled + 1) = {handled + 1} <=> Open(frames, handled) = {})
<1>1. handled \in Nat /\ Next1 = frames[handled + 1]
  BY ReaderTyped DEF ReadInv
<1>2. /\ Open(frames, handled) \subseteq 1..handled
      /\ Members(frames, handled + 1) = IF IsControl(Next1) THEN Open(frames, handled)
                                        ELSE Open(frames, handled) \cup {handled + 1}
  BY <1>1, OpenGrows
<1>3. fragments.opcode = "none" <=> Open(frames, handled) = {}
  BY DEF ReadInv, FragmentsRight, NoFragments
<1>4. handled + 1 \notin 1..handled
  BY <1>1
<1>. QED
  BY <1>2, <1>3, <1>4

\* The message that a data frame belongs to, with it.
LEMMA MessageRight ==
  ASSUME ReadInv, Reading, ~IsControl(Next1), ~OutOfPlace(Next1)
  PROVE  /\ Message(Next1) \in Fragments
         /\ Message(Next1).opcode \in {"text", "binary"}
         /\ Message(Next1).opcode = First(frames, handled + 1).opcode
         /\ Message(Next1).compressed = First(frames, handled + 1).rsv1
         /\ Lists(Message(Next1).parts, Members(frames, handled + 1))
         /\ frames[Message(Next1).parts[1]] = First(frames, handled + 1)
         /\ Message(Next1).length = Carried(frames, Members(frames, handled + 1))
         /\ Message(Next1).length = PayloadLength(Next1)
         /\ Next1.opcode \in {"text", "binary", "continuation"}
<1>. DEFINE f == Next1
            open == Open(frames, handled)
            n == handled + 1
            m == Message(f)
<1>1. /\ frames \in Seq(FrameType) /\ handled \in Nat /\ n \in DOMAIN frames
      /\ DOMAIN frames \subseteq Nat
      /\ f = frames[n] /\ f \in FrameType /\ fragments \in Fragments
  BY ReaderTyped DEF ReadInv
<1>2. /\ open \subseteq 1..handled
      /\ fragments.opcode = "none" <=> open = {}
      /\ Members(frames, n) = open \cup {n}
  BY PlaceOf
<1>3. /\ Lists(fragments.parts, open)
      /\ fragments.length = Carried(frames, open)
      /\ open = {} => fragments = NoFragments
      /\ open # {} => /\ fragments.opcode = frames[Min(open)].opcode
                      /\ fragments.compressed = frames[Min(open)].rsv1
  BY DEF ReadInv, FragmentsRight
<1>4. f.opcode \in {"text", "binary", "continuation"}
  BY <1>1 DEF OutOfPlace, IsControl, FrameType, Opcodes
<1>5. /\ Carried(frames, open) \in Nat
      /\ Carried(frames, Members(frames, n)) = Carried(frames, open) + f.length
  BY <1>1, <1>2, CarriedGrows
<1>6. fragments.parts \in Seq(Nat) /\ open \in SUBSET Nat
  <2>1. fragments.parts \in Seq(DOMAIN frames)
    BY <1>1 DEF Fragments
  <2>2. \A i \in 1 .. Len(fragments.parts) : fragments.parts[i] \in Nat
    BY <1>1, <2>1, ElementOfSeq
  <2>. QED
    BY <1>1, <1>2, <2>1, <2>2
<1>7. CASE f.opcode = "continuation"
  <2>1. open # {}
    BY <1>2, <1>7 DEF OutOfPlace
  <2>2. m = [fragments EXCEPT !.length = @ + f.length, !.parts = Append(@, n)]
    BY <1>7 DEF Message, Continued
  <2>3. /\ m.opcode = fragments.opcode /\ m.compressed = fragments.compressed
        /\ m.length = fragments.length + f.length /\ m.parts = Append(fragments.parts, n)
    BY <1>1, <2>2 DEF Fragments
  <2>4. m \in Fragments
    <3>1. f.length \in Nat /\ Append(fragments.parts, n) \in Seq(DOMAIN frames)
      BY <1>1, AppendProperties DEF FrameType, Fragments
    <3>. DEFINE v == fragments.length + f.length
                q == Append(fragments.parts, n)
                longer == [fragments EXCEPT !.length = v]
    <3>2. v \in Nat
      BY <1>1, <3>1 DEF Fragments
    <3>3. q \in Seq(DOMAIN frames)
      BY <3>1
    <3>. HIDE DEF v, q
    <3>4. longer \in Fragments /\ longer.parts = fragments.parts
      BY <1>1, <3>2 DEF Fragments
    <3>5. [longer EXCEPT !.parts = q] \in Fragments
      <4>. HIDE DEF longer
      <4>. QED
        BY <3>3, <3>4 DEF Fragments
    <3>6. m = [longer EXCEPT !.parts = q]
      BY <2>2 DEF v, q
    <3>. QED
      BY <3>5, <3>6
  <2>5. Lists(m.parts, Members(frames, n))
    BY <1>1, <1>2, <1>3, <1>6, <2>3, ListGrows
  <2>6. Len(fragments.parts) > 0 /\ fragments.parts[1] = Min(open) /\ Min(open) \in open
    BY <1>3, <1>6, <2>1, FirstIsMin
  <2>7. Min(Members(frames, n)) = Min(open) /\ m.parts[1] = Min(open)
    <3>1. m.parts \in Seq(Nat) /\ m.parts[1] = fragments.parts[1]
      BY <1>1, <1>6, <2>3, <2>6, AppendProperties
    <3>2. Members(frames, n) \in SUBSET Nat /\ Members(frames, n) # {}
      BY <1>1, <1>2
    <3>3. m.parts[1] = Min(Members(frames, n))
      BY <2>5, <3>1, <3>2, FirstIsMin
    <3>. QED
      BY <2>6, <3>1, <3>3
  <2>8. First(frames, n) = frames[Min(open)]
    BY <2>7 DEF First
  <2>9. m.opcode \in {"text", "binary"}
    BY <1>1, <1>2, <2>1, <2>3 DEF Fragments
  <2>10. m.length = PayloadLength(f)
    BY <1>7, <2>3 DEF PayloadLength
  <2>. QED
    BY <1>3, <1>4, <1>5, <2>1, <2>3, <2>4, <2>5, <2>7, <2>8, <2>9, <2>10
<1>8. CASE f.opcode # "continuation"
  <2>1. open = {} /\ Members(frames, n) = {n}
    BY <1>2, <1>4, <1>8 DEF OutOfPlace
  <2>2. m = [opcode |-> f.opcode, compressed |-> f.rsv1, length |-> f.length, parts |-> <<n>>]
    BY <1>8 DEF Message, Began
  <2>3. m \in Fragments
    <3>1. <<n>> \in Seq(DOMAIN frames)
      BY <1>1
    <3>. QED
      BY <1>1, <1>4, <1>8, <2>2, <3>1 DEF Fragments, FrameType
  <2>4. Lists(<<n>>, {n})
    BY DEF Lists, Range
  <2>5. Min({n}) = n
    BY <1>1, MinIs
  <2>6. First(frames, n) = f
    BY <1>1, <2>1, <2>5 DEF First
  <2>7. Carried(frames, {n}) = f.length
    <3>1. f.length \in Nat /\ Carried(frames, {}) = 0
      BY <1>1, NothingCarried DEF FrameType
    <3>. QED
      BY <1>5, <2>1, <3>1
  <2>8. m.length = PayloadLength(f)
    BY <1>8, <2>2 DEF PayloadLength
  <2>9. frames[m.parts[1]] = f
    BY <1>1, <2>2
  <2>. QED
    BY <1>4, <1>8, <2>1, <2>2, <2>3, <2>4, <2>6, <2>7, <2>8, <2>9
<1>. QED
  BY <1>7, <1>8

\* A frame is refused for one of its reasons.
LEMMA RefusedRight ==
  ASSUME ReadInv, NEW code, ParseFails(code) \/ (Parsed /\ code \in FrameErrors(Next1))
  PROVE  code \in Reasons(frames, options, handled + 1)
<1>. DEFINE f == Next1
            n == handled + 1
<1>0. Reading
  BY DEF ParseFails, Parsed
<1>1. /\ f = frames[n] /\ f \in FrameType
      /\ MaxControl \in Nat /\ MaxPayload \in Nat /\ MaxSafe \in Nat
  BY <1>0, ReaderTyped DEF ReadInv
<1>2. /\ fragments.opcode = "none" <=> Open(frames, handled) = {}
      /\ ~IsControl(f) => (Members(frames, n) = {n} <=> Open(frames, handled) = {})
  BY <1>0, PlaceOf
<1>3. /\ Malformed(frames, options, n) => 1002 \in Reasons(frames, options, n)
      /\ TooLong(frames, n) => 1009 \in Reasons(frames, options, n)
      /\ Unreadable(frames, options, n) => 1007 \in Reasons(frames, options, n)
  BY DEF Reasons
<1>4. CASE ParseFails(code)
  <2>1. CASE HeaderRefused(f) /\ code = 1002
    BY <1>1, <1>3, <2>1 DEF HeaderRefused, Malformed
  <2>2. CASE LengthRefused(f) /\ code = 1009
    BY <1>1, <1>3, <2>2 DEF LengthRefused, TooLong
  <2>3. CASE ControlRefused(f) /\ code = 1002
    BY <1>1, <1>3, <2>3 DEF ControlRefused, Malformed
  <2>. QED
    BY <1>4, <2>1, <2>2, <2>3 DEF ParseFails
<1>5. CASE OutOfPlace(f) /\ code = 1002
  <2>1. Malformed(frames, options, n)
    BY <1>1, <1>2, <1>5 DEF OutOfPlace, Malformed, IsControl
  <2>. QED
    BY <1>3, <1>5, <2>1
<1>6. CASE ~(f.opcode = "continuation" /\ OutOfPlace(f)) /\ PayloadRefused(f) /\ code = 1009
  <2>1. TooLong(frames, n)
    <3>1. CASE f.opcode = "continuation"
      BY <1>0, <1>1, <1>6, <3>1, MessageRight DEF PayloadRefused, TooLong
    <3>2. CASE f.opcode # "continuation"
      BY <1>1, <1>6, <3>2 DEF PayloadRefused, PayloadLength, TooLong
    <3>. QED
      BY <3>1, <3>2
  <2>. QED
    BY <1>3, <1>6, <2>1
<1>7. CASE f.opcode = "close" /\ code \in CloseErrors(f)
  <2>1. f.length \in Nat /\ IsControl(f)
    BY <1>1, <1>7 DEF FrameType, IsControl
  <2>. QED
    BY <1>1, <1>3, <1>7, <2>1 DEF CloseErrors, Malformed, Unreadable
<1>8. CASE /\ ~OutOfPlace(f) /\ ~IsControl(f) /\ f.fin
           /\ code \in MessageErrors(Message(f).opcode, Message(f).compressed, frames[Message(f).parts[1]])
  <2>1. code \in MessageErrors(First(frames, n).opcode, First(frames, n).rsv1, First(frames, n))
    BY <1>0, <1>8, MessageRight
  <2>. QED
    BY <1>1, <1>3, <1>8, <2>1 DEF MessageErrors, TooLong, Unreadable
<1>9. Parsed /\ code \in FrameErrors(f) =>
        \/ OutOfPlace(f) /\ code = 1002
        \/ ~(f.opcode = "continuation" /\ OutOfPlace(f)) /\ PayloadRefused(f) /\ code = 1009
        \/ f.opcode = "close" /\ code \in CloseErrors(f)
        \/ /\ ~OutOfPlace(f) /\ ~IsControl(f) /\ f.fin
           /\ code \in MessageErrors(Message(f).opcode, Message(f).compressed, frames[Message(f).parts[1]])
  BY DEF FrameErrors
<1>. QED
  BY <1>4, <1>5, <1>6, <1>7, <1>8, <1>9

\* A frame that is handled has no reason to be refused.
LEMMA HandledHasNone ==
  ASSUME ReadInv, Parsed, FrameErrors(Next1) = {}
  PROVE  /\ Reasons(frames, options, handled + 1) = {}
         /\ ~OutOfPlace(Next1)
         /\ ~IsControl(Next1) => PayloadLength(Next1) <= MaxPayload
<1>. DEFINE f == Next1
            n == handled + 1
<1>0. Reading
  BY DEF Parsed
<1>1. /\ f = frames[n] /\ f \in FrameType
      /\ MaxControl \in Nat /\ MaxPayload \in Nat /\ MaxSafe \in Nat
  BY <1>0, ReaderTyped DEF ReadInv
<1>2. /\ fragments.opcode = "none" <=> Open(frames, handled) = {}
      /\ ~IsControl(f) => (Members(frames, n) = {n} <=> Open(frames, handled) = {})
  BY <1>0, PlaceOf
<1>3. ~OutOfPlace(f)
  BY DEF FrameErrors
<1>4. ~IsControl(f) => f.opcode \in {"text", "binary", "continuation"}
  BY <1>1, <1>3 DEF OutOfPlace, IsControl, FrameType, Opcodes
<1>5. ~IsControl(f) => ~PayloadRefused(f)
  BY <1>3, <1>4 DEF FrameErrors
<1>6. f.opcode = "close" => CloseErrors(f) = {}
  BY <1>3 DEF FrameErrors, PayloadRefused, IsControl
<1>7. ~IsControl(f) /\ f.fin => MessageErrors(First(frames, n).opcode, First(frames, n).rsv1, First(frames, n)) = {}
  <2>. SUFFICES ASSUME ~IsControl(f), f.fin
                PROVE  MessageErrors(First(frames, n).opcode, First(frames, n).rsv1, First(frames, n)) = {}
    OBVIOUS
  <2>1. MessageErrors(Message(f).opcode, Message(f).compressed, frames[Message(f).parts[1]]) = {}
    BY <1>3, <1>5, <1>4 DEF FrameErrors, IsControl
  <2>. QED
    BY <1>0, <1>3, <2>1, MessageRight
<1>8. ~IsControl(f) => PayloadLength(f) <= MaxPayload /\ PayloadLength(f) \in Nat
  <2>. SUFFICES ASSUME ~IsControl(f) PROVE PayloadLength(f) <= MaxPayload /\ PayloadLength(f) \in Nat
    OBVIOUS
  <2>1. PayloadLength(f) \in Nat
    BY <1>0, <1>3, MessageRight DEF Fragments
  <2>. QED
    BY <1>1, <1>5, <2>1 DEF PayloadRefused
<1>9. ~Malformed(frames, options, n)
  <2>1. f.length \in Nat
    BY <1>1 DEF FrameType
  <2>2. ~f.reserved /\ f.masked /\ ~(f.rsv1 /\ ~options.deflate)
    BY <1>0 DEF Parsed, HeaderRefused
  <2>3. f.opcode \notin {"reserved", "reservedControl"}
    BY <1>3 DEF OutOfPlace
  <2>4. ~(IsControl(f) /\ (~f.fin \/ f.rsv1 \/ f.length > MaxControl))
    BY DEF Parsed, ControlRefused
  <2>5. ~(f.opcode = "close" /\ (f.length = 1 \/ (f.length > 1 /\ f.content = "badCode")))
    BY <1>6, <2>1 DEF CloseErrors
  <2>6. ~(f.opcode = "continuation" /\ (Members(frames, n) = {n} \/ f.rsv1))
    BY <1>2, <1>3 DEF OutOfPlace, IsControl
  <2>7. ~(f.opcode \in {"text", "binary"} /\ Members(frames, n) # {n})
    BY <1>2, <1>3 DEF OutOfPlace, IsControl
  <2>. QED
    BY <1>1, <2>2, <2>3, <2>4, <2>5, <2>6, <2>7 DEF Malformed
<1>10. ~TooLong(frames, n)
  <2>1. ~(f.form = 8 /\ f.length > MaxSafe)
    BY DEF Parsed, LengthRefused
  <2>2. ~(~IsControl(f) /\ MaxPayload <
           IF f.opcode = "continuation" THEN Carried(frames, Members(frames, n)) ELSE f.length)
    <3>1. ASSUME ~IsControl(f)
          PROVE  PayloadLength(f) = IF f.opcode = "continuation" THEN Carried(frames, Members(frames, n)) ELSE f.length
      BY <1>0, <1>3, <3>1, MessageRight DEF PayloadLength
    <3>. QED
      BY <1>1, <1>8, <3>1
  <2>3. ~(~IsControl(f) /\ f.fin /\ First(frames, n).rsv1 /\ First(frames, n).content = "bomb")
    BY <1>7 DEF MessageErrors
  <2>. QED
    BY <1>1, <2>1, <2>2, <2>3 DEF TooLong
<1>11. ~Unreadable(frames, options, n)
  <2>1. f.length \in Nat
    BY <1>1 DEF FrameType
  <2>2. ~(~options.skipUTF8Validation /\ f.opcode = "close" /\ f.length > 2 /\ f.content = "notUtf8")
    BY <1>6, <2>1 DEF CloseErrors
  <2>3. ~IsControl(f) /\ f.fin =>
          /\ ~(~options.skipUTF8Validation /\ First(frames, n).opcode = "text" /\ First(frames, n).content = "notUtf8")
          /\ ~(First(frames, n).rsv1 /\ First(frames, n).content = "broken")
    BY <1>7 DEF MessageErrors
  <2>. QED
    BY <1>1, <2>2, <2>3 DEF Unreadable
<1>12. Reasons(frames, options, n) = {}
  BY <1>9, <1>10, <1>11 DEF Reasons
<1>. QED
  BY <1>3, <1>8, <1>12


-----------------------------------------------------------------------------
(* The steps: each of them keeps ReadInv.                                  *)

\* Nothing has arrived.
LEMMA InitReads == ReaderInit => ReadInv
<1>. SUFFICES ASSUME ReaderInit PROVE ReadInv
  OBVIOUS
<1>1. /\ frames \in Seq(FrameType) /\ MaxPayload \in Nat
      /\ received = 0 /\ consumed = 0 /\ handled = 0
      /\ fragments = NoFragments /\ delivered = <<>> /\ failure = 0
  BY ReaderAssumption DEF ReaderInit
<1>2. ReaderTypeOK
  <2>1. Len(frames) \in Nat
    BY <1>1, LenProperties
  <2>2. <<>> \in Seq(DOMAIN frames) /\ delivered \in Seq([opcode : Opcodes, inflated : BOOLEAN, parts : Seq(DOMAIN frames)])
    BY <1>1
  <2>3. fragments \in [opcode : {"none", "text", "binary"}, compressed : BOOLEAN, length : 0..MaxPayload,
                       parts : Seq(DOMAIN frames)]
    BY <1>1, <2>2 DEF NoFragments
  <2>. QED
    BY <1>1, <2>1, <2>2, <2>3 DEF ReaderTypeOK, ReaderInit
<1>3. Carried(frames, {}) = 0 /\ Total(frames, 0) = 0
  BY <1>1, NothingCarried
<1>4. 1..0 = {}
  OBVIOUS
<1>5. FragmentsRight(fragments, frames, 0)
  <2>1. Open(frames, 0) = {}
    BY <1>4 DEF Open
  <2>2. Lists(<<>>, {})
    BY DEF Lists, Range
  <2>. QED
    BY <1>1, <1>3, <2>1, <2>2 DEF FragmentsRight, NoFragments
<1>6. HandledRight(frames, options, 0)
  BY <1>4 DEF HandledRight
<1>7. DeliveredRight(delivered, frames, 0)
  <2>1. Finals(frames, 0) = {}
    BY <1>4 DEF Finals
  <2>2. Cardinality({}) = 0
    BY FS_EmptySet
  <2>. QED
    BY <1>1, <2>1, <2>2 DEF DeliveredRight
<1>. QED
  BY <1>1, <1>2, <1>3, <1>5, <1>6, <1>7 DEF ReadInv

\* A chunk is part of what the peer sends.
LEMMA ChunkReads ==
  ASSUME ReadInv, NEW n \in 1..(Ends(Len(frames)) - received), ChunkOf(n)
  PROVE  ReadInv'
<1>1. received \in Nat /\ consumed \in 0..received
  BY DEF ReadInv, ReaderTypeOK
<1>2. n \in Nat
  BY SMT
<1>3. received' \in Nat /\ consumed' \in 0..received'
  BY <1>1, <1>2 DEF ChunkOf
<1>. QED
  BY <1>3 DEF ChunkOf, ReadInv, ReaderTypeOK

\* What handling any frame does.
LEMMA Handled ==
  ASSUME ReadInv, Parsed, FrameErrors(Next1) = {}, Take
  PROVE  /\ consumed' = Total(frames, handled + 1) /\ consumed' \in 0..received
         /\ handled' = handled + 1 /\ handled + 1 \in 0..Len(frames)
         /\ HandledRight(frames, options, handled + 1)
         /\ failure = 0
<1>1. /\ frames \in Seq(FrameType) /\ handled \in Nat
      /\ handled + 1 \in DOMAIN frames /\ Next1 = frames[handled + 1] /\ Next1 \in FrameType
      /\ DOMAIN frames = 1 .. Len(frames) /\ Len(frames) \in Nat
  BY ReaderTyped DEF ReadInv, Parsed
<1>2. /\ Total(frames, handled) \in Nat
      /\ Total(frames, handled + 1) = Total(frames, handled) + Size(Next1)
  BY <1>1, TotalGrows
<1>3. consumed' = Total(frames, handled + 1)
  BY <1>2 DEF ReadInv, Take
<1>4. consumed' \in 0..received
  <2>1. received \in Nat /\ consumed \in Nat /\ received - consumed >= Size(Next1)
    BY DEF ReadInv, ReaderTypeOK, Parsed, Buffered
  <2>2. Size(Next1) \in Nat
    BY <1>1 DEF FrameType, Size
  <2>. QED
    BY <2>1, <2>2 DEF Take
<1>5. HandledRight(frames, options, handled + 1)
  <2>1. Reasons(frames, options, handled + 1) = {}
    BY HandledHasNone
  <2>2. 1..(handled + 1) = (1..handled) \cup {handled + 1}
    BY <1>1
  <2>. QED
    BY <2>1, <2>2 DEF HandledRight, ReadInv
<1>. QED
  BY <1>1, <1>3, <1>4, <1>5 DEF Take, Parsed, Reading

\* A control frame is told at once, in the middle of a message too.
LEMMA ControlReads ==
  ASSUME ReadInv, HandleControl
  PROVE  ReadInv'
<1>. DEFINE n == handled + 1
            event == [opcode |-> Next1.opcode, inflated |-> FALSE, parts |-> <<n>>]
<1>1. /\ consumed' = Total(frames, n) /\ consumed' \in 0..received
      /\ handled' = n /\ n \in 0..Len(frames)
      /\ HandledRight(frames, options, n) /\ failure = 0
  BY Handled DEF HandleControl
<1>2. /\ handled \in Nat /\ n \in DOMAIN frames /\ Next1 = frames[n] /\ Next1 \in FrameType
  BY ReaderTyped DEF ReadInv, HandleControl, Parsed
<1>3. event \in Event
  <2>1. <<n>> \in Seq(DOMAIN frames)
    BY <1>2
  <2>. QED
    BY <1>2, <2>1 DEF Event, FrameType
<1>4. delivered \in Seq(Event) /\ DeliveredRight(delivered, frames, handled)
  BY DEF ReadInv, ReaderTypeOK, Event
<1>5. IsEvent(event, frames, n)
  BY <1>2 DEF IsEvent, HandleControl
<1>6. delivered' = Append(delivered, event)
  BY DEF HandleControl
<1>. HIDE DEF event
<1>7. delivered' \in Seq(Event)
  BY <1>3, <1>4, <1>6, AppendProperties
<1>8. DeliveredRight(delivered', frames, n)
  BY <1>2, <1>3, <1>4, <1>5, <1>6, DeliveredGrows DEF HandleControl
<1>9. FragmentsRight(fragments, frames, n)
  <2>1. Open(frames, n) = Open(frames, handled)
    BY <1>2, OpenGrows DEF HandleControl
  <2>. QED
    BY <2>1 DEF ReadInv, FragmentsRight
<1>10. ReaderTypeOK'
  BY <1>1, <1>7 DEF ReadInv, ReaderTypeOK, HandleControl, Event
<1>. QED
  BY <1>1, <1>8, <1>9, <1>10 DEF ReadInv, HandleControl

\* A frame that is not the last opens a message or goes on with it.
LEMMA FragmentReads ==
  ASSUME ReadInv, HandleFragment
  PROVE  ReadInv'
<1>. DEFINE n == handled + 1
            m == Message(Next1)
<1>1. /\ consumed' = Total(frames, n) /\ consumed' \in 0..received
      /\ handled' = n /\ n \in 0..Len(frames)
      /\ HandledRight(frames, options, n) /\ failure = 0
  BY Handled DEF HandleFragment
<1>2. /\ handled \in Nat /\ n \in DOMAIN frames /\ Next1 = frames[n] /\ Next1 \in FrameType
      /\ MaxPayload \in Nat
  BY ReaderTyped DEF ReadInv, HandleFragment, Parsed
<1>3. ~IsControl(Next1) /\ ~OutOfPlace(Next1) /\ PayloadLength(Next1) <= MaxPayload
  BY HandledHasNone DEF HandleFragment
<1>4. /\ m \in Fragments /\ m.opcode \in {"text", "binary"}
      /\ m.opcode = First(frames, n).opcode
      /\ m.compressed = First(frames, n).rsv1
      /\ Lists(m.parts, Members(frames, n))
      /\ m.length = Carried(frames, Members(frames, n))
      /\ m.length = PayloadLength(Next1)
  BY <1>3, MessageRight DEF HandleFragment, Parsed
<1>5. Open(frames, n) = Members(frames, n) /\ Open(frames, n) # {}
  <2>1. ~IsControl(frames[n]) /\ ~frames[n].fin
    BY <1>2, <1>3 DEF HandleFragment
  <2>2. /\ Members(frames, n) = Open(frames, handled) \cup {n}
        /\ Open(frames, n) = Open(frames, handled) \cup {n}
    BY <1>2, <2>1, OpenGrows
  <2>. QED
    BY <2>2
<1>6. FragmentsRight(m, frames, n)
  <2>. HIDE DEF m
  <2>. QED
    BY <1>4, <1>5 DEF FragmentsRight, First
<1>7. DeliveredRight(delivered, frames, n)
  <2>1. delivered \in Seq(Event) /\ DeliveredRight(delivered, frames, handled)
    BY DEF ReadInv, ReaderTypeOK, Event
  <2>. QED
    BY <1>2, <1>3, <2>1, DeliveredGrows DEF HandleFragment
<1>8. fragments' = m
  BY DEF HandleFragment
<1>9. m \in [opcode : {"none", "text", "binary"}, compressed : BOOLEAN, length : 0..MaxPayload,
             parts : Seq(DOMAIN frames)]
  <2>. HIDE DEF m
  <2>1. m.length \in 0..MaxPayload
    BY <1>2, <1>3, <1>4 DEF Fragments
  <2>. QED
    BY <1>4, <2>1 DEF Fragments
<1>. HIDE DEF m
<1>10. ReaderTypeOK'
  BY <1>1, <1>8, <1>9 DEF ReadInv, ReaderTypeOK, HandleFragment
<1>. QED
  BY <1>1, <1>6, <1>7, <1>8, <1>10 DEF ReadInv, HandleFragment

\* The last frame of a message tells it and leaves nothing open.
LEMMA FinalReads ==
  ASSUME ReadInv, HandleFinal
  PROVE  ReadInv'
<1>. DEFINE n == handled + 1
            m == Message(Next1)
            event == [opcode |-> m.opcode, inflated |-> m.compressed, parts |-> m.parts]
<1>1. /\ consumed' = Total(frames, n) /\ consumed' \in 0..received
      /\ handled' = n /\ n \in 0..Len(frames)
      /\ HandledRight(frames, options, n) /\ failure = 0
  BY Handled DEF HandleFinal
<1>2. /\ frames \in Seq(FrameType)
      /\ handled \in Nat /\ n \in DOMAIN frames /\ Next1 = frames[n] /\ Next1 \in FrameType
      /\ MaxPayload \in Nat
  BY ReaderTyped DEF ReadInv, HandleFinal, Parsed
<1>3. ~IsControl(Next1) /\ ~OutOfPlace(Next1) /\ Next1.fin
  BY HandledHasNone DEF HandleFinal
<1>4. /\ m \in Fragments /\ m.opcode \in {"text", "binary"}
      /\ m.opcode = First(frames, n).opcode
      /\ m.compressed = First(frames, n).rsv1
      /\ Lists(m.parts, Members(frames, n))
  BY <1>3, MessageRight DEF HandleFinal, Parsed
<1>5. delivered' = Append(delivered, event)
  BY DEF HandleFinal
<1>. HIDE DEF m
<1>6. event \in Event
  BY <1>4 DEF Event, Fragments, Opcodes
<1>7. IsEvent(event, frames, n)
  BY <1>2, <1>3, <1>4 DEF IsEvent
<1>. HIDE DEF event
<1>8. delivered \in Seq(Event) /\ DeliveredRight(delivered, frames, handled)
  BY DEF ReadInv, ReaderTypeOK, Event
<1>9. delivered' \in Seq(Event)
  BY <1>5, <1>6, <1>8, AppendProperties
<1>10. DeliveredRight(delivered', frames, n)
  BY <1>2, <1>3, <1>5, <1>6, <1>7, <1>8, DeliveredGrows
<1>11. FragmentsRight(NoFragments, frames, n)
  <2>1. Open(frames, n) = {}
    BY <1>2, <1>3, OpenGrows
  <2>2. Lists(<<>>, {}) /\ Carried(frames, {}) = 0
    BY <1>2, NothingCarried DEF Lists, Range
  <2>. QED
    BY <2>1, <2>2 DEF FragmentsRight, NoFragments
<1>12. NoFragments \in [opcode : {"none", "text", "binary"}, compressed : BOOLEAN, length : 0..MaxPayload,
                        parts : Seq(DOMAIN frames)]
  <2>1. <<>> \in Seq(DOMAIN frames)
    OBVIOUS
  <2>. QED
    BY <1>2, <2>1 DEF NoFragments
<1>13. fragments' = NoFragments
  BY DEF HandleFinal
<1>14. ReaderTypeOK'
  BY <1>1, <1>9, <1>12, <1>13 DEF ReadInv, ReaderTypeOK, HandleFinal, Event
<1>. QED
  BY <1>1, <1>10, <1>11, <1>13, <1>14 DEF ReadInv, HandleFinal

\* A frame that is refused is not handled.
LEMMA RefusalReads ==
  ASSUME ReadInv, Refuse
  PROVE  ReadInv'
<1>1. PICK code \in {1002, 1007, 1009} :
        /\ ParseFails(code) \/ (Parsed /\ code \in FrameErrors(Next1))
        /\ failure' = code
  BY DEF Refuse
<1>2. failure' \in Reasons(frames, options, handled + 1)
  BY <1>1, RefusedRight
<1>3. ReaderTypeOK'
  BY <1>1 DEF ReadInv, ReaderTypeOK, Refuse
<1>. QED
  BY <1>2, <1>3 DEF ReadInv, Refuse

LEMMA ReadInvStep == ReadInv /\ [ReaderNext]_readerVars => ReadInv'
<1>. SUFFICES ASSUME ReadInv, [ReaderNext]_readerVars PROVE ReadInv'
  OBVIOUS
<1>1. ASSUME NEW n \in 1..(Ends(Len(frames)) - received), ChunkOf(n) PROVE ReadInv'
  BY <1>1, ChunkReads
<1>2. CASE HandleControl
  BY <1>2, ControlReads
<1>3. CASE HandleFragment
  BY <1>3, FragmentReads
<1>4. CASE HandleFinal
  BY <1>4, FinalReads
<1>5. CASE Refuse
  BY <1>5, RefusalReads
<1>6. CASE UNCHANGED readerVars
  BY <1>6 DEF readerVars, ReadInv, ReaderTypeOK
<1>. QED
  BY <1>1, <1>2, <1>3, <1>4, <1>5, <1>6 DEF ReaderNext

\* A reader that needs more has not got the whole of the next frame.
LEMMA WaitsForRest ==
  ASSUME ReadInv, NeedsMore
  PROVE  Ends(handled + 1) > received
<1>1. /\ frames \in Seq(FrameType) /\ handled \in Nat
      /\ handled + 1 \in DOMAIN frames /\ Next1 = frames[handled + 1] /\ Next1 \in FrameType
  BY ReaderTyped DEF ReadInv, NeedsMore
<1>2. /\ Total(frames, handled) \in Nat
      /\ Total(frames, handled + 1) = Total(frames, handled) + Size(Next1)
  BY <1>1, TotalGrows
<1>3. received \in Nat /\ consumed = Total(frames, handled) /\ received - consumed = Buffered
  BY DEF ReadInv, ReaderTypeOK, Buffered
<1>4. Next1.form \in Nat /\ Next1.length \in Nat
  BY <1>1 DEF FrameType
<1>5. ~(Buffered >= Size(Next1))
  <2>. SUFFICES ASSUME Buffered >= Size(Next1) PROVE FALSE
    OBVIOUS
  <2>1. Buffered >= 2 /\ Buffered >= 2 + Next1.form
    BY <1>2, <1>3, <1>4 DEF Size
  <2>2. ~ParseFails(1002) /\ ~ParseFails(1009) /\ Reading /\ ~Parsed
    BY DEF NeedsMore
  <2>. QED
    BY <2>1, <2>2 DEF ParseFails, Parsed
<1>6. Ends(handled + 1) = Total(frames, handled + 1)
  BY DEF Ends, Total
<1>7. Size(Next1) \in Nat
  BY <1>4 DEF Size
<1>. QED
  BY <1>2, <1>3, <1>5, <1>6, <1>7

LEMMA ReadInvAlways == ReaderSpec => []ReadInv
<1>. QED
  BY InitReads, ReadInvStep, PTL DEF ReaderSpec

\* No more bytes are consumed than arrived, no more frames handled than sent, and the fragments
\* that handleFrame keeps of a message never hold more than maxPayload.
THEOREM FramesTyped == ReaderSpec => []ReaderTypeOK
<1>1. ReadInv => ReaderTypeOK
  BY DEF ReadInv
<1>. QED
  BY <1>1, ReadInvAlways, PTL

\* For any frames that a peer sends and any cut of their bytes into chunks, handleChunk tells
\* the application each control frame and each message once, whole and in order, leaves no
\* frame that has arrived unread, refuses none without a reason and passes over none with one.
THEOREM MessagesAreWhole == ReaderSpec => []MessagesWhole
<1>1. ReadInv => MessagesWhole
  <2>. SUFFICES ASSUME ReadInv PROVE MessagesWhole
    OBVIOUS
  <2>1. NeedsMore => Ends(handled + 1) > received
    BY WaitsForRest
  <2>. QED
    BY <2>1 DEF ReadInv, HandledRight, DeliveredRight, UpTo, MessagesWhole
<1>. QED
  BY <1>1, ReadInvAlways, PTL

-----------------------------------------------------------------------------
(* The gate.                                                               *)

Inside == In({"working", "settled"})

\* What StreamReleased needs: a compressor closed elsewhere than at the gate
\* never reaches the gate again.
ClosedStaysOut ==
  \A c \in Compressors :
    closed[c] = "elsewhere" => c \notin deflate /\ pc[c] \notin {"waiting", "woken"}

GateInv == GateTypeOK /\ ActiveCounts /\ PendingIsWaiting /\ NoLostWakeup /\ ClosedStaysOut

\* The compressors inside the gate are finitely many, so their number is a
\* natural number that is zero only for the empty set.
LEMMA InsideFinite ==
  /\ IsFiniteSet(Inside)
  /\ Cardinality(Inside) \in Nat
  /\ Cardinality(Inside) = 0 <=> Inside = {}
<1>1. Inside \subseteq Compressors
  BY DEF Inside, In
<1>2. IsFiniteSet(Inside)
  BY <1>1, FS_Subset, GateAssumption
<1>. QED
  BY <1>2, FS_CardinalityType, FS_EmptySet

\* The counter follows the set inside the gate when a compressor enters.
LEMMA Entering ==
  ASSUME NEW c \in Compressors, ActiveCounts, c \notin Inside,
         active' = active + 1, Inside' = Inside \cup {c}
  PROVE  ActiveCounts'
<1>1. Cardinality(Inside \cup {c}) = Cardinality(Inside) + 1
  BY InsideFinite, FS_AddElement
<1>. QED
  BY <1>1 DEF ActiveCounts, Inside

\* ... and when one leaves.
LEMMA Leaving ==
  ASSUME NEW c \in Compressors, ActiveCounts, c \in Inside,
         active' = active - 1, Inside' = Inside \ {c}
  PROVE  ActiveCounts' /\ active' \in Nat
<1>1. Cardinality(Inside \ {c}) = Cardinality(Inside) - 1
  BY InsideFinite, FS_RemoveElement
<1>2. Cardinality(Inside \ {c}) \in Nat
  BY InsideFinite, FS_RemoveElement, FS_CardinalityType
<1>. QED
  BY <1>1, <1>2 DEF ActiveCounts, Inside

LEMMA GateInitInv == GateInit => GateInv
<1>. SUFFICES ASSUME GateInit PROVE GateInv
  OBVIOUS
<1>1. GateTypeOK
  BY DEF GateInit, GateTypeOK, States
<1>2. ActiveCounts
  <2>1. In({"working", "settled"}) = {}
    BY DEF GateInit, In
  <2>. QED
    BY <2>1, FS_EmptySet DEF GateInit, ActiveCounts
<1>3. PendingIsWaiting
  BY DEF GateInit, PendingIsWaiting, In, Range, IsInjective
<1>4. NoLostWakeup
  BY DEF GateInit, NoLostWakeup
<1>5. ClosedStaysOut
  BY DEF GateInit, ClosedStaysOut
<1>. QED
  BY <1>1, <1>2, <1>3, <1>4, <1>5 DEF GateInv

\* A compressor that joins the queue is its last element, and was not in it.
LEMMA QueueingStep ==
  ASSUME GateInv, NEW c \in Compressors, pc[c] = "idle",
         pc' = [pc EXCEPT ![c] = "waiting"], pending' = Append(pending, c)
  PROVE  PendingIsWaiting'
<1>1. pending \in Seq(Compressors) /\ pc \in [Compressors -> States]
  BY DEF GateInv, GateTypeOK
<1>2. c \notin Range(pending)
  BY DEF GateInv, PendingIsWaiting, In
<1>3. In({"waiting"})' = In({"waiting"}) \cup {c}
  BY <1>1 DEF In
<1>4. /\ Len(pending') = Len(pending) + 1
      /\ DOMAIN pending = 1 .. Len(pending)
      /\ DOMAIN pending' = 1 .. Len(pending) + 1
      /\ \A i \in 1 .. Len(pending) : pending'[i] = pending[i]
      /\ pending'[Len(pending) + 1] = c
      /\ Len(pending) \in Nat
  BY <1>1, AppendProperties, LenProperties
<1>5. Range(pending') = Range(pending) \cup {c}
  BY <1>4 DEF Range
<1>6. IsInjective(pending')
  BY <1>2, <1>4 DEF GateInv, PendingIsWaiting, IsInjective, Range
<1>. QED
  BY <1>3, <1>5, <1>6 DEF GateInv, PendingIsWaiting

\* The wake-up takes the head of the queue, and nobody else, out of it.
LEMMA WakingStep ==
  ASSUME GateInv, NEW c \in Compressors, Finish(c), pending # <<>>
  PROVE  /\ Head(pending) \in Compressors
         /\ pc[Head(pending)] = "waiting"
         /\ pc' = [[pc EXCEPT ![c] = "returning"] EXCEPT ![Head(pending)] = "woken"]
         /\ Head(pending) # c
         /\ pending' \in Seq(Compressors)
         /\ PendingIsWaiting'
<1>. DEFINE h == Head(pending)
<1>1. pending \in Seq(Compressors) /\ pc \in [Compressors -> States]
  BY DEF GateInv, GateTypeOK
<1>2. /\ h \in Compressors
      /\ pending' \in Seq(Compressors)
      /\ Len(pending') = Len(pending) - 1
      /\ \A i \in 1 .. Len(pending') : pending'[i] = pending[i + 1]
      /\ Len(pending) \in Nat \ {0}
      /\ DOMAIN pending = 1 .. Len(pending)
      /\ DOMAIN pending' = 1 .. Len(pending')
      /\ h = pending[1]
  <2>1. pending' = Tail(pending)
    BY DEF Finish
  <2>2. Tail(pending) \in Seq(Compressors)
    BY <1>1, HeadTailProperties
  <2>. QED
    BY <1>1, <2>1, <2>2, HeadTailProperties, LenProperties, EmptySeq
<1>3. pc[h] = "waiting"
  BY <1>2 DEF GateInv, PendingIsWaiting, In, Range
<1>4. pc' = [[pc EXCEPT ![c] = "returning"] EXCEPT ![h] = "woken"] /\ h # c
  BY <1>3 DEF Finish, Wake
<1>5. In({"waiting"})' = In({"waiting"}) \ {h}
  BY <1>1, <1>2, <1>4 DEF In, Finish
<1>6. IsInjective(pending')
  BY <1>2 DEF GateInv, PendingIsWaiting, IsInjective
<1>7. Range(pending') = Range(pending) \ {h}
  <2>1. ASSUME NEW i \in DOMAIN pending' PROVE pending'[i] \in Range(pending) \ {h}
    BY <1>2 DEF Range, GateInv, PendingIsWaiting, IsInjective
  <2>2. ASSUME NEW i \in DOMAIN pending, pending[i] # h PROVE pending[i] \in Range(pending')
    <3>1. i - 1 \in DOMAIN pending' /\ pending'[i - 1] = pending[i]
      BY <1>2, <2>2
    <3>. QED
      BY <3>1 DEF Range
  <2>. QED
    BY <2>1, <2>2 DEF Range
<1>. QED
  BY <1>2, <1>3, <1>4, <1>5, <1>6, <1>7 DEF GateInv, PendingIsWaiting

\* A compressor that enters, as a newcomer or woken, disturbs nobody who waits.
LEMMA EnteringStep ==
  ASSUME GateInv, NEW c \in Compressors, Start(c), pc[c] \in {"idle", "woken"},
         UNCHANGED pending
  PROVE  ActiveCounts' /\ PendingIsWaiting' /\ NoLostWakeup'
<1>1. pc \in [Compressors -> States]
  BY DEF GateInv, GateTypeOK
<1>2. Inside' = Inside \cup {c} /\ c \notin Inside
  BY <1>1 DEF Start, Inside, In
<1>3. ActiveCounts'
  BY <1>2, Entering DEF Start, GateInv
<1>4. In({"waiting"})' = In({"waiting"})
  BY <1>1 DEF Start, In
<1>5. PendingIsWaiting'
  BY <1>4 DEF GateInv, PendingIsWaiting, IsInjective, Range
<1>6. c \in In({"working", "settled", "woken"})'
  BY <1>1 DEF Start, In
<1>. QED
  BY <1>3, <1>5, <1>6 DEF NoLostWakeup

LEMMA GateNextInv == GateInv /\ [GateNext]_gateVars => GateInv'
<1>. SUFFICES ASSUME GateInv, [GateNext]_gateVars PROVE GateInv'
  OBVIOUS
<1>. USE DEF GateInv
<1>t. /\ active \in Nat /\ pending \in Seq(Compressors)
      /\ pc \in [Compressors -> States] /\ deflate \subseteq Compressors
      /\ closed \in [Compressors -> {"no", "queued", "elsewhere"}]
  BY DEF GateTypeOK
<1>1. ASSUME NEW c \in Compressors, Request(c) PROVE GateInv'
  <2>1. CASE Full
    <3>1. /\ pc' = [pc EXCEPT ![c] = "waiting"] /\ pending' = Append(pending, c)
          /\ pc[c] = "idle" /\ closed[c] = "no" /\ UNCHANGED <<active, deflate, closed>>
      BY <1>1, <2>1 DEF Request
    <3>2. GateTypeOK'
      BY <1>t, <3>1, AppendProperties DEF GateTypeOK, States
    <3>3. Inside' = Inside
      BY <1>t, <3>1 DEF Inside, In
    <3>4. ActiveCounts'
      BY <3>1, <3>3 DEF ActiveCounts, Inside
    <3>5. PendingIsWaiting'
      BY <3>1, QueueingStep
    <3>6. NoLostWakeup'
      <4>1. Inside # {}
        BY <1>t, <2>1, InsideFinite, GateAssumption DEF Full, ActiveCounts, Inside
      <4>2. Inside \subseteq In({"working", "settled", "woken"})'
        BY <1>t, <3>3 DEF Inside, In
      <4>. QED
        BY <4>1, <4>2 DEF NoLostWakeup
    <3>7. ClosedStaysOut'
      BY <1>t, <3>1 DEF ClosedStaysOut
    <3>. QED
      BY <3>2, <3>4, <3>5, <3>6, <3>7
  <2>2. CASE ~Full
    <3>1. Start(c) /\ pc[c] = "idle" /\ closed[c] = "no" /\ UNCHANGED <<pending, closed>>
      BY <1>1, <2>2 DEF Request
    <3>2. GateTypeOK' /\ ClosedStaysOut'
      BY <1>t, <3>1 DEF Start, GateTypeOK, States, ClosedStaysOut
    <3>. QED
      BY <3>1, <3>2, EnteringStep
  <2>. QED
    BY <2>1, <2>2
<1>2. ASSUME NEW c \in Compressors, Resume(c) PROVE GateInv'
  <2>1. Start(c) /\ pc[c] = "woken" /\ UNCHANGED <<pending, closed>>
    BY <1>2 DEF Resume
  <2>2. GateTypeOK' /\ ClosedStaysOut'
    BY <1>t, <2>1 DEF Start, GateTypeOK, States, ClosedStaysOut
  <2>. QED
    BY <2>1, <2>2, EnteringStep
<1>3. ASSUME NEW c \in Compressors, Complete(c) PROVE GateInv'
  <2>1. /\ pc[c] = "working" /\ pc' = [pc EXCEPT ![c] = "settled"]
        /\ deflate' \subseteq deflate /\ UNCHANGED <<active, pending, closed>>
    BY <1>3 DEF Complete
  <2>2. GateTypeOK' /\ ClosedStaysOut'
    BY <1>t, <2>1 DEF GateTypeOK, States, ClosedStaysOut
  <2>3. In({"working", "settled"})' = In({"working", "settled"})
    BY <1>t, <2>1 DEF In
  <2>4. In({"waiting"})' = In({"waiting"})
    BY <1>t, <2>1 DEF In
  <2>5. In({"working", "settled", "woken"})' = In({"working", "settled", "woken"})
    BY <1>t, <2>1 DEF In
  <2>. QED
    BY <2>1, <2>2, <2>3, <2>4, <2>5
    DEF ActiveCounts, PendingIsWaiting, NoLostWakeup, Range, IsInjective
<1>4. ASSUME NEW c \in Compressors, Finish(c) PROVE GateInv'
  <2>1. /\ pc[c] = "settled" /\ active' = active - 1 /\ UNCHANGED <<deflate, closed>>
    BY <1>4 DEF Finish, Released
  <2>2. CASE pending = <<>>
    <3>1. pc' = [pc EXCEPT ![c] = "returning"] /\ pending' = pending
      BY <1>4, <2>2 DEF Finish, Wake
    <3>2. Inside' = Inside \ {c} /\ c \in Inside
      BY <1>t, <2>1, <3>1 DEF Inside, In
    <3>3. ActiveCounts' /\ active' \in Nat
      BY <2>1, <3>2, Leaving
    <3>4. GateTypeOK' /\ ClosedStaysOut'
      BY <1>t, <2>1, <3>1, <3>3 DEF GateTypeOK, States, ClosedStaysOut
    <3>5. In({"waiting"})' = In({"waiting"})
      BY <1>t, <2>1, <3>1 DEF In
    <3>. QED
      BY <2>2, <3>1, <3>3, <3>4, <3>5
      DEF PendingIsWaiting, NoLostWakeup, Range, IsInjective
  <2>3. CASE pending # <<>>
    <3>. DEFINE h == Head(pending)
    <3>1. /\ h \in Compressors /\ pc[h] = "waiting" /\ h # c
          /\ pc' = [[pc EXCEPT ![c] = "returning"] EXCEPT ![h] = "woken"]
          /\ pending' \in Seq(Compressors) /\ PendingIsWaiting'
      BY <1>4, <2>3, WakingStep
    <3>2. Inside' = Inside \ {c} /\ c \in Inside
      BY <1>t, <2>1, <3>1 DEF Inside, In
    <3>3. ActiveCounts' /\ active' \in Nat
      BY <2>1, <3>2, Leaving
    <3>4. GateTypeOK' /\ ClosedStaysOut'
      BY <1>t, <2>1, <3>1, <3>3 DEF GateTypeOK, States, ClosedStaysOut
    <3>5. h \in In({"working", "settled", "woken"})'
      BY <1>t, <3>1 DEF In
    <3>. QED
      BY <3>1, <3>3, <3>4, <3>5 DEF NoLostWakeup
  <2>. QED
    BY <2>2, <2>3
<1>5. ASSUME NEW c \in Compressors, Return(c) PROVE GateInv'
  <2>1. /\ pc[c] = "returning" /\ pc' = [pc EXCEPT ![c] = "idle"]
        /\ UNCHANGED <<active, pending, deflate, closed>>
    BY <1>5 DEF Return
  <2>2. GateTypeOK' /\ ClosedStaysOut'
    BY <1>t, <2>1 DEF GateTypeOK, States, ClosedStaysOut
  <2>3. In({"working", "settled"})' = In({"working", "settled"})
    BY <1>t, <2>1 DEF In
  <2>4. In({"waiting"})' = In({"waiting"})
    BY <1>t, <2>1 DEF In
  <2>5. In({"working", "settled", "woken"})' = In({"working", "settled", "woken"})
    BY <1>t, <2>1 DEF In
  <2>. QED
    BY <2>1, <2>2, <2>3, <2>4, <2>5
    DEF ActiveCounts, PendingIsWaiting, NoLostWakeup, Range, IsInjective
<1>6. ASSUME NEW c \in Compressors, CloseCompressor(c) PROVE GateInv'
  <2>1. /\ deflate' = deflate \ {c}
        /\ pc' = IF pc[c] = "working" THEN [pc EXCEPT ![c] = "settled"] ELSE pc
        /\ closed' = [closed EXCEPT ![c] =
                        IF pc[c] \in {"waiting", "woken"} THEN "queued" ELSE "elsewhere"]
        /\ UNCHANGED <<active, pending>>
    BY <1>6 DEF CloseCompressor, DeflateAfterClose
  <2>2. GateTypeOK' /\ ClosedStaysOut'
    BY <1>t, <2>1 DEF GateTypeOK, States, ClosedStaysOut
  <2>3. In({"working", "settled"})' = In({"working", "settled"})
    BY <1>t, <2>1 DEF In
  <2>4. In({"waiting"})' = In({"waiting"})
    BY <1>t, <2>1 DEF In
  <2>5. In({"working", "settled", "woken"})' = In({"working", "settled", "woken"})
    BY <1>t, <2>1 DEF In
  <2>. QED
    BY <2>1, <2>2, <2>3, <2>4, <2>5
    DEF ActiveCounts, PendingIsWaiting, NoLostWakeup, Range, IsInjective
<1>7. CASE UNCHANGED gateVars
  BY <1>7 DEF gateVars, GateTypeOK, ActiveCounts, PendingIsWaiting, NoLostWakeup,
              ClosedStaysOut, In, Range, IsInjective
<1>. QED
  BY <1>1, <1>2, <1>3, <1>4, <1>5, <1>6, <1>7 DEF GateNext

LEMMA GateSpecInv == GateSpec => []GateInv
BY GateInitInv, GateNextInv, PTL DEF GateSpec

-----------------------------------------------------------------------------
\* The types of the gate's state; in particular the counter is never negative,
\* however compressions are rejected.
THEOREM GateTyped == GateSpec => []GateTypeOK
<1>1. GateInv => GateTypeOK
  BY DEF GateInv
<1>. QED
  BY GateSpecInv, <1>1, PTL

\* The counter is exact: through every rejection and close() a place that was
\* taken is given back, once.
THEOREM CounterExact == GateSpec => []ActiveCounts
<1>1. GateInv => ActiveCounts
  BY DEF GateInv
<1>. QED
  BY GateSpecInv, <1>1, PTL

\* The pending array holds the waiters, each once, for any number of
\* connections.
THEOREM PendingExact == GateSpec => []PendingIsWaiting
<1>1. GateInv => PendingIsWaiting
  BY DEF GateInv
<1>. QED
  BY GateSpecInv, <1>1, PTL

\* No wake-up is lost: whoever waits is behind a task that will wake a waiter.
THEOREM WakeupsKept == GateSpec => []NoLostWakeup
<1>1. GateInv => NoLostWakeup
  BY DEF GateInv
<1>. QED
  BY GateSpecInv, <1>1, PTL

\* close() away from the gate releases the deflate stream for good.
THEOREM StreamsReleased == GateSpec => []StreamReleased
<1>1. GateInv => StreamReleased
  BY DEF GateInv, ClosedStaysOut, StreamReleased
<1>. QED
  BY GateSpecInv, <1>1, PTL

\* Newcomers respect the limit: a step that takes the counter over it is the
\* resumption of a waiter.
THEOREM NewcomersWithinLimit == GateSpec => OnlyWokenExceed
<1>1. GateInv /\ [GateNext]_gateVars =>
        [active' > active /\ active' > Limit =>
           \E c \in Compressors : pc[c] = "woken" /\ pc'[c] = "working"]_gateVars
  <2>. SUFFICES ASSUME GateInv, GateNext, active' > active, active' > Limit
                PROVE  \E c \in Compressors : pc[c] = "woken" /\ pc'[c] = "working"
    BY DEF gateVars
  <2>t. active \in Nat /\ pc \in [Compressors -> States] /\ Limit \in Nat
    BY GateAssumption DEF GateInv, GateTypeOK
  <2>1. PICK c \in Compressors :
          Request(c) \/ Resume(c) \/ Complete(c) \/ Finish(c) \/ Return(c) \/ CloseCompressor(c)
    BY DEF GateNext
  <2>2. ~Request(c)
    BY <2>t DEF Request, Start, Full
  <2>3. ~Complete(c) /\ ~Finish(c) /\ ~Return(c) /\ ~CloseCompressor(c)
    BY <2>t DEF Complete, Finish, Released, Return, CloseCompressor
  <2>4. Resume(c)
    BY <2>1, <2>2, <2>3
  <2>. QED
    BY <2>t, <2>4 DEF Resume, Start
<1>. QED
  BY GateSpecInv, <1>1, PTL DEF GateSpec, OnlyWokenExceed

=============================================================================
