------------------------- MODULE WebSocketConnection -------------------------
(***************************************************************************)
(* KenoWebSocket (src/internal/websocket/connection.ts): the close         *)
(* handshake of one connection, and its queue of frames to compress.       *)
(*                                                                         *)
(* The connection is one record, and each method of the class an operator  *)
(* from records to records, so that a handler is the composition of the    *)
(* calls the code makes.  A turn of the event loop is one action, except   *)
(* where the code calls back into the application before it goes on: the   *)
(* frames of a chunk are handled one by one, and input holds the rest.     *)
(***************************************************************************)
EXTENDS Integers, Sequences, SequencesExt

CONSTANTS
  PerMessageDeflate,   \* the outcomes of the negotiation of permessage-deflate
  AutoPong,            \* options.autoPong
  MaxSends,            \* bound: messages the application sends
  MaxPings,            \* bound: pings the application writes
  MaxChunks,           \* bound: chunks the peer sends
  PeerChunks           \* what a chunk of the peer may hold

ASSUME ConnectionAssumption ==
  /\ PerMessageDeflate \subseteq BOOLEAN
  /\ AutoPong \in BOOLEAN
  /\ MaxSends \in Nat
  /\ MaxPings \in Nat
  /\ MaxChunks \in Nat
  /\ PeerChunks \subseteq Seq({"data", "ping", "close", "invalid", "invalidClose"})

OPEN == 1
CLOSING == 2
CLOSED == 3

VARIABLES
  conn,      \* the connection and its raw socket
  input,     \* what is left to do of the chunk being handled
  callback,  \* is the application's listener running, inside a chunk?
  chunks     \* chunks the peer sent

vars == <<conn, input, callback, chunks>>

Control(type) == [type |-> type, id |-> 0]
Data(id) == [type |-> "data", id |-> id]

(***************************************************************************)
(* deflate tells whether permessage-deflate was negotiated, state is       *)
(* readyState.  queue and index are compressedQueue and                    *)
(* compressedQueueIndex, flush is where flushCompressedQueue is and        *)
(* inflight the frame it holds.  writable, readEnded, rawPaused, needDrain,*)
(* destroyed and rawClosed are the raw socket's, paused is the             *)
(* connection's own idea of rawPaused.  wire is what was written to the    *)
(* socket, sent the number of messages sent so far, closedBy who had the   *)
(* close frame written.                                                    *)
(***************************************************************************)
Connections ==
  [deflate : PerMessageDeflate, state : {OPEN, CLOSING, CLOSED},
   sentClose : BOOLEAN, gotClose : BOOLEAN, reported : BOOLEAN,
   pendingClose : BOOLEAN, timer : BOOLEAN, paused : BOOLEAN,
   queue : Seq(1 .. MaxSends), index : Nat,
   flush : {"off", "compressing", "draining"}, inflight : 0 .. MaxSends,
   writable : {"open", "ended", "finished"}, readEnded : BOOLEAN,
   rawPaused : BOOLEAN, needDrain : BOOLEAN, destroyed : BOOLEAN, rawClosed : BOOLEAN,
   wire : Seq([type : {"data", "ping", "pong", "close"}, id : 0 .. MaxSends]),
   sent : 0 .. MaxSends,
   closedBy : {"nobody", "application", "peer", "failure"}]

Steps == {"data", "ping", "close", "invalid", "invalidClose", "autoPong", "fail"}

TypeOK ==
  /\ conn \in Connections
  /\ input \in Seq(Steps)
  /\ conn.index <= Len(conn.queue) + 1
  /\ callback \in BOOLEAN
  /\ chunks \in 0 .. MaxChunks

-----------------------------------------------------------------------------
(* The raw socket, an external net.Socket or Http2StreamResponse stream.   *)

\* raw.write: full says whether it returns false.  A write after end() is an
\* error that destroys the stream; one after destroy() is dropped.
Write(c, frame, full) ==
  IF c.destroyed THEN c
  ELSE IF c.writable # "open" THEN [c EXCEPT !.destroyed = TRUE]
  ELSE [c EXCEPT !.wire = Append(@, frame), !.needDrain = @ \/ full]

Wrote(c, full) == c.writable = "open" /\ ~c.destroyed /\ ~full

EndRaw(c) ==
  IF c.destroyed \/ c.writable # "open" THEN c ELSE [c EXCEPT !.writable = "ended"]

Destroy(c) == [c EXCEPT !.destroyed = TRUE]

\* A stream whose two sides are over destroys itself.
AutoDestroy(c) ==
  IF c.writable = "finished" /\ c.readEnded THEN Destroy(c) ELSE c

-----------------------------------------------------------------------------
HasPendingCompressedFrames(c) == c.flush # "off" \/ c.index < Len(c.queue)

\* Mutant: no timer guards the answer to the close frame.
WriteCloseFrame_NoTimer(c) ==
  EndRaw([Write([c EXCEPT !.sentClose = TRUE], Control("close"), FALSE) EXCEPT
    !.closedBy = IF Wrote(c, FALSE) THEN "application" ELSE @])

WriteCloseFrame(c) ==
  EndRaw([Write([c EXCEPT !.sentClose = TRUE], Control("close"), FALSE) EXCEPT
    !.timer = TRUE,
    !.closedBy = IF Wrote(c, FALSE) THEN "application" ELSE @])

\* Mutant: the flush loop ends without looking for a pending close frame.
FlushEnds_NoClose(c) ==
  LET over == c.index >= Len(c.queue)
  IN  IF over THEN [c EXCEPT !.queue = <<>>, !.index = 0, !.flush = "off"]
      ELSE [c EXCEPT !.flush = "off"]

\* The finally block of flushCompressedQueue.
FlushEnds(c) ==
  LET over == c.index >= Len(c.queue)
      d == IF over THEN [c EXCEPT !.queue = <<>>, !.index = 0, !.flush = "off"]
           ELSE [c EXCEPT !.flush = "off"]
  IN  IF d.pendingClose /\ ~HasPendingCompressedFrames(d) /\ ~d.destroyed
      THEN [WriteCloseFrame(d) EXCEPT !.pendingClose = FALSE]
      ELSE d

\* The loop of flushCompressedQueue, from its condition to the next await.
FlushLoop(c) ==
  IF c.index < Len(c.queue) /\ ~c.destroyed
  THEN [c EXCEPT !.flush = "compressing", !.inflight = c.queue[c.index + 1]]
  ELSE FlushEnds(c)

FlushCompressedQueue(c) == IF c.flush # "off" THEN c ELSE FlushLoop(c)

\* Mutant: the index moves on only when the write did not fill the buffer.
FlushCompressed_AdvancesLate(c, full) ==
  LET e == Write(c, Data(c.inflight), full)
  IN  IF Wrote(c, full) \/ e.destroyed THEN FlushLoop([e EXCEPT !.index = @ + 1])
      ELSE [e EXCEPT !.flush = "draining"]

\* compress() resolved: the frame is written, and a full buffer waited for.
FlushCompressed(c, full) ==
  LET d == [c EXCEPT !.index = @ + 1]
      e == Write(d, Data(c.inflight), full)
  IN  IF Wrote(d, full) \/ e.destroyed THEN FlushLoop(e)
      ELSE [e EXCEPT !.flush = "draining"]

\* The catch block: compress() or waitForDrain() was rejected.
FlushFailed(c) == FlushEnds(Destroy(c))

-----------------------------------------------------------------------------

\* What terminate() and the report of a close forget.
Drop(c) ==
  [c EXCEPT !.queue = <<>>, !.index = 0, !.pendingClose = FALSE, !.paused = FALSE]

Terminate(c) == Destroy([Drop(c) EXCEPT !.state = CLOSED])

\* Mutant: the report of a close leaves the timer running.
HandleClose_KeepsTimer(c) ==
  IF c.reported THEN c ELSE [Drop(c) EXCEPT !.reported = TRUE, !.state = CLOSED]

HandleClose(c) ==
  IF c.reported THEN c
  ELSE [Drop(c) EXCEPT !.reported = TRUE, !.timer = FALSE, !.state = CLOSED]

\* The application sends a message.
Send(c, full) ==
  LET d == [c EXCEPT !.sent = @ + 1]
  IN  IF c.deflate
      THEN FlushCompressedQueue([d EXCEPT !.queue = Append(@, d.sent)])
      ELSE Write(d, Data(d.sent), full)

\* Mutant: close() does not wait for the compressed queue.
CloseSocket_Now(c) == WriteCloseFrame([c EXCEPT !.state = CLOSING])

\* close(), on a socket that is open.
CloseSocket(c) ==
  LET d == [c EXCEPT !.state = CLOSING]
  IN  IF HasPendingCompressedFrames(d)
      THEN FlushCompressedQueue([d EXCEPT !.pendingClose = TRUE])
      ELSE WriteCloseFrame(d)

WriteOwnClose(c, by) ==
  [Write([c EXCEPT !.sentClose = TRUE], Control("close"), FALSE) EXCEPT
     !.closedBy = IF Wrote(c, FALSE) THEN by ELSE @]

\* Mutant: the raw socket is left open after the answer to a close frame.
HandleCloseFrame_NoEnd(c) ==
  LET d == [c EXCEPT !.gotClose = TRUE]
      e == IF d.sentClose THEN d
           ELSE WriteOwnClose([d EXCEPT !.pendingClose = FALSE], "peer")
  IN  [e EXCEPT !.state = CLOSING]

\* A valid close frame of the peer.
HandleCloseFrame(c) ==
  LET d == [c EXCEPT !.gotClose = TRUE]
      e == IF d.sentClose THEN d
           ELSE WriteOwnClose([d EXCEPT !.pendingClose = FALSE], "peer")
  IN  EndRaw([e EXCEPT !.state = CLOSING])

\* fail(), after it has emitted the error.
Fail(c) ==
  Destroy(IF ~c.sentClose /\ c.state < CLOSING
          THEN WriteOwnClose([c EXCEPT !.state = CLOSING], "failure")
          ELSE c)

-----------------------------------------------------------------------------
Init ==
  /\ \E negotiated \in PerMessageDeflate :
       conn = [deflate |-> negotiated, state |-> OPEN, sentClose |-> FALSE, gotClose |-> FALSE,
             reported |-> FALSE, pendingClose |-> FALSE, timer |-> FALSE,
             paused |-> FALSE, rawPaused |-> FALSE,
             queue |-> <<>>, index |-> 0, flush |-> "off", inflight |-> 0,
             writable |-> "open", readEnded |-> FALSE, needDrain |-> FALSE,
             destroyed |-> FALSE, rawClosed |-> FALSE, wire |-> <<>>,
             sent |-> 0, closedBy |-> "nobody"]
  /\ input = <<>>
  /\ callback = FALSE
  /\ chunks = 0

(* Calls of the application, in a turn of its own or from a listener.      *)

ApplicationRuns == (input = <<>> \/ callback) /\ UNCHANGED <<input, callback, chunks>>

ApplicationSends ==
  /\ ApplicationRuns
  /\ conn.state = OPEN
  /\ conn.sent < MaxSends
  /\ \E full \in BOOLEAN : conn' = Send(conn, full)

Written(type) == Len(SelectSeq(conn.wire, LAMBDA frame : frame.type = type))

\* ping(): a control frame does not wait for the compressed queue.
ApplicationPings ==
  /\ ApplicationRuns
  /\ conn.state = OPEN
  /\ Written("ping") < MaxPings
  /\ \E full \in BOOLEAN : conn' = Write(conn, Control("ping"), full)

\* pause() and resume() do nothing on a socket that is closed.
ApplicationPauses ==
  /\ ApplicationRuns
  /\ conn.state # CLOSED
  /\ conn' = [conn EXCEPT !.paused = TRUE, !.rawPaused = TRUE]

ApplicationResumes ==
  /\ ApplicationRuns
  /\ conn.state # CLOSED
  /\ conn' = [conn EXCEPT !.paused = FALSE, !.rawPaused = FALSE]

ApplicationCloses ==
  /\ ApplicationRuns
  /\ conn.state < CLOSING
  /\ conn' = CloseSocket(conn)

ApplicationTerminates ==
  /\ ApplicationRuns
  /\ conn' = Terminate(conn)

-----------------------------------------------------------------------------
(* Events of the raw socket, timers and promises: between two chunks.      *)

EventLoopTurn == input = <<>> /\ UNCHANGED <<input, callback, chunks>>

Readable == ~conn.destroyed /\ ~conn.readEnded /\ ~conn.rawPaused

ChunkArrives ==
  /\ input = <<>>
  /\ Readable
  /\ chunks < MaxChunks
  /\ chunks' = chunks + 1
  /\ input' \in PeerChunks
  /\ callback' = FALSE
  /\ UNCHANGED conn

CompressResolves ==
  /\ EventLoopTurn
  /\ conn.flush = "compressing"
  /\ \E full \in BOOLEAN : conn' = FlushCompressed(conn, full)

\* zlib failed, or close() of the compressor rejected the compression.
CompressRejects ==
  /\ EventLoopTurn
  /\ conn.flush = "compressing"
  /\ conn' = FlushFailed(conn)

\* A stream that is ending emits no drain event.
RawDrain ==
  /\ EventLoopTurn
  /\ conn.needDrain
  /\ conn.writable = "open"
  /\ ~conn.destroyed
  /\ LET d == [conn EXCEPT !.needDrain = FALSE]
     IN  conn' = IF d.flush = "draining" THEN FlushLoop(d) ELSE d

\* The peer's FIN.
RawEnd ==
  /\ EventLoopTurn
  /\ Readable
  /\ LET d == [conn EXCEPT !.readEnded = TRUE,
                           !.state = IF @ < CLOSING THEN CLOSING ELSE @]
     IN  conn' = AutoDestroy(HandleClose(d))

\* All that was written is flushed after end().
RawFinish ==
  /\ EventLoopTurn
  /\ conn.writable = "ended"
  /\ ~conn.destroyed
  /\ LET d == [conn EXCEPT !.writable = "finished", !.needDrain = FALSE]
     IN  conn' = AutoDestroy(IF d.state < CLOSING THEN d ELSE HandleClose(d))

\* The connection is reset.
RawError ==
  /\ EventLoopTurn
  /\ ~conn.destroyed
  /\ LET d == Destroy(conn)
     IN  conn' = IF d.flush = "draining" THEN FlushFailed(d) ELSE d

RawClose ==
  /\ EventLoopTurn
  /\ conn.destroyed
  /\ ~conn.rawClosed
  /\ LET d == HandleClose([conn EXCEPT !.rawClosed = TRUE])
     IN  conn' = IF d.flush = "draining" THEN FlushFailed(d) ELSE d

CloseTimerFires ==
  /\ EventLoopTurn
  /\ conn.timer
  /\ conn' = Terminate([conn EXCEPT !.timer = FALSE])

-----------------------------------------------------------------------------
(* handleChunk: the frames of the chunk, one by one.  Nothing looks at the *)
(* state of the connection between two of them.                            *)

NextFrame(rest, listener) ==
  /\ input' = rest
  /\ callback' = listener
  /\ UNCHANGED chunks

OnData ==
  /\ input # <<>> /\ Head(input) = "data"
  /\ NextFrame(Tail(input), TRUE)
  /\ UNCHANGED conn

OnPing ==
  /\ input # <<>> /\ Head(input) = "ping"
  /\ NextFrame(<<"autoPong">> \o Tail(input), TRUE)
  /\ UNCHANGED conn

OnAutoPong ==
  /\ input # <<>> /\ Head(input) = "autoPong"
  /\ NextFrame(Tail(input), FALSE)
  /\ \E full \in BOOLEAN :
       conn' = IF AutoPong /\ conn.state = OPEN
               THEN Write(conn, Control("pong"), full) ELSE conn

OnClose ==
  /\ input # <<>> /\ Head(input) = "close"
  /\ NextFrame(Tail(input), FALSE)
  /\ conn' = HandleCloseFrame(conn)

\* A frame that throws a WebSocketProtocolError: the error is emitted first,
\* and the rest of the chunk never read.
OnInvalid ==
  /\ input # <<>> /\ Head(input) \in {"invalid", "invalidClose"}
  /\ NextFrame(<<"fail">>, TRUE)
  /\ conn' = IF Head(input) = "invalidClose" THEN [conn EXCEPT !.gotClose = TRUE] ELSE conn

OnFail ==
  /\ input # <<>> /\ Head(input) = "fail"
  /\ NextFrame(<<>>, FALSE)
  /\ conn' = Fail(conn)

-----------------------------------------------------------------------------
HandleFrame == OnData \/ OnPing \/ OnAutoPong \/ OnClose \/ OnInvalid \/ OnFail

Application ==
  \/ ApplicationSends \/ ApplicationPings \/ ApplicationPauses \/ ApplicationResumes
  \/ ApplicationCloses \/ ApplicationTerminates

EventLoop ==
  \/ ChunkArrives \/ CompressResolves \/ CompressRejects \/ RawDrain \/ RawEnd
  \/ RawFinish \/ RawError \/ RawClose \/ CloseTimerFires

Next == HandleFrame \/ Application \/ EventLoop

Spec == Init /\ [][Next]_vars

\* The synchronous code runs to its end, timers fire, promises settle, and a
\* destroyed socket emits close.
LocalFairness ==
  /\ WF_vars(HandleFrame)
  /\ WF_vars(CloseTimerFires)
  /\ WF_vars(CompressResolves)
  /\ WF_vars(RawClose)

\* The peer reads what was written, and ends its side once the connection's own
\* is finished.
PeerFairness ==
  /\ WF_vars(RawDrain)
  /\ WF_vars(RawFinish)
  /\ WF_vars(conn.writable = "finished" /\ RawEnd)

\* The peer may stop reading: properties that need it to go on say so.
FairSpec == Spec /\ LocalFairness

-----------------------------------------------------------------------------
OnWire(id) == \E i \in DOMAIN conn.wire : conn.wire[i] = Data(id)

\* Messages reach the wire in the order send() was called in, each at most once,
\* though each is compressed asynchronously.
WireInOrder ==
  \A i, j \in DOMAIN conn.wire :
    i < j /\ conn.wire[i].type = "data" /\ conn.wire[j].type = "data"
      => conn.wire[i].id < conn.wire[j].id

\* Whatever the order of close(), of the peer's close frame, of a protocol error
\* and of the flush loop's end: one close frame at most, and nothing after it.
CloseFrameLast ==
  \A i \in DOMAIN conn.wire : conn.wire[i].type = "close" => i = Len(conn.wire)

\* The wire is what the application and the protocol ask for, in their order.
WireOrderly == WireInOrder /\ CloseFrameLast

\* A close frame that close() had written comes after every message sent before
\* it: close() waits for the compressed queue, and a frame is in exactly one
\* place until it is on the wire.
FlushedBeforeClose ==
  conn.closedBy = "application" => \A id \in 1 .. conn.sent : OnWire(id)

\* After close() had its frame written the timer runs, until the close is
\* reported or the socket destroyed; and it never outlives the report.
TimerGuardsClose ==
  /\ conn.closedBy = "application" => conn.timer \/ conn.reported \/ conn.destroyed
  /\ conn.reported => ~conn.timer

\* However the peer behaves, a connection whose close frame close() had written
\* reports its close: closeTimeout bounds the wait.
OwnCloseReported == conn.closedBy = "application" ~> conn.reported

\* With a peer that reads, every connection that begins to close reports it.
CloseReported ==
  PeerFairness => (conn.state = CLOSING ~> conn.reported)

\* With a peer that also ends its side, the socket of a connection that sent a
\* close frame is released, unless the application left it paused.
RawReleased ==
  PeerFairness => (conn.sentClose ~> conn.rawClosed \/ conn.rawPaused)
=============================================================================
