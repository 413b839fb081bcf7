------------------------ MODULE MCWebSocketConnection ------------------------
(***************************************************************************)
(* Model checking of WebSocketConnection and of FrameReader.  A behaviour  *)
(* is of the connection's life or of its reading, which share nothing but  *)
(* the kinds of the frames that are read.                                  *)
(***************************************************************************)
EXTENDS WebSocketConnection, FrameReader

\* What a chunk of the peer holds: one frame, or a close frame with a frame before it,
\* after it, or twice.
AnyChunk ==
  {<<"data">>, <<"ping">>, <<"close">>, <<"invalid">>, <<"invalidClose">>,
   <<"ping", "close">>, <<"close", "data">>, <<"close", "close">>}

-----------------------------------------------------------------------------
(* The frames of FrameReader.                                              *)

Text == [opcode |-> "text", fin |-> TRUE, rsv1 |-> FALSE, reserved |-> FALSE, masked |-> TRUE,
         form |-> 0, length |-> 1, content |-> "plain"]
Start == [Text EXCEPT !.fin = FALSE, !.length = 2]
Deflated == [Start EXCEPT !.opcode = "binary", !.rsv1 = TRUE, !.length = 1]
Bomb == [Deflated EXCEPT !.content = "bomb"]
Middle == [Text EXCEPT !.opcode = "continuation", !.fin = FALSE, !.form = 2]
End == [Text EXCEPT !.opcode = "continuation"]
Ping == [Text EXCEPT !.opcode = "ping", !.length = 0]
Close == [Text EXCEPT !.opcode = "close", !.length = 2]

\* Frames that others may follow, and those that come last.
Legal == {Text, Start, [Start EXCEPT !.content = "notUtf8"], Deflated, Middle, End, Ping}
Others ==
  {Close, [Close EXCEPT !.length = 0], [Close EXCEPT !.length = 1], [Close EXCEPT !.content = "badCode"],
   [Close EXCEPT !.content = "notUtf8", !.length = 3],
   [Text EXCEPT !.rsv1 = TRUE, !.content = "broken"], [Text EXCEPT !.masked = FALSE],
   [Text EXCEPT !.reserved = TRUE], [Text EXCEPT !.opcode = "reserved"], [Text EXCEPT !.length = 4],
   [Text EXCEPT !.form = 8, !.length = 7], [End EXCEPT !.rsv1 = TRUE],
   [Ping EXCEPT !.length = 4], [Ping EXCEPT !.fin = FALSE], [Ping EXCEPT !.rsv1 = TRUE],
   [Ping EXCEPT !.opcode = "reservedControl"]}

PeerScripts ==
  {<<a, b, c>> : a \in Legal, b \in Legal, c \in Legal \cup Others}
  \cup {<<Bomb, c>> : c \in Legal \cup Others}
  \cup {<<Start, Middle, Ping, End, Text>>}

BothOptions ==
  {[deflate |-> TRUE, skipUTF8Validation |-> FALSE], [deflate |-> FALSE, skipUTF8Validation |-> TRUE]}

-----------------------------------------------------------------------------
VARIABLE part   \* "life" or "reading"

MCInit ==
  /\ part \in {"life", "reading"}
  /\ Init /\ (part = "reading" => conn.deflate)
  /\ ReaderInit /\ (part = "life" => frames = <<Bomb, Text>> /\ options.deflate)

MCNext ==
  \/ part = "life" /\ Next /\ UNCHANGED <<part, readerVars>>
  \/ part = "reading" /\ ReaderNext /\ UNCHANGED <<part, vars>>

MCSpec == MCInit /\ [][MCNext]_<<part, vars, readerVars>> /\ LocalFairness
=============================================================================
