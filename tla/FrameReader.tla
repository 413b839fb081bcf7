----------------------------- MODULE FrameReader -----------------------------
(***************************************************************************)
(* What a connection makes of the bytes of its peer: handleChunk, the      *)
(* parser of frames (tryParseFrame, src/internal/websocket/frame.ts) and   *)
(* the reassembly of fragmented messages                                   *)
(* (src/internal/websocket/connection.ts).  The peer's frames arrive cut   *)
(* into chunks anywhere, in the middle of a header too.                    *)
(*                                                                         *)
(* A frame is its header and what can be wrong with it; its payload is its *)
(* length and its place among the frames.  form is the number of bytes of  *)
(* the extended length, content what there is to say of the payload of the *)
(* message that the frame begins.  WebSocketConnection models what the     *)
(* connection does with the frames that are read.                          *)
(***************************************************************************)
EXTENDS Naturals, Sequences, SequencesExt, FiniteSetsExt

CONSTANTS
  Scripts,        \* what a peer may send: sequences of frames
  ReaderOptions,  \* [deflate, skipUTF8Validation] of the connection
  MaxControl,     \* 125: the longest payload of a control frame
  MaxSafe,        \* Number.MAX_SAFE_INTEGER
  MaxPayload      \* options.maxPayload

Opcodes == {"continuation", "text", "binary", "close", "ping", "pong", "reserved", "reservedControl"}
Contents == {"plain", "notUtf8", "badCode", "broken", "bomb"}
FrameType ==
  [opcode : Opcodes, fin : BOOLEAN, rsv1 : BOOLEAN, reserved : BOOLEAN, masked : BOOLEAN,
   form : {0, 2, 8}, length : Nat, content : Contents]

ASSUME ReaderAssumption ==
  /\ Scripts \subseteq Seq(FrameType)
  /\ ReaderOptions \subseteq [deflate : BOOLEAN, skipUTF8Validation : BOOLEAN]
  /\ MaxControl \in Nat /\ MaxSafe \in Nat /\ MaxPayload \in 0..MaxSafe

VARIABLES
  frames,      \* what the peer sends
  options,     \* the connection's options
  received,    \* bytes that have arrived
  consumed,    \* bytes taken off the front of this.buffer
  handled,     \* frames handled, one by one
  fragments,   \* fragmentedOpcode, -Compressed, -Length and fragments
  delivered,   \* events emitted: messages by the frames they are made of
  failure      \* the code of the protocol error that ended the reading, or 0

readerVars == <<frames, options, received, consumed, handled, fragments, delivered, failure>>

NoFragments == [opcode |-> "none", compressed |-> FALSE, length |-> 0, parts |-> <<>>]

ReaderTypeOK ==
  /\ frames \in Scripts /\ options \in ReaderOptions
  /\ received \in Nat /\ consumed \in 0..received
  /\ handled \in 0..Len(frames)
  /\ fragments \in [opcode : {"none", "text", "binary"}, compressed : BOOLEAN, length : 0..MaxPayload,
                    parts : Seq(DOMAIN frames)]
  /\ delivered \in Seq([opcode : Opcodes, inflated : BOOLEAN, parts : Seq(DOMAIN frames)])
  /\ failure \in {0, 1002, 1007, 1009}

ReaderInit ==
  /\ frames \in Scripts /\ options \in ReaderOptions
  /\ received = 0 /\ consumed = 0 /\ handled = 0
  /\ fragments = NoFragments /\ delivered = <<>> /\ failure = 0

-----------------------------------------------------------------------------
(* tryParseFrame.                                                          *)

\* Two bytes, the extended length, the mask, the payload.
Size(f) == 2 + f.form + 4 + f.length

IsControl(f) == f.opcode \in {"close", "ping", "pong", "reservedControl"}

Buffered == received - consumed
Next1 == frames[handled + 1]

\* Seen in the first two bytes.
HeaderRefused(f) == f.reserved \/ (f.rsv1 /\ ~options.deflate) \/ ~f.masked

\* Seen with the length.
LengthRefused(f) == f.form = 8 /\ f.length > MaxSafe

ControlRefused(f) == IsControl(f) /\ (f.rsv1 \/ ~f.fin \/ f.length > MaxControl)

Reading == failure = 0 /\ handled < Len(frames)

\* The errors of the parser, as soon as the bytes that show them are there.
ParseFails(code) ==
  /\ Reading
  /\ \/ Buffered >= 2 /\ HeaderRefused(Next1) /\ code = 1002
     \/ /\ Buffered >= 2 + Next1.form /\ ~HeaderRefused(Next1)
        /\ \/ LengthRefused(Next1) /\ code = 1009
           \/ ~LengthRefused(Next1) /\ ControlRefused(Next1) /\ code = 1002

Parsed ==
  /\ Reading
  /\ Buffered >= Size(Next1)
  /\ ~HeaderRefused(Next1) /\ ~LengthRefused(Next1) /\ ~ControlRefused(Next1)

\* tryParseFrame returns null: the rest comes with a later chunk.
NeedsMore == Reading /\ ~Parsed /\ ~\E code \in {1002, 1009} : ParseFails(code)

-----------------------------------------------------------------------------
(* handleFrame: the errors of a frame that was read, and its events.       *)

\* The payload so far: of the frame, or of the message that it continues.
PayloadLength(f) ==
  IF f.opcode = "continuation" THEN fragments.length + f.length ELSE f.length

\* What is wrong with the frame where it stands.
OutOfPlace(f) ==
  CASE f.opcode \in {"text", "binary"} -> fragments.opcode # "none"
    [] f.opcode = "continuation" -> fragments.opcode = "none" \/ f.rsv1
    [] OTHER -> f.opcode \in {"reserved", "reservedControl"}

\* emitMessage and inflateMessage, of a message that began with the frame first.
MessageErrors(opcode, compressed, first) ==
  IF compressed /\ first.content = "broken" THEN {1007}
  ELSE IF compressed /\ first.content = "bomb" THEN {1009}
  ELSE IF opcode = "text" /\ ~options.skipUTF8Validation /\ first.content = "notUtf8" THEN {1007}
  ELSE {}

\* A code of two bytes, or nothing, and a reason that is text.
CloseErrors(f) ==
  IF f.length = 1 \/ (f.length >= 2 /\ f.content = "badCode") THEN {1002}
  ELSE IF f.length > 2 /\ ~options.skipUTF8Validation /\ f.content = "notUtf8" THEN {1007}
  ELSE {}

\* ensurePayloadLimit.
PayloadRefused(f) == ~IsControl(f) /\ PayloadLength(f) > MaxPayload

Began(f) ==
  [opcode |-> f.opcode, compressed |-> f.rsv1, length |-> f.length, parts |-> <<handled + 1>>]

Continued(f) ==
  [fragments EXCEPT !.length = @ + f.length, !.parts = Append(@, handled + 1)]

\* The message that the frame belongs to, with it.
Message(f) == IF f.opcode = "continuation" THEN Continued(f) ELSE Began(f)

\* The error a frame is refused with; a frame out of place is not looked into.
FrameErrors(f) ==
  IF f.opcode = "continuation" /\ OutOfPlace(f) THEN {1002}
  ELSE IF f.opcode \in {"text", "binary", "continuation"} /\ PayloadRefused(f) THEN {1009}
  ELSE IF OutOfPlace(f) THEN {1002}
  ELSE IF f.opcode = "close" THEN CloseErrors(f)
  ELSE IF ~IsControl(f) /\ f.fin
  THEN LET m == Message(f) IN MessageErrors(m.opcode, m.compressed, frames[m.parts[1]])
  ELSE {}

\* A chunk comes when handleChunk has nothing left to read.
ChunkOf(n) ==
  /\ NeedsMore
  /\ received' = received + n
  /\ UNCHANGED <<frames, options, consumed, handled, fragments, delivered, failure>>

Take == consumed' = consumed + Size(Next1) /\ handled' = handled + 1

HandleControl ==
  /\ Parsed /\ IsControl(Next1) /\ FrameErrors(Next1) = {}
  /\ Take
  /\ delivered' = Append(delivered, [opcode |-> Next1.opcode, inflated |-> FALSE, parts |-> <<handled + 1>>])
  /\ UNCHANGED <<frames, options, received, fragments, failure>>

HandleFragment ==
  /\ Parsed /\ ~IsControl(Next1) /\ ~Next1.fin /\ FrameErrors(Next1) = {}
  /\ Take
  /\ fragments' = Message(Next1)
  /\ UNCHANGED <<frames, options, received, delivered, failure>>

\* Mutant: the fragments of a message are kept after it was delivered.
HandleFinal_Kept ==
  /\ Parsed /\ ~IsControl(Next1) /\ Next1.fin /\ FrameErrors(Next1) = {}
  /\ Take
  /\ LET m == Message(Next1) IN
     delivered' = Append(delivered, [opcode |-> m.opcode, inflated |-> m.compressed, parts |-> m.parts])
  /\ UNCHANGED <<frames, options, received, fragments, failure>>

HandleFinal ==
  /\ Parsed /\ ~IsControl(Next1) /\ Next1.fin /\ FrameErrors(Next1) = {}
  /\ Take
  /\ LET m == Message(Next1) IN
     delivered' = Append(delivered, [opcode |-> m.opcode, inflated |-> m.compressed, parts |-> m.parts])
  /\ fragments' = NoFragments
  /\ UNCHANGED <<frames, options, received, failure>>

\* A WebSocketProtocolError: fail() destroys the socket, and nothing is read any more.
Refuse ==
  /\ \E code \in {1002, 1007, 1009} :
       /\ ParseFails(code) \/ (Parsed /\ code \in FrameErrors(Next1))
       /\ failure' = code
  /\ UNCHANGED <<frames, options, received, consumed, handled, fragments, delivered>>

\* Where the i-th frame ends, in the bytes of the peer.
Ends(i) == SumFunctionOnSet([k \in DOMAIN frames |-> Size(frames[k])], 1..i)

ReaderNext ==
  \/ \E n \in 1..(Ends(Len(frames)) - received) : ChunkOf(n)
  \/ HandleControl \/ HandleFragment \/ HandleFinal \/ Refuse

ReaderSpec == ReaderInit /\ [][ReaderNext]_readerVars

-----------------------------------------------------------------------------
(* What the frames fs say to a reader with options o, whatever the chunks.  *)

\* The frames of the message that frame i belongs to, up to i.
Members(fs, i) ==
  {k \in 1..i : /\ ~IsControl(fs[k])
                /\ \A e \in k..(i - 1) : IsControl(fs[e]) \/ ~fs[e].fin}

First(fs, i) == fs[Min(Members(fs, i))]

Malformed(fs, o, i) ==
  LET f == fs[i]
  IN  \/ f.reserved \/ ~f.masked \/ (f.rsv1 /\ ~o.deflate)
      \/ f.opcode \in {"reserved", "reservedControl"}
      \/ IsControl(f) /\ (~f.fin \/ f.rsv1 \/ f.length > MaxControl)
      \/ f.opcode = "close" /\ (f.length = 1 \/ (f.length > 1 /\ f.content = "badCode"))
      \/ f.opcode = "continuation" /\ (Members(fs, i) = {i} \/ f.rsv1)
      \/ f.opcode \in {"text", "binary"} /\ Members(fs, i) # {i}

\* The bytes of the frames of S.
Carried(fs, S) == SumFunctionOnSet([k \in DOMAIN fs |-> fs[k].length], S)

TooLong(fs, i) ==
  LET f == fs[i]
  IN  \/ f.form = 8 /\ f.length > MaxSafe
      \/ ~IsControl(f) /\ MaxPayload <
           IF f.opcode = "continuation" THEN Carried(fs, Members(fs, i)) ELSE f.length
      \/ ~IsControl(f) /\ f.fin /\ First(fs, i).rsv1 /\ First(fs, i).content = "bomb"

Unreadable(fs, o, i) ==
  LET f == fs[i]
  IN  \/ /\ ~o.skipUTF8Validation
         /\ \/ f.opcode = "close" /\ f.length > 2 /\ f.content = "notUtf8"
            \/ /\ ~IsControl(f) /\ f.fin
               /\ First(fs, i).opcode = "text" /\ First(fs, i).content = "notUtf8"
      \/ ~IsControl(f) /\ f.fin /\ First(fs, i).rsv1 /\ First(fs, i).content = "broken"

\* Why frame i may be refused, when those before it were not.
Reasons(fs, o, i) ==
  {c \in {1002} : Malformed(fs, o, i)} \cup {c \in {1009} : TooLong(fs, i)}
    \cup {c \in {1007} : Unreadable(fs, o, i)}

\* The frames among the first n that end an event of the application.
Finals(fs, n) == {i \in 1..n : IsControl(fs[i]) \/ fs[i].fin}

\* p lists the numbers in S from the smallest to the largest.
Lists(p, S) == Range(p) = S /\ \A a, b \in DOMAIN p : a < b => p[a] < p[b]

\* What the application is told with the frame i.
IsEvent(event, fs, i) ==
  IF IsControl(fs[i])
  THEN event = [opcode |-> fs[i].opcode, inflated |-> FALSE, parts |-> <<i>>]
  ELSE /\ event.opcode = First(fs, i).opcode
       /\ event.inflated = First(fs, i).rsv1
       /\ Lists(event.parts, Members(fs, i))

\* However the bytes are cut into chunks: every frame that has arrived is handled before the
\* next chunk, none is passed over that should be refused and none refused without a reason;
\* and the application gets each control frame and each message, once, whole, in the order
\* in which they end, with the control frames between the fragments of a message before it.
MessagesWhole ==
  /\ \A i \in 1..handled : Reasons(frames, options, i) = {}
  /\ failure # 0 => failure \in Reasons(frames, options, handled + 1)
  /\ NeedsMore => Ends(handled + 1) > received
  /\ LET finals == Finals(frames, handled) IN
     /\ Len(delivered) = Cardinality(finals)
     /\ \A i \in finals :
          IsEvent(delivered[Cardinality({e \in finals : e <= i})], frames, i)
=============================================================================
